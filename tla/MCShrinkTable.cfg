SPECIFICATION Spec
CONSTANTS
  UPDMEM_NUM = 3
  SMAC_PON_IDX = 1
  KEEP_SMAC = 2
  timeOutVal = 1
  m1 = m1
  m2 = m2
  m3 = m3
  Mac = {m1, m2, m3}
  KeepMac = KeepMac
  NoMac = NoMac
  ppe_num_entries = 2
  ppe_sram_etry_num = 1
SYMMETRY Symm
INVARIANTS
  TypeOK
  NoDuplicateSmac
  BoundMacFresh
PROPERTIES
  FailsOnlyWhenFull
  PinnedStays
  CleanBySrcMacExact
  LeaseSpec
