SPECIFICATION Spec
CONSTANTS
  eth = eth
  wlan = wlan
  pon = pon
  NumEntries = 2
  Flow = {eth, wlan}
  NoFlow = NoFlow
  Buckets <- MCBuckets
  Pkt = {m1, m2}
  Grp <- MCGrp
  Addr <- MCAddr
  Wifi <- MCWifi
  SfuMode = TRUE
SYMMETRY PktSymmetry
INVARIANTS
  GeneralOwnAddresses
  EgressKnown
  EgressAgrees
PROPERTIES
  BindingNotStolen
  DestroyUnbinds
