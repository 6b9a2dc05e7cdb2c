SPECIFICATION MCSpec
CONSTANTS
  L2B_ETYPE_MAX_INDEX = 4
  ipv4 = 2048
  ipv6 = 34525
  ppp = 33
  vlan = 33024
  w1 = w1
  w2 = w2
  Etypes <- MCEtypes
  DefaultValues <- MCDefaultValues
  Writer = {w1, w2}
INVARIANTS
  Armed
  NothingLeft
  PreExistingKept
PROPERTY SwitchReturns
