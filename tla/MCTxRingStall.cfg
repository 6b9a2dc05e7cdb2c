SPECIFICATION TxSpec
CONSTANTS
  s1 = s1
  s2 = s2
  NDesc = 4
  FreeThr = 2
  Skb = {s1, s2}
  NoSkb = NoSkb
  UnmappableAt = {}
PROPERTY StoppedIsWoken
CHECK_DEADLOCK FALSE
