SPECIFICATION Spec
CONSTANTS
  eth = eth
  wlan = wlan
  pon = pon
  NumEntries = 1
  Flow = {eth, wlan, pon}
  NoFlow = NoFlow
  Buckets <- MCBuckets
  Pkt = {m1, m2}
  Grp <- MCGrp
  Addr <- MCAddr
  Wifi <- MCWifi
  SfuMode = TRUE
SYMMETRY PktSymmetry
INVARIANT OwnEgress
