SPECIFICATION DriverSpec
CONSTANTS
  LRO_RING_NUM = 1
  LRO_RING_START = 12
  e1 = e1
  e2 = e2
  e3 = e3
  Entry = {e1, e2, e3}
  NoEntry = NoEntry
  OtherNbq = {12}
  ReadMayFail = FALSE
  lan = lan
  wan = wan
  setter = setter
  Base = {lan, wan}
  Channel = {1, 2}
  QUEUES = 2
  Weight = {0, 1}
  Caller = {setter}
  Request <- MCRequest
  AIROHA_NUM_RX_RING = 1
  GEMPORTS = 2
  SlowRing = {0}
  FastUnit = 320
  SlowUnit = 8
  Limit = {0, 3, 4000, 100000000}
  DefaultLimit = 4000
  GemLimit <- MCGemLimit
  RingLimit <- MCRingLimit
  Writer = {w1}
  Size <- MCSize
  Kbps <- MCKbps
  Tick = {0, 1, 8, 15, 16, 25, 125, 4000}
  Index = {1}
  GswPort <- MCGswPort
  Xsi <- MCXsi
  Speed <- MCSpeed
  Mask <- MCMask
  s1 = s1
  s2 = s2
  NDesc = 3
  FreeThr = 2
  Skb = {s1, s2}
  NoSkb = NoSkb
  UnmappableAt = {1}
  LEDS = 2
  LEVEL = {0, 1}
SYMMETRY Symm
CHECK_DEADLOCK FALSE
INVARIANTS
  PartsTypeOK
  RingExclusive
  QosTakesHold
  GetThenSetIsNoOp
  LimitTakesHold
  PolicedWhenEnabled
  BucketIsLeast
  TokenRateExact
  HsgmiiBucketCovers
  MembersServed
  NoBareEntry
  RingAccounted
  ChainIsSubmitted
  LedsShowWhatWasAsked
  OffWhenGone
PROPERTIES
  FallbackOnlyWhenAllHeld
  OtherChannelsKept
  FreedOnce
