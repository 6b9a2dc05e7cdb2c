SPECIFICATION Spec
CONSTANTS
  lan = lan
  wifi = wifi
  d1 = d1
  d2 = d2
  k1 = k1
  NumEntries = 2
  Flow <- MCFlow
  Dev = {d1, d2}
  Key = {k1}
  NoDev = NoDev
  NoCopy = NoCopy
  DevOf <- MCDevOf
  KeyOf <- MCKeyOf
  Buckets <- MCBuckets
  MaxCtDelete = 1
  Asked <- MCAsked
  MaxQueue = 1
PROPERTY DeletesWhatItChecked
