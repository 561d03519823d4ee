\* Two keys, two values, a life of two ticks.
CONSTANTS
  Keys = {k1, k2}
  Values = {v1, v2}
  NoValue = NoValue
  TTL = 2
SPECIFICATION SCSpec
PROPERTY ImplementsTtlMap
PROPERTY ExpiredAreCollected
