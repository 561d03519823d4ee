\* A database that never fails, bodies of one status each.
CONSTANTS
  Bags = {b1}
  Readers = {r1}
  Admins = {a1}
  Batches <- SingleBatches
  DbFaults = {}
  NoBag = NoBag
  NoValue = NoValue
  BanTTL = 2
  ListTTL = 1
  MaxCall = 1
SPECIFICATION Spec
INVARIANT UnbanTakesEffect
