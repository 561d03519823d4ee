\* One bag, one request, two updates at a time; a ban cache of two ticks, a
\* listing cache of one, calls of up to one.  No symmetry, for liveness.
CONSTANTS
  Bags = {b1}
  Readers = {r1}
  Admins = {a1, a2}
  Batches <- MCBatches
  DbFaults = {"error", "lost"}
  NoBag = NoBag
  NoValue = NoValue
  BanTTL = 2
  ListTTL = 1
  MaxCall = 1
SPECIFICATION FairSpec
INVARIANTS GateInv NoBanMissed ListingWindow BanWindow
PROPERTY UnbanHeals
