\* Two goroutines, two bags, room for one; no symmetry, for liveness.
CONSTANTS
  Procs = {p1, p2}
  NoProc = NoProc
  Bags = {b1, b2}
  NoBag = NoBag
  Torrents = {t1, t2, t3, t4}
  NoTorrent = NoTorrent
  MaxCacheEntries = 1
  ClockSteps = {0, 1}
SPECIFICATION FairSpec
PROPERTY CallsReturn
