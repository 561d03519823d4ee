\* Three goroutines, two bags, room for one, a clock that may repeat an instant.
CONSTANTS
  Procs = {p1, p2, p3}
  NoProc = NoProc
  Bags = {b1, b2}
  NoBag = NoBag
  Torrents = {t1, t2, t3, t4, t5}
  NoTorrent = NoTorrent
  MaxCacheEntries = 1
  ClockSteps = {0, 1}
SYMMETRY Symmetry
VIEW View
SPECIFICATION Spec
INVARIANT ClientInv
INVARIANT RunningAccounted
INVARIANT CachedIsLive
INVARIANT HandedOutIsUsable
PROPERTY StoppedOnlyUnderPressure
PROPERTY ImplementsSessions
