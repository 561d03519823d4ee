\* Four bags in a cache of two, a clock that may repeat an instant.
CONSTANTS
  Bags = {b1, b2, b3, b4}
  Torrents = {t1, t2, t3, t4}
  NoTorrent = NoTorrent
  NoBag = NoBag
  MaxCacheEntries = 2
  ClockSteps = {0, 1}
SPECIFICATION CacheSpec
INVARIANT FreedIsTheLoop
PROPERTY ImplementsLru
