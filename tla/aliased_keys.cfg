\* Ids with and without a capital digit: keys that are copies, and views.
CONSTANTS
  Bags = {b1, b2, b3}
  NoBag = NoBag
  Contexts = {c1, c2}
  NoContext = NoContext
  MaxCacheEntries = 2
  Capitals = {TRUE, FALSE}
SPECIFICATION Spec
PROPERTY LimitIsRestored
