\* Two statements at a time over two bags, pages of one entry.
CONSTANTS
  Headers <- MCHeaders
  Hashes = {"h1", "h2", "t2", "none"}
  NoHash = "none"
  MD5 <- MCMD5
  TokenLists <- MCTokenLists
  Calls = {c1, c2}
  Ids = {"b1", "B1", "b2"}
  Lower <- MCLower
  Hex = {"b1", "B1"}
  Names = {"ann", "bob"}
  Bodies <- MCBodies
  ShortId = "short"
  Limit = 1
  MaxTime = 2
  MaxWrites = 3
SYMMETRY Symmetry
SPECIFICATION Spec
INVARIANTS BookInv HistoryTellsTable PagesMissNoMore OnlyGranted
