\* Two requests for one bag, for paths of all kinds.
CONSTANTS
  Requests = {r1, r2}
  Bags = {b1}
  NoBag = NoBag
  Asked = {"folder", "file", "missing"}
  CallTime = 1
  HeaderTimeout = 2
  PollInterval = 1
SPECIFICATION FairSpec
INVARIANTS EnsureInv HoldBounded WaitBounded
PROPERTY Answered
