\* One request for one bag.
CONSTANTS
  Requests = {r1}
  Bags = {b1}
  NoBag = NoBag
  Asked = {"folder", "file", "missing"}
  CallTime = 1
  HeaderTimeout = 1
  PollInterval = 1
SPECIFICATION Spec
INVARIANT MissingIs404
