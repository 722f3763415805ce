SPECIFICATION FairSpec
CONSTANTS
  b1 = b1
  b2 = b2
  r1 = r1
  Bo = {b1, b2}
  Size = {2}
  Lpfn = {0, 3}
  GttSize = 3
  Recoverer = {r1}
  RETRY_COUNT = 3
PROPERTY AllocReturns
CHECK_DEADLOCK FALSE
