SPECIFICATION Spec
CONSTANTS
  b1 = b1
  b2 = b2
  r1 = r1
  Bo = {b1, b2}
  Size = {2}
  Reader = {r1}
  MAX_MOVES = 1
SYMMETRY Symmetry
INVARIANT TypeOK
 
INVARIANT SnapshotWasTrue
INVARIANT AverageCoversCounted
CHECK_DEADLOCK FALSE
