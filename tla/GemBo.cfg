SPECIFICATION Spec
CONSTANTS
  b1 = b1
  b2 = b2
  b3 = b3
  t1 = t1
  t2 = t2
  Bo = {b1, b2, b3}
  Task = {t1, t2}
  None = None
  Request <- Requests
  VramSize = 3
  GttSize = 2
SYMMETRY Symmetry
INVARIANT TypeOK
 
 
CHECK_DEADLOCK FALSE
