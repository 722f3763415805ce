SPECIFICATION Spec
CONSTANTS
  b1 = b1
  b2 = b2
  o1 = o1
  o2 = o2
  d1 = d1
  Bo = {b1, b2}
  LeakObj = {o1, o2}
  Diag = {d1}
  Head = Head
  None = None
  Forms = {"plain", "rcu"}
SYMMETRY Symmetry
INVARIANT ListWhole
 
 
INVARIANT ObjectsAccounted
INVARIANT NoWorkAfterCancel
CHECK_DEADLOCK FALSE
