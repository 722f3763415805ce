SPECIFICATION Spec
CONSTANTS
  b1 = b1
  b2 = b2
  o1 = o1
  o2 = o2
  Bo = {b1, b2}
  LeakObj = {o1, o2}
  Diag = {}
  Head = Head
  None = None
  Forms = {"plain"}
INVARIANT WalkerReadsLiveMemory
CHECK_DEADLOCK FALSE
