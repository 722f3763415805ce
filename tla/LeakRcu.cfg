SPECIFICATION RecordFairSpec
CONSTANTS
  b1 = b1
  b2 = b2
  o1 = o1
  o2 = o2
  Bo = {b1, b2}
  LeakObj = {o1, o2}
  Diag = {}
  Head = Head
  None = None
  Forms = {"rcu"}
INVARIANT TypeOK
INVARIANT WalkerSeesLiveObject
INVARIANT CountsEachOnce
PROPERTY MonitorGoesOn
PROPERTY FiniEnds
CHECK_DEADLOCK FALSE
