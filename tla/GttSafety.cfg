SPECIFICATION Spec
CONSTANTS
  b1 = b1
  b2 = b2
  b3 = b3
  Bo = {b1, b2, b3}
  Size = {0, 1, 2}
  Lpfn = {0, 2}
  GttSize = 3
  Recoverer = {}
  RETRY_COUNT = 2
SYMMETRY Symmetry
INVARIANT TypeOK
INVARIANT UsageExact
INVARIANT AdmittedFit
INVARIANT RangesLentOnce
INVARIANT RangeAsAsked
INVARIANT StatsAgree
PROPERTY UntouchedAfterTakedown
PROPERTY LendsPages
CHECK_DEADLOCK FALSE
