SPECIFICATION Spec
CONSTANTS
  b1 = b1
  b2 = b2
  v1 = v1
  v2 = v2
  v3 = v3
  p1 = p1
  p2 = p2
  p3 = p3
  Bo = {b1, b2}
  KernelBo = {b1}
  Vres = {v1, v2, v3}
  Block = {p1, p2, p3}
  Size = {0, 1, 2, 3}
  Recoverer = {}
  None = None
  RESERVED_VRAM = 1
  RETRY_COUNT = 2
  U64 = 32
  MAX_PRESSURE = 1
SYMMETRY Symmetry
INVARIANT TypeOK
INVARIANT AccountingExact
 
INVARIANT HolderSeesLiveBuddy
 
INVARIANT NoLeak
INVARIANT StatsAgree
 
CHECK_DEADLOCK FALSE
