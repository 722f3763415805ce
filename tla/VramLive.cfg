SPECIFICATION CalmSpec
CONSTANTS
  b1 = b1
  b2 = b2
  v1 = v1
  v2 = v2
  p1 = p1
  p2 = p2
  Bo = {b1, b2}
  KernelBo = {b1}
  Vres = {v1, v2}
  Block = {p1, p2}
  Size = {0, 2}
  Recoverer = {r1}
  r1 = r1
  None = None
  RESERVED_VRAM = 0
  RETRY_COUNT = 2
  U64 = 32
  MAX_PRESSURE = 0
PROPERTY CallsReturn
PROPERTY RemoveEnds
CHECK_DEADLOCK FALSE
