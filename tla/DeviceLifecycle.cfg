SPECIFICATION Spec
CONSTANT MAX_PROBES = 3
INVARIANT TypeOK
 
INVARIANT WorkNeedsDevice
PROPERTY RegistersMapped
CHECK_DEADLOCK FALSE
