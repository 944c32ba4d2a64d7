SPECIFICATION Spec
CONSTANT Scenarios <- Stop
INVARIANT NoOrphans
CHECK_DEADLOCK FALSE
