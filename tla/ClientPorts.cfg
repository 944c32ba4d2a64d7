SPECIFICATION Spec
CONSTANT Scenarios <- Safety
INVARIANTS
  
  
  PeersReady
CHECK_DEADLOCK FALSE
