CONSTANTS
  PrepareSteps = 2
  PublishSteps = 2
  Revisions = {r1, r2, r3}
  ManagedVpn = {r1, r2}
  Attempts = 2
  MaxRestarts = 1
  MaxApplies = 2
  MaxFaults = 3
SPECIFICATION Spec
INVARIANTS
  HostNeverStranded
  
  ActivatedIsCommitted
  
PROPERTIES
  WorkerOutlivesCapture
  
  ShutdownEndsProcess
CHECK_DEADLOCK FALSE
