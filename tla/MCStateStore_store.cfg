\* One invocation at a time, any of which may fail anywhere.
SPECIFICATION Spec
CONSTANTS
  Absent = Absent
  Torn = Torn
  alpha = alpha
  beta = beta
  a1 = a1
  z = z
  Process = {p1}
  Worker = {a1, z}
  Perspective = {alpha, beta}
  AutoId <- OwnIds
  Explicit <- SharedExplicit
  MaxHead = 2
  MaxFaults = 1
INVARIANTS
  TypeOK
  NoOrphanWorkers
  LiveWorkerHasWorktree
  ConsistentWhenIdle
PROPERTIES
  ProjectionRepaired
  RefusedForwardMovesNothing
  CommandsEnd
CHECK_DEADLOCK FALSE
