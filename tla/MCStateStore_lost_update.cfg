\* Two invocations at a time: one joins a group while an agent reports.
SPECIFICATION Spec
CONSTANTS
  Absent = Absent
  Torn = Torn
  alpha = alpha
  beta = beta
  a1 = a1
  z = z
  Process = {p1, p2}
  Worker = {a1, z}
  Perspective = {alpha, beta}
  AutoId <- OwnIds
  Explicit <- SharedExplicit
  MaxHead = 1
  MaxFaults = 0
PROPERTIES
  JoinWritesOnlyItsWorker
CHECK_DEADLOCK FALSE
