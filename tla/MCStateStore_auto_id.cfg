\* beta was given a worker under the id that alpha chooses next.
SPECIFICATION Spec
CONSTANTS
  Absent = Absent
  Torn = Torn
  alpha = alpha
  beta = beta
  a1 = a1
  z = z
  Process = {p1}
  Worker = {a1, z}
  Perspective = {alpha, beta}
  AutoId <- OwnIds
  Explicit <- BorrowedExplicit
  MaxHead = 2
  MaxFaults = 0
INVARIANTS
  LiveWorkerHasWorktree
CHECK_DEADLOCK FALSE
