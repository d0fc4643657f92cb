\* Agents keep issuing commands after finalization: a worker that is live again
\* can be forwarded into a boundary another group took in the meantime.
SPECIFICATION Spec
CONSTANTS
  None = None
  alpha = alpha
  beta = beta
  a = a
  b = b
  c = c
  d = d
  e = e
  Worker = {w1, w2}
  Perspective = {alpha, beta}
  File = {a, b, c, d}
  Rulebook = {1}
  Compiled <- OneVersion
  InitialRulebook = 1
  RulebookEdit <- NoEdit
  AgentStates <- AllAgents
  EditSet <- MovedReadEdits
  Rename <- MoveRead
  Quoted = {}
  MaxCommits = 2
  MaxEdits = 1
  MaxUnacked = 1
SYMMETRY Workers
INVARIANTS
  ExclusionMatches
  DeadGroupsOwnNothing
PROPERTIES
  CanonicalAvoidsLiveGroups
VIEW OpenView
