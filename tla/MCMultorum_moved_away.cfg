\* Somebody moves a file a live group reads to a name nobody holds.
SPECIFICATION Spec
CONSTANTS
  None = None
  alpha = alpha
  beta = beta
  a = a
  b = b
  c = c
  d = d
  e = e
  Worker = {w1, w2}
  Perspective = {alpha, beta}
  File = {a, c, d, e}
  Rulebook = {1}
  Compiled <- OneVersion
  InitialRulebook = 1
  RulebookEdit <- NoEdit
  AgentStates <- LiveAgents
  EditSet <- MovedAwayEdits
  Rename <- MoveAway
  Quoted = {}
  MaxCommits = 2
  MaxEdits = 1
  MaxUnacked = 1
SYMMETRY Workers
PROPERTIES
  CanonicalAvoidsLiveGroups
