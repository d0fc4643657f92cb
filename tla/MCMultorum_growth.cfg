\* A rulebook edit lets one live group grow into what another one reads.
SPECIFICATION Spec
CONSTANTS
  None = None
  alpha = alpha
  beta = beta
  a = a
  b = b
  c = c
  d = d
  e = e
  Worker = {w1, w2}
  Perspective = {alpha, beta}
  File = {a, b, c}
  Rulebook = {1, 2}
  Compiled <- SharedVersions
  InitialRulebook = 1
  RulebookEdit <- Upgrade
  AgentStates <- LiveAgents
  EditSet <- ReadEdits
  Rename <- NoMove
  Quoted = {}
  MaxCommits = 1
  MaxEdits = 1
  MaxUnacked = 1
SYMMETRY Workers
INVARIANTS
  ConflictFree
