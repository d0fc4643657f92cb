\* A discarded sibling acknowledges a message that was still waiting for it.
SPECIFICATION Spec
CONSTANTS
  None = None
  alpha = alpha
  beta = beta
  a = a
  b = b
  c = c
  d = d
  e = e
  Worker = {w1, w2}
  Perspective = {alpha, beta}
  File = {a, b, c, d}
  Rulebook = {1}
  Compiled <- OneVersion
  InitialRulebook = 1
  RulebookEdit <- NoEdit
  AgentStates <- AllAgents
  EditSet <- ReadEdits
  Rename <- NoMove
  Quoted = {}
  MaxCommits = 2
  MaxEdits = 1
  MaxUnacked = 1
SYMMETRY Workers
INVARIANTS
  OneMergePerGroup
