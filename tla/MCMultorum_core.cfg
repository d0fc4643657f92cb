\* Agents stop at finalization and rulebook growth is private.
SPECIFICATION Spec
CONSTANTS
  None = None
  alpha = alpha
  beta = beta
  a = a
  b = b
  c = c
  d = d
  e = e
  Worker = {w1, w2}
  Perspective = {alpha, beta}
  File = {a, b, c, d, e}
  Rulebook = {1, 2}
  Compiled <- PrivateVersions
  InitialRulebook = 1
  RulebookEdit <- Upgrade
  AgentStates <- LiveAgents
  EditSet <- Edits
  Rename <- MoveWritten
  Quoted = {}
  MaxCommits = 2
  MaxEdits = 1
  MaxUnacked = 1
SYMMETRY Workers
INVARIANTS
  TypeOK
  ExclusionMatches
  ConflictFree
  StableBoundary
  SiblingsShareBase
  OneMergePerGroup
PROPERTIES
  MergeNeverConflicts
  ImplementsLease
VIEW SilentFinalView
