SPECIFICATION Spec
CONSTANTS
  Name = {1, 2, 3}
  Segment = {"src", "gen", "a", "b", "doc"}
  File <- MCFile
  Check = {"lint", "test"}
  Book <- MCBook
  Gate <- MCGate
INVARIANTS
  TypeOK
  OrderIsTopological
  CycleIsReal
  CompiledIsMeaning
  OpaqueByReferenceOnly
  GateIsComplete
PROPERTIES
  OnlyReboundServersCrossRoles
  CallsEnd
