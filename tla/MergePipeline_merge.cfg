\* Four attempts and four failures anywhere.
SPECIFICATION Spec
CONSTANTS
  MaxAttempts = 4
  MaxFaults = 4
INVARIANTS
  TypeOK
  CommittedImpliesRecorded
  NeverIntegratedTwice
  AllOrNothing
PROPERTIES
  PickedIsSettled
CHECK_DEADLOCK FALSE
