CONSTANTS
  Acker = {a1, a2}
  OnlyListed = TRUE
  MaxAttempts = 3
  MaxFaults = 1
SPECIFICATION Spec
INVARIANTS TypeOK PublishedIsWhole AckedOnce StateIsBacked
PROPERTIES AckTakesEffect PublicationsEnd ImplementsLog
CHECK_DEADLOCK FALSE
