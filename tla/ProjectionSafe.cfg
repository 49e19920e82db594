SPECIFICATION Spec
CONSTANTS
  MaxVersion = 2
  MaxTries = 2
  MaxRetries = 1
  MaxEvents = 1
  Requests = {"r1"}
CONSTRAINTS
  FirstVersionFails
  FirstVersionIsFiled
INVARIANTS
  ProjectionInv
  CancelledIsReachable
  CancelledWasNeverSent
  CompletedIsDone
PROPERTIES
  ConsumedIsSent
  RetiredTextIsADraft
  NoResurrection
CHECK_DEADLOCK FALSE
