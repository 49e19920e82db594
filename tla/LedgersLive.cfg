SPECIFICATION FairSpec
PROPERTIES
  OpenComesToRest
  AcceptedIsFiled
  CancellationSettles
  DeletionSettles
CHECK_DEADLOCK FALSE
