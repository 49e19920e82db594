SPECIFICATION Spec
CONSTANTS
  Consumers = {c1}
  MaxCopies = 1
  MaxScans = 1
  MaxIngressFails = 2
  MaxFails = 1
INVARIANT AcceptedIsHeld
INVARIANT PipelineInv
PROPERTY CopiesLeaveSafely
CHECK_DEADLOCK FALSE
ACTION_CONSTRAINT FailuresApart
