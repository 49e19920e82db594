SPECIFICATION FairSpec
CONSTANTS
  Consumers = {c1}
  MaxCopies = 1
  MaxScans = 0
  MaxIngressFails = 1
  MaxFails = 0
PROPERTY PipelineRests
CHECK_DEADLOCK FALSE
