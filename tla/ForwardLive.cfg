SPECIFICATION QuietSpec
CONSTANTS
  Consumers = {c1}
  Callers = {b}
  Sweepers = {k}
  Ingress = {}
  FirstReceipts = {"absent"}
  RawStates = {"intact"}
  Truths = {}
  MaxGen = 2
  MaxTries = 2
  MaxFails = 0
  Timely = FALSE
PROPERTIES ForwardSettles MarkersDrain
CHECK_DEADLOCK FALSE
