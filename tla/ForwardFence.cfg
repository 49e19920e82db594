SPECIFICATION Spec
CONSTANTS
  Consumers = {c1, c2}
  Callers = {b}
  Sweepers = {k}
  Ingress = {}
  FirstReceipts = {"absent"}
  RawStates = {"intact"}
  Truths = {}
  MaxGen = 2
  MaxTries = 2
  MaxFails = 0
  Timely = TRUE
INVARIANTS OldCopiesAreFenced
CHECK_DEADLOCK FALSE
