SPECIFICATION CastSpec
CONSTANTS
  Consumers = {c1, c2}
  Callers = {b}
  Sweepers = {k}
  Ingress = {i}
  FirstReceipts = {"absent", "ingress", "quarantined", "unavailable"}
  RawStates = {"intact", "mismatch", "missing"}
  Truths = {"stored", "deleted"}
  MaxGen = 2
  MaxTries = 2
  MaxFails = 1
  Timely = FALSE
SYMMETRY Symmetry
INVARIANTS ForwardInv ReceiptIsTrue NothingIsStranded
PROPERTIES AcceptanceIsKept
CHECK_DEADLOCK FALSE
