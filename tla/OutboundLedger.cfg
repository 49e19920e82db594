SPECIFICATION Spec
CONSTANTS
  Deliveries = {d1}
  Workers = {w1, w2}
  Recipients = {r1}
  Events <- MCEvents
  MaxAttempts = 2
  AttemptBound = 3
  LeaseBound = 6
  NoDelivery = NoDelivery
INVARIANTS LedgerInv DuplicateIsFlagged
PROPERTIES NoSilentDuplicate AutomaticRetriesBounded DeliveriesAreTruthful
