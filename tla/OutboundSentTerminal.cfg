SPECIFICATION Spec
CONSTANTS
  Deliveries = {d1}
  Workers = {w1}
  Recipients = {r1, r2}
  Events <- MCPartialEvents
  MaxAttempts = 2
  AttemptBound = 3
  LeaseBound = 6
  NoDelivery = NoDelivery
PROPERTIES SentIsTerminal
