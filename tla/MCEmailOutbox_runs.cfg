SPECIFICATION Spec
CONSTANTS
  e1 = e1
  w1 = w1
  w2 = w2
  p1 = p1
  None = None
  Lost = Lost
  Emails <- OneEmail
  Workers <- TwoWorkers
  Processors <- OneProcessor
  MaxAttempts = 2
  Stale = 1
  Backoff = 1
  RunTicks = 2
SYMMETRY Symmetry
INVARIANTS
  TypeOK
  DeliveredOnce
  LocksReleased
PROPERTIES
  ResultsOfClaimHolder
  BouncedNotRetried
