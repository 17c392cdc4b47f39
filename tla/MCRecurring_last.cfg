SPECIFICATION Spec
CONSTANTS
  t1 = t1
  k1 = k1
  w1 = w1
  w2 = w2
  q1 = q1
  None = None
  Templates <- OneTemplate
  ManualKeys <- NoKeys
  Workers <- OneWorker
  Requests <- NoRequests
  Schedules <- Ending
  MaxDay = 2
  Limit = 1
  MaxAttempts = 2
PROPERTIES
  FinalOccurrenceGenerated
