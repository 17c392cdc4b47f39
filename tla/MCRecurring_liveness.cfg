SPECIFICATION Spec
CONSTANTS
  t1 = t1
  k1 = k1
  w1 = w1
  w2 = w2
  q1 = q1
  None = None
  Templates <- OneTemplate
  ManualKeys <- OneKey
  Workers <- OneWorker
  Requests <- OneRequest
  Schedules <- Endless
  MaxDay = 1
  Limit = 1
  MaxAttempts = 2
PROPERTIES
  RunsSettle
  DueOccurrencesPrepared
