CONSTANTS
  SEQ_MOD = 3
  REFRESH = 2
  BatchSizes <- MCBatchSizes
  MaxRecords = 5
  MaxInFlight = 3
SPECIFICATION Spec
INVARIANT CountsRecordsSent
