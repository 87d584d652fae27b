SPECIFICATION Spec
CONSTANTS
  NumRefunds = 1
  Workers = {w1, w2}
  Staff = {s1}
  Batch = 1
  MaxCreateAttempts = 1
  MaxPosts = 2
  MaxRetries = 1
  MaxFaults = 1
  LoadFaults = TRUE
INVARIANTS PostedOnce
CHECK_DEADLOCK FALSE
