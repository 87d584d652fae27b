SPECIFICATION FairSpec
CONSTANTS
  NumRefunds = 1
  Workers = {w1, w2}
  Staff = {s1}
  Batch = 1
  MaxCreateAttempts = 1
  MaxPosts = 2
  MaxRetries = 2
  MaxFaults = 2
  LoadFaults = FALSE
CHECK_DEADLOCK FALSE
INVARIANTS PostedOnce LiveIsKnown TransferOfferedWhenOver
PROPERTIES PromiseKept QueueDrains
