SPECIFICATION DeletionSpec
CONSTANTS
  DeleteRequests = {q1}
  MaxFaults = 0
INVARIANTS NothingOutlivesTheAccount
CHECK_DEADLOCK FALSE
