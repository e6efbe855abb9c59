SPECIFICATION Spec
CONSTANTS
  Runs = {"r1", "r2"}
  Consoles = {"console"}
  Operators = {"http"}
  Tools = {"read", "write", "bash", "critical", "cli"}
  MaxCalls = 2
  Faults = {"store", "timeout", "crash"}
INVARIANTS TypeOK AtMostOnce Exclusive Covered
PROPERTY DecisionStands
CHECK_DEADLOCK FALSE
