SPECIFICATION Spec
CONSTANTS
  N = 2
  Planner = 1
  Checked = {2}
  Workers = {w1}
  Handlers = {h1}
  Requests = {"cancel", "resume", "approve", "revise", "stop", "grant", "deny"}
  Concurrent = {}
  MaxRequests = 4
  MaxRounds = 1
  Faults = {"store", "timeout", "crash"}
INVARIANT Sequential
PROPERTY TerminalIsFinal
CHECK_DEADLOCK FALSE
