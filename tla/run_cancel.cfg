SPECIFICATION Spec
CONSTANTS
  N = 2
  Planner = 1
  Checked = {2}
  Workers = {w1}
  Handlers = {h1}
  Requests = {"cancel"}
  Concurrent = {"cancel"}
  MaxRequests = 1
  MaxRounds = 1
  Faults = {}
PROPERTY TerminalIsFinal
CHECK_DEADLOCK FALSE
