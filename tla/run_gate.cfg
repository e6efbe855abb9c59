SPECIFICATION Spec
CONSTANTS
  N = 2
  Planner = 1
  Checked = {1}
  Workers = {w1}
  Handlers = {h1}
  Requests = {"grant", "resume"}
  Concurrent = {}
  MaxRequests = 2
  MaxRounds = 1
  Faults = {}
PROPERTY PlanGate
CHECK_DEADLOCK FALSE
