SPECIFICATION Spec
CONSTANTS
  N = 2
  Planner = 1
  Checked = {2}
  Workers = {w1, w2}
  Handlers = {h1, h2}
  Requests = {"cancel", "resume", "approve", "revise", "retry", "skip", "stop", "reject", "clarify", "grant", "deny"}
  Concurrent = {"cancel", "resume", "approve", "revise", "retry", "skip", "stop", "reject", "clarify", "grant", "deny"}
  MaxRequests = 2
  MaxRounds = 1
  Faults = {}
SYMMETRY Symmetry
INVARIANTS TypeOK Driven OneDriver
CHECK_DEADLOCK FALSE
