SPECIFICATION Spec
CONSTANTS
  N = 3
  Planner = 2
  Checked = {3}
  Workers = {w1}
  Handlers = {h1}
  Requests = {"cancel", "resume", "approve", "revise", "stop", "grant", "deny"}
  Concurrent = {}
  MaxRequests = 5
  MaxRounds = 1
  Faults = {}
INVARIANTS Sequential LedgerAgrees SandboxInUse SandboxReleased Reviewable
PROPERTIES PlanGate ImplementsLifecycle
CHECK_DEADLOCK FALSE
