SPECIFICATION FairSpec
CONSTANTS
  N = 1
  Planner = 1
  Checked = {1}
  Workers = {w1, w2}
  Handlers = {h1, h2}
  Requests = {"cancel", "resume"}
  Concurrent = {"cancel", "resume"}
  MaxRequests = 2
  MaxRounds = 1
  Faults = {}
PROPERTY Settles
CHECK_DEADLOCK FALSE
