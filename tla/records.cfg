SPECIFICATION Spec
CONSTANTS
  Clients = {c1, c2}
  Kinds = {"chat", "feedback", "run", "approve", "reject", "delete", "forget", "revise", "accept", "upload"}
  Names = {"notes"}
  MaxRequests = 4
  MaxRuns = 1
SYMMETRY Symmetry
INVARIANTS TypeOK Worked Remembered History
CHECK_DEADLOCK FALSE
