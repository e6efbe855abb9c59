SPECIFICATION FairSpec
CONSTANTS
  Commands = {c1}
  Runtimes = {"rt"}
  MaxProcesses = 2
  MaxCommands = 3
INVARIANTS TypeOK NoOrphan OneAtWork TokenAgrees Spent
PROPERTY Ends
CHECK_DEADLOCK FALSE
