SPECIFICATION FairSpec
CONSTANTS
  Writers = {w1, w2}
  Streams = {s1, s2}
  MaxEvents = 3
INVARIANTS TypeOK Dense NoSkip
PROPERTIES ImplementsStream Grows 
CHECK_DEADLOCK FALSE
