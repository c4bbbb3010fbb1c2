\* The application stops, restarts and deletes a server with two connections,
\* or the listener of the only connection deletes it.
SPECIFICATION Spec
CONSTANTS
  c1 = c1
  c2 = c2
  Conns <- TwoConns
  ListenerConns = 1
  MaxStarts = 2
INVARIANTS TypeOK ServerOutlivesUse ThreadsOutliveUse
PROPERTIES StopJoinsActions StopReturns ClientsReclaimed
\* The server ends up deleted.
CHECK_DEADLOCK FALSE
