\* A listener deletes its server while another connection is served.
SPECIFICATION Spec
CONSTANTS
  c1 = c1
  c2 = c2
  Conns <- TwoConns
  ListenerConns = 2
  MaxStarts = 1
INVARIANTS ServerOutlivesUse
\* The server ends up deleted.
CHECK_DEADLOCK FALSE
