\* A restart overlaps another stop of the same worker.
SPECIFICATION Spec
CONSTANTS
  s1 = s1
  s2 = s2
  Owner = owner
  Stoppers <- MCStoppers
  MaxRuns = 3
  ConcurrentStart = TRUE
PROPERTIES StopReturns
\* The object ends up freed.
CHECK_DEADLOCK FALSE
