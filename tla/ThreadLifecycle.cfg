\* A worker with bounded waits, or one that sleeps on a condition; one owner,
\* two threads that may stop it, three runs.
SPECIFICATION Spec
CONSTANTS
  s1 = s1
  s2 = s2
  Owner = owner
  Stoppers <- MCStoppers
  MaxRuns = 3
  ConcurrentStart = FALSE
INVARIANTS TypeOK NoUseAfterFree OneRunAtATime
PROPERTIES StopIsAJoin Reclaimed StopReturns
\* The object ends up freed.
CHECK_DEADLOCK FALSE
