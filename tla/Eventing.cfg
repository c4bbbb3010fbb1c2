\* One setter, two variables, two subscriptions; the ratio of the maxima is the real one.
SPECIFICATION Spec
CONSTANTS
  setter = setter
  Setters <- OneSetter
  Variables <- TwoVariables
  NotifyCountMax = 3
  EventMaxSeq = 1
  MaxSets = 1
  MaxSids = 2
INVARIANTS TypeOK InSync
PROPERTIES NoFalseAlarm NotificationsEnd CallsEnd MovesForward
\* The bounds end every behaviour.
CHECK_DEADLOCK FALSE
