\* Two root devices, each with an embedded device that has a service, and two max-ages.
SPECIFICATION Spec
CONSTANTS
  Leases <- TwoLeases
  Grants <- LongGrants
  Embedded = 1
  Services <- OneOfChild
  MaxObjects = 2
  MaxTime = 2
INVARIANTS TypeOK SleepCovers
PROPERTIES LostToAnotherOnly LeavesIfWoken RenewedIfWoken StopReturns
\* The application stops the control point in the end.
CHECK_DEADLOCK FALSE
