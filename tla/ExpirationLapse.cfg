\* Two root devices without embedded ones, and nobody to wake the handler.
SPECIFICATION Spec
CONSTANTS
  Leases <- TwoLeases
  Grants <- LongGrants
  Embedded = 0
  Services <- NoServices
  MaxObjects = 2
  MaxTime = 3
PROPERTIES ExpiredLeave
\* The application stops the control point in the end.
CHECK_DEADLOCK FALSE
