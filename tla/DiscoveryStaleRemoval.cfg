\* Two SSDP threads, one per interface, receive the byebye of one device.
SPECIFICATION Spec
CONSTANTS
  notify = notify
  notify2 = notify2
  caller = caller
  Workers <- TwoRemovers
  Callers <- NoCaller
  Removers <- TwoRemovers
  Roots <- MCRoots
  Descriptions <- MCDescriptions
  Locations <- TwoLocations
  MaxFetches = 2
  MaxObjects = 2
  MaxEpoch = 4
INVARIANTS DevicesOutliveUse
\* The bounds end every behaviour.
CHECK_DEADLOCK FALSE
