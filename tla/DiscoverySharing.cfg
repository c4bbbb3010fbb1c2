\* A device says byebye and alive again while its description is being fetched.
SPECIFICATION Spec
CONSTANTS
  notify = notify
  notify2 = notify2
  caller = caller
  Workers <- OneWorker
  Callers <- OneCaller
  Removers <- OneWorker
  Roots <- MCRoots
  Descriptions <- MCDescriptions
  Locations <- TwoLocations
  MaxFetches = 3
  MaxObjects = 2
  MaxEpoch = 3
PROPERTIES AnnouncementsCount
\* The bounds end every behaviour.
CHECK_DEADLOCK FALSE
