\* A worker that receives NOTIFY and a direct caller; two roots; stops and restarts.
SPECIFICATION Spec
CONSTANTS
  notify = notify
  notify2 = notify2
  caller = caller
  Workers <- OneWorker
  Callers <- OneCaller
  Removers <- OneWorker
  Roots <- MCRoots
  Descriptions <- MCDescriptions
  Locations <- TwoLocations
  MaxFetches = 3
  MaxObjects = 2
  MaxEpoch = 3
INVARIANTS TypeOK UniqueRoots DevicesOutliveUse StoppedIsQuiet
PROPERTIES ByebyeInvalidates NewestStays StopReturns
\* The bounds end every behaviour.
CHECK_DEADLOCK FALSE
