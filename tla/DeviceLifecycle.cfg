\* Root and embedded device with a service, two interfaces, two ports, two starts.
SPECIFICATION Spec
CONSTANTS
  Tree <- RootAndEmbedded
  Services <- ServiceOfEmbedded
  NumInterfaces = 2
  Targets <- ForRoot
  FirstPort = 1
  MaxPort = 2
  MaxStarts = 2
INVARIANTS TypeOK AllLeave Current
PROPERTIES StopSilences CallsReturn BootIdRecovers
