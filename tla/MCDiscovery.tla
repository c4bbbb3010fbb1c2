------------------------------- MODULE MCDiscovery -------------------------------
(***************************************************************************)
(* Instances of Discovery for TLC.                                         *)
(***************************************************************************)
EXTENDS Discovery

CONSTANTS notify, notify2, caller

\* A root that is served alone or with an embedded device, and another root.
MCRoots == {"root", "other"}
MCDescriptions == {{"root"}, {"root", "embedded"}, {"other"}}

OneWorker == {notify}
TwoRemovers == {notify, notify2}
OneCaller == {caller}
NoCaller == {}
TwoLocations == {"here", "there"}
================================================================================
