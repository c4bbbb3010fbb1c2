------------------------------- MODULE MCEventing -------------------------------
(***************************************************************************)
(* The instance of Eventing for TLC.                                       *)
(***************************************************************************)
EXTENDS Eventing

CONSTANT setter

OneSetter == {setter}
TwoVariables == {"a", "b"}
================================================================================
