--------------------------- MODULE MCThreadLifecycle ---------------------------
(***************************************************************************)
(* Instances of ThreadLifecycle for TLC.                                   *)
(***************************************************************************)
EXTENDS ThreadLifecycle, TLC

CONSTANTS s1, s2
MCStoppers == {s1, s2}
MCSymmetry == Permutations(MCStoppers)
================================================================================
