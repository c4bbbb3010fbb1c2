------------------------------ MODULE EventChannel ------------------------------
(***************************************************************************)
(* What eventing promises, without subscriptions or messages: a control    *)
(* point knows of each state variable a value that the device has had, and *)
(* only ever goes on to a later one.                                       *)
(***************************************************************************)
EXTENDS Naturals

CONSTANT Variables

VARIABLES
  value,  \* value[v]: how many times the device has set v
  known   \* known[v]: which of these values the control point has

Init == value = [v \in Variables |-> 0] /\ known = value

\* The device changes one variable.
Change(v) == value' = [value EXCEPT ![v] = @ + 1] /\ UNCHANGED known

\* The control point learns of some variables what they are or have been since.
Learn(some) ==
  /\ known' \in [Variables -> Nat]
  /\ \A v \in Variables : IF v \in some THEN known'[v] \in known[v]..value[v]
                          ELSE known'[v] = known[v]
  /\ UNCHANGED value

Next == \E v \in Variables : Change(v) \/ \E some \in SUBSET Variables : Learn(some)

Spec == Init /\ [][Next]_<<value, known>>
================================================================================
