---------------------------- MODULE MCActionControl -----------------------------
(***************************************************************************)
(* The instance of ActionControl for TLC.                                  *)
(***************************************************************************)
EXTENDS ActionControl

\* All inputs, with either value; one of them; one too many.
SomeGiven ==
  {[in1 |-> 1, in2 |-> 1], [in1 |-> 2, in2 |-> 2], [in2 |-> 2],
   [in1 |-> 1, in2 |-> 2, unknown |-> 1]}

\* 405, an error page, an empty body, a response without output, one with a field that
\* the action does not have, one with a field twice, and a fault with HTTP 200.
OtherReplies ==
  {Reply(405, "none", <<>>, 0), Reply(500, "other", <<>>, 0), Reply(200, "none", <<>>, 0),
   Reply(200, "response", <<>>, 0),
   Reply(200, "response", <<Field("out", Nothing), Field("unknown", Nothing)>>, 0),
   Reply(200, "response", <<Field("out", Nothing), Field("out", Nothing)>>, 0),
   Reply(200, "fault", <<>>, 600)}
================================================================================
