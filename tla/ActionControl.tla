------------------------------ MODULE ActionControl ------------------------------
(***************************************************************************)
(* Calls of one action over SOAP: mupnp_action_postwitharguments and       *)
(* mupnp_action_post (control/action_ctrl.c, action_response.c,            *)
(* soap/soap_request.c), callers of other libraries, and the HTTP workers  *)
(* of the device, which all use the one mUpnpAction of its service         *)
(* (device_http_server.c, control/action_ctrl.c, argument_list.c).         *)
(*                                                                         *)
(* The output of the action is all that its listener read, so that it      *)
(* tells whose arguments they were.  Names are equal or different: that    *)
(* mupnp_argumentlist_get ignores case is left out.  A worker goes on when *)
(* its caller has given up.  mupnp_action_post is called with the lock of  *)
(* the control point, as controlpoint.h:312 asks for.  A state variable    *)
(* that is queried is used as an action without inputs is.                 *)
(***************************************************************************)
EXTENDS Integers, Sequences, FiniteSets, SequencesExt

CONSTANTS
  Calls,          \* calls, each made once
  Inputs,         \* the input arguments of the action
  Outputs,        \* and its output arguments
  Given,          \* arguments that callers give, each a function from names to values
  ForeignReplies  \* what others than this library answer, see Reply

NoValue == 0

ASSUME ActionControlAssumption ==
  /\ Inputs \cap Outputs = {} /\ IsFiniteSet(Outputs)
  /\ \A given \in Given : \A name \in DOMAIN given : given[name] # NoValue
  /\ \A r \in ForeignReplies : r.http \in 100..599

Nothing == [i \in Inputs |-> NoValue]
Empty == [o \in Outputs |-> Nothing]
INVALID_ACTION == 401

\* The HTTP status, 0 without a complete response, what the SOAP body has, with the
\* elements of a response or the error code of a fault.
Reply(http, body, fields, code) == [http |-> http, body |-> body, fields |-> fields, code |-> code]
NoReply == Reply(0, "none", <<>>, 0)
Field(name, value) == [name |-> name, value |-> value]
BadRequest == Reply(400, "none", <<>>, 0)
Fault(code) == Reply(500, "fault", <<>>, code)
Response(outs) ==
  Reply(200, "response", [k \in DOMAIN SetToSeq(Outputs) |->
                            Field(SetToSeq(Outputs)[k], outs[SetToSeq(Outputs)[k]])], 0)

VARIABLES
  action,    \* the device's action: the values of its arguments and its status code
  worker,    \* worker[c]: the HTTP worker of call c and the arguments it has to set
  mine,      \* the same action at the control point
  call,      \* call[c]: where it is, its function, request, attempts and reply
  result,    \* result[c]: what it returned
  executed,  \* history: executed[c]: how often the listener was called for c
  said,      \* history: said[c]: the status it ended with, 0 before and 200 if it was true
  mixed      \* history: mixed[c]: the calls of which a worker used the action at the same time

deviceVars == <<action, worker, executed, said, mixed>>
callerVars == <<mine, call, result>>
vars == <<deviceVars, callerVars>>

NoAction == [args |-> Nothing, outs |-> Empty, status |-> 0]
NoWorker == [at |-> "none", left |-> {}]
NoCall == [at |-> "new", by |-> "none", sent |-> <<>>, attempt |-> 0, reply |-> NoReply,
           foreign |-> FALSE]
NoResult == [code |-> "none", outs |-> <<>>, status |-> 0]

Init ==
  /\ action = NoAction /\ mine = NoAction
  /\ worker = [c \in Calls |-> NoWorker]
  /\ call = [c \in Calls |-> NoCall]
  /\ result = [c \in Calls |-> NoResult]
  /\ executed = [c \in Calls |-> 0] /\ said = [c \in Calls |-> 0]
  /\ mixed = [c \in Calls |-> {}]

--------------------------------------------------------------------------------
(* The callers.                                                              *)

Posts(c, by, sent) ==
  call' = [call EXCEPT ![c] = [NoCall EXCEPT !.at = "posting", !.by = by, !.sent = sent, !.attempt = 1]]

\* mupnp_action_postwitharguments: with arguments that are not the declared inputs
\* nothing is sent, else the arguments of an action object of its own.
PostsStrict(c, given) ==
  /\ call[c].at = "new"
  /\ IF DOMAIN given = Inputs
     THEN Posts(c, "strict", given) /\ UNCHANGED result
     ELSE /\ call' = [call EXCEPT ![c].at = "returned", ![c].by = "strict"]
          /\ result' = [result EXCEPT ![c].code = "INVALID_ARGUMENTS"]
  /\ UNCHANGED <<mine, deviceVars>>

\* The application sets some of the inputs and calls mupnp_action_post, which sends all.
PostsLegacy(c, given) ==
  /\ call[c].at = "new"
  /\ \A d \in Calls : call[d].by = "legacy" => call[d].at = "returned"
  /\ LET args == [i \in Inputs |-> IF i \in DOMAIN given THEN given[i] ELSE mine.args[i]]
     IN  mine' = [mine EXCEPT !.args = args] /\ Posts(c, "legacy", args)
  /\ UNCHANGED <<result, deviceVars>>

\* Other libraries may leave out arguments, or send what the action does not have.
PostsOther(c, given) ==
  /\ call[c].at = "new"
  /\ Posts(c, "other", given)
  /\ UNCHANGED <<mine, result, deviceVars>>

Replied(c, reply, foreign) ==
  [call EXCEPT ![c].at = "replied", ![c].reply = reply, ![c].foreign = foreign]

\* The connection fails, breaks, or the answer takes too long.
TimesOutLegacy(c) ==
  /\ call[c].at = "posting" /\ call[c].by # "strict"
  /\ call' = Replied(c, NoReply, FALSE)
  /\ UNCHANGED <<mine, result, deviceVars>>

TimesOut(c) ==
  /\ call[c].at = "posting"
  /\ call' = Replied(c, NoReply, FALSE)
  /\ UNCHANGED <<mine, result, deviceVars>>

\* Not the device answers but a proxy, or a device of another library.
AnswersForeign(c, reply) ==
  /\ call[c].at = "posting" /\ worker[c].at = "none"
  /\ call' = Replied(c, reply, TRUE)
  /\ UNCHANGED <<mine, result, deviceVars>>

\* mupnp_soap_request_post: on 405 the request is sent again as M-POST.
AsksAgain(c) == call[c].by = "legacy" /\ call[c].reply.http = 405 /\ call[c].attempt = 1

RetriesMPost(c) ==
  /\ call[c].at = "replied" /\ AsksAgain(c)
  /\ call' = [call EXCEPT ![c].at = "posting", ![c].attempt = 2]
  /\ UNCHANGED <<mine, result, deviceVars>>

Successful(reply) == reply.http \in 200..299

\* mupnp_action_result_setoutputs and mupnp_action_result_fromresponse.
Names(fields) == {fields[i].name : i \in DOMAIN fields}
ValueOf(fields, name) ==
  LET last == CHOOSE i \in DOMAIN fields :
                /\ fields[i].name = name
                /\ \A j \in DOMAIN fields : fields[j].name = name => j <= i
  IN  fields[last].value
Decodable(fields) == Names(fields) \subseteq Outputs /\ Cardinality(Names(fields)) = Len(fields)

FromResponse(reply) ==
  LET decoded == Successful(reply) /\ reply.body = "response" /\ Decodable(reply.fields)
      outs == IF decoded THEN [o \in Names(reply.fields) |-> ValueOf(reply.fields, o)] ELSE <<>>
      code == CASE reply.http = 0 -> "TRANSPORT_ERROR"
                [] reply.http # 0 /\ reply.body = "fault" -> "SOAP_FAULT"
                [] reply.http # 0 /\ reply.body # "fault" /\ ~Successful(reply) -> "HTTP_ERROR"
                [] decoded -> IF DOMAIN outs = Outputs THEN "SUCCESS" ELSE "INCOMPLETE"
                [] OTHER -> "PARSE_ERROR"
  IN  [code |-> code, outs |-> outs, status |-> reply.code]

Returns(c, r) ==
  /\ result' = [result EXCEPT ![c] = r]
  /\ call' = [call EXCEPT ![c].at = "returned"]

\* What a caller might do about a lost answer: send the request once more.
ReturnsOrResends(c) ==
  /\ call[c].at = "replied" /\ call[c].by = "strict"
  /\ IF call[c].reply = NoReply /\ call[c].attempt = 1
     THEN call' = [call EXCEPT ![c].at = "posting", ![c].attempt = 2] /\ UNCHANGED result
     ELSE Returns(c, FromResponse(call[c].reply))
  /\ UNCHANGED <<mine, deviceVars>>

ReturnsStrict(c) ==
  /\ call[c].at = "replied" /\ call[c].by = "strict"
  /\ Returns(c, FromResponse(call[c].reply))
  /\ UNCHANGED <<mine, deviceVars>>

\* mupnp_control_action_response_getresult and _geterror.
GetResult(reply) ==
  [o \in Outputs |-> IF reply.body = "response" /\ o \in Names(reply.fields)
                     THEN ValueOf(reply.fields, o) ELSE mine.outs[o]]
GetError(reply) == IF reply.body = "fault" THEN reply.code ELSE mine.status

\* mupnp_action_post: a response sets the outputs that it has, and a fault the status,
\* after which the application reads them.  What the reply does not have stays.
ReturnsLegacy(c) ==
  /\ call[c].at = "replied" /\ call[c].by = "legacy" /\ ~AsksAgain(c)
  /\ mine' = IF Successful(call[c].reply)
             THEN [mine EXCEPT !.status = 0, !.outs = GetResult(call[c].reply)]
             ELSE [mine EXCEPT !.status = GetError(call[c].reply)]
  /\ Returns(c, [code |-> IF Successful(call[c].reply) /\ call[c].reply.body \in {"response", "fault"}
                          THEN "true" ELSE "false",
                 outs |-> mine'.outs, status |-> mine'.status])
  /\ UNCHANGED deviceVars

ReturnsOther(c) ==
  /\ call[c].at = "replied" /\ call[c].by = "other"
  /\ Returns(c, FromResponse(call[c].reply))
  /\ UNCHANGED <<mine, deviceVars>>

--------------------------------------------------------------------------------
(* The HTTP workers of the device.                                           *)

Using(c) == worker[c].at \in {"setting", "listening", "building"}

\* The answer is of use while the caller waits for it.
Answers(c, reply) ==
  call' = IF call[c].at = "posting" THEN Replied(c, reply, FALSE) ELSE call

\* mupnp_device_controlrequestrecieved, for an action of that name.
Arrives(c) ==
  /\ call[c].at = "posting" /\ ~Using(c)
  /\ call[c].by = "legacy" => call[c].attempt = 1
  /\ worker' = [worker EXCEPT ![c] = [at |-> "setting", left |-> DOMAIN call[c].sent \cap Inputs]]
  /\ LET others == {d \in Calls : Using(d)}
     IN  mixed' = [d \in Calls |-> mixed[d] \cup (IF d = c THEN others
                                                 ELSE IF d \in others THEN {c} ELSE {})]
  /\ UNCHANGED <<action, executed, said, callerVars>>

\* There is no action of that name, or no listener: a fault.  Or the request is an
\* M-POST: a bad request.
Refuses(c) ==
  /\ \/ call[c].at = "posting" /\ worker[c].at = "none"
     \/ worker[c].at = "setting" /\ worker[c].left = {}
  /\ worker' = [worker EXCEPT ![c].at = "done"]
  /\ Answers(c, IF call[c].attempt = 2 THEN BadRequest ELSE Fault(INVALID_ACTION))
  /\ UNCHANGED <<action, executed, said, mixed, mine, result>>

\* mupnp_argumentlist_set, one argument after the other; those the request does not
\* have are left as they are.
KeepsArgument(c, i) ==
  /\ worker[c].at = "setting" /\ i \in worker[c].left
  /\ action' = [action EXCEPT !.args[i] = IF @ = NoValue THEN call[c].sent[i] ELSE @]
  /\ worker' = [worker EXCEPT ![c].left = @ \ {i}]
  /\ UNCHANGED <<executed, said, mixed, callerVars>>

SetsArgument(c, i) ==
  /\ worker[c].at = "setting" /\ i \in worker[c].left
  /\ action' = [action EXCEPT !.args[i] = call[c].sent[i]]
  /\ worker' = [worker EXCEPT ![c].left = @ \ {i}]
  /\ UNCHANGED <<executed, said, mixed, callerVars>>

\* mupnp_action_performlistner.
Clears(c) ==
  /\ worker[c].at = "setting" /\ worker[c].left = {}
  /\ action' = [action EXCEPT !.status = INVALID_ACTION, !.outs = Empty]
  /\ worker' = [worker EXCEPT ![c].at = "listening"]
  /\ UNCHANGED <<executed, said, mixed, callerVars>>

\* The listener of the application sets the outputs, or returns false and may have set
\* a status of its own.
Listens(c) ==
  /\ worker[c].at = "listening"
  /\ \E status \in {200, 600, INVALID_ACTION} :
       /\ said' = [said EXCEPT ![c] = status]
       /\ action' = IF status = 200 THEN [action EXCEPT !.outs = [o \in Outputs |-> action.args]]
                    ELSE [action EXCEPT !.status = IF status = 600 THEN status ELSE @]
  /\ executed' = [executed EXCEPT ![c] = @ + 1]
  /\ worker' = [worker EXCEPT ![c].at = "building"]
  /\ UNCHANGED <<mixed, callerVars>>

Builds(c) ==
  /\ worker[c].at = "building"
  /\ worker' = [worker EXCEPT ![c].at = "done"]
  /\ Answers(c, IF said[c] = 200 THEN Response(action.outs) ELSE Fault(action.status))
  /\ UNCHANGED <<action, executed, said, mixed, mine, result>>

--------------------------------------------------------------------------------
CallerSteps(c) ==
  RetriesMPost(c) \/ ReturnsStrict(c) \/ ReturnsLegacy(c) \/ ReturnsOther(c)

WorkerSteps(c) ==
  (\E i \in Inputs : SetsArgument(c, i)) \/ Clears(c) \/ Listens(c) \/ Builds(c)

Next ==
  \E c \in Calls :
    \/ \E given \in Given : PostsStrict(c, given) \/ PostsLegacy(c, given) \/ PostsOther(c, given)
    \/ Arrives(c) \/ Refuses(c) \/ TimesOut(c)
    \/ \E reply \in ForeignReplies : AnswersForeign(c, reply)
    \/ CallerSteps(c) \/ WorkerSteps(c)

Done == \A c \in Calls : call[c].at = "returned" /\ ~Using(c)
Spec ==
  /\ Init /\ [][Next \/ (Done /\ UNCHANGED vars)]_vars
  /\ \A c \in Calls : WF_vars(CallerSteps(c)) /\ WF_vars(TimesOut(c)) /\ WF_vars(WorkerSteps(c))

--------------------------------------------------------------------------------
\* What c sent for an input, and the calls that were served at the same time.
Sources(c, i) ==
  {call[d].sent[i] : d \in {e \in {c} \cup mixed[c] : i \in DOMAIN call[e].sent}}

\* The outputs of a successful call, which the listener read from the arguments that all
\* requests share, are of what this request sent or one that was served at the same time,
\* never of an earlier one; or they are none, cleared for another request before they were
\* sent.  Alone at the action, a call gets the error that was set for it.  An input that a
\* request leaves out is not spoken of: the listener finds the value of an earlier one.
AnswersOwn ==
  \A c \in Calls :
    call[c].at = "returned" /\ call[c].reply # NoReply /\ ~call[c].foreign =>
      /\ result[c].code \in {"SUCCESS", "true"} =>
           \A o \in Outputs :
             \/ \A i \in DOMAIN call[c].sent \cap Inputs : result[c].outs[o][i] \in Sources(c, i)
             \/ mixed[c] # {} /\ result[c].outs[o] = Nothing
      /\ executed[c] = 1 /\ said[c] # 200 /\ mixed[c] = {} => result[c].status = said[c]

\* A result tells what happened at the device: the action is executed at most once for a
\* call, as control.h:780 promises, not at all when the arguments were invalid or
\* an HTTP error came, successfully when the call succeeded, without success when it
\* has a fault; and what is incomplete or cannot be parsed is not from this library.
TellsWhatHappened ==
  \A c \in Calls :
    /\ executed[c] <= 1
    /\ call[c].at = "returned" /\ ~call[c].foreign =>
         /\ result[c].code \in {"INVALID_ARGUMENTS", "HTTP_ERROR"} => executed[c] = 0
         /\ result[c].code \in {"SUCCESS", "true"} => said[c] = 200
         /\ result[c].code = "SOAP_FAULT" => said[c] # 200
         /\ result[c].code \notin {"PARSE_ERROR", "INCOMPLETE"}

\* Every call returns, also when its answer is lost or late.
CallsReturn == \A c \in Calls : call[c].at # "new" ~> call[c].at = "returned"
================================================================================
