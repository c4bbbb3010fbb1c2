-------------------------- MODULE ActionControl_proofs --------------------------
(***************************************************************************)
(* Proofs about ActionControl: what the result of a call says of the       *)
(* device, and of which request it is, for any number of calls, arguments  *)
(* and other libraries that answer.                                        *)
(***************************************************************************)
EXTENDS ActionControl, FiniteSetTheorems, TLAPS

--------------------------------------------------------------------------------
(* The inductive invariant, in named parts.                                  *)

Values == {NoValue} \cup UNION {{given[name] : name \in DOMAIN given} : given \in Given}
Args == [Inputs -> Values]
Outs == [Outputs -> Args]
Statuses == {0, INVALID_ACTION, 600}
Replies ==
  {NoReply, BadRequest} \cup {Fault(s) : s \in Statuses} \cup {Response(outs) : outs \in Outs}
    \cup ForeignReplies

ActionTyped ==
  /\ action \in [args : Args, outs : Outs, status : Statuses]
  /\ mine = [args |-> mine.args, outs |-> mine.outs, status |-> mine.status] /\ mine.args \in Args

Workers == [at : {"none", "setting", "listening", "building", "done"}, left : SUBSET Inputs]
WorkerTyped == worker \in [Calls -> Workers]

CallRecords ==
  [at : {"new", "posting", "replied", "returned"}, by : {"none", "strict", "legacy", "other"},
   sent : {<<>>} \cup Given \cup Args, attempt : {0, 1, 2}, reply : Replies, foreign : BOOLEAN]
CallTyped == call \in [Calls -> CallRecords]

HistoryTyped ==
  /\ executed \in [Calls -> {0, 1}] /\ said \in [Calls -> {0, 200, 600, INVALID_ACTION}]
  /\ mixed \in [Calls -> SUBSET Calls]

ResultTyped ==
  /\ result = [c \in Calls |-> result[c]]
  /\ \A c \in Calls : call[c].at # "returned" => result[c] = NoResult

Typed == ActionTyped /\ WorkerTyped /\ CallTyped /\ HistoryTyped /\ ResultTyped

\* Workers that use the action at the same time are known to do so.
Mixing == \A c, d \in Calls : Using(c) /\ Using(d) /\ c # d => d \in mixed[c]

\* The arguments of a request that the action has.
Shared(c) == DOMAIN call[c].sent \cap Inputs

\* A worker calls the listener once; it is there for a call that was made, and it has
\* answered when its caller does not wait any more for it, and not before.
Stage(c) ==
  /\ worker[c].at \in {"none", "setting", "listening"} => executed[c] = 0 /\ said[c] = 0
  /\ worker[c].at = "building" => executed[c] = 1 /\ said[c] # 0
  /\ worker[c].at # "none" => call[c].at # "new"
  /\ call[c].at = "posting" => worker[c].at # "done"
  /\ call[c].foreign => worker[c].at = "none" /\ (call[c].at = "posting" => call[c].attempt = 2)
  /\ call[c].attempt = 2 => worker[c].at \in {"none", "done"} /\ call[c].by = "legacy"
  /\ call[c].at = "new" => call[c] = NoCall
  /\ worker[c].left \subseteq Shared(c)

\* An output that the listener read from what c, or a call served with it, has sent, or one
\* that was cleared for such a call.
Owned(c, out) ==
  \/ \A i \in Shared(c) : out[i] \in Sources(c, i)
  \/ mixed[c] # {} /\ out = Nothing

\* While the worker of c uses the action, the arguments that c sent are in it, or those of
\* a call that is served with it, and the outputs are read from them.  The status is
\* what the listener set for c while c is alone.
Written(c) ==
  /\ Using(c) => \A i \in Shared(c) \ worker[c].left : action.args[i] \in Sources(c, i)
  /\ worker[c].at \in {"listening", "building"} => worker[c].left = {}
  /\ worker[c].at = "building" /\ said[c] = 200 => \A o \in Outputs : Owned(c, action.outs[o])
  /\ mixed[c] = {} =>
       /\ worker[c].at = "listening" => action.status = INVALID_ACTION
       /\ worker[c].at = "building" /\ said[c] # 200 => action.status = said[c]

\* The four answers that the device can give.
Refused(c) == call[c].reply \in {BadRequest, Fault(INVALID_ACTION)} /\ executed[c] = 0 /\ said[c] = 0
Failed(c) ==
  /\ executed[c] = 1 /\ said[c] \notin {0, 200}
  /\ \E s \in Statuses : call[c].reply = Fault(s) /\ (mixed[c] = {} => s = said[c])
Succeeded(c) ==
  /\ executed[c] = 1 /\ said[c] = 200
  /\ \E outs \in Outs : call[c].reply = Response(outs) /\ \A o \in Outputs : Owned(c, outs[o])
Answered(c) == call[c].reply # NoReply /\ ~call[c].foreign
Outcome(c) == Answered(c) => worker[c].at = "done" /\ (Refused(c) \/ Failed(c) \/ Succeeded(c))

\* What the caller makes of an answer.
Told(c) ==
  call[c].at = "returned" /\ ~call[c].foreign =>
    /\ call[c].reply = NoReply =>
         result[c].code \in {"INVALID_ARGUMENTS", "TRANSPORT_ERROR", "false"}
    /\ result[c].code = "INVALID_ARGUMENTS" => worker[c].at = "none"
    /\ call[c].reply = BadRequest => result[c].code \in {"HTTP_ERROR", "false"}
    /\ \A s \in Statuses :
         call[c].reply = Fault(s) => result[c].code \in {"SOAP_FAULT", "false"} /\ result[c].status = s
    /\ \A outs \in Outs :
         call[c].reply = Response(outs) =>
           result[c].code \in {"SUCCESS", "true"} /\ \A o \in Outputs : result[c].outs[o] = outs[o]

Served(c) == Stage(c) /\ Written(c) /\ Outcome(c) /\ Told(c)
ControlInv == Typed /\ Mixing /\ \A c \in Calls : Served(c)

--------------------------------------------------------------------------------
(* The answers of the device, and what the caller reads of them.             *)

\* A response has a field for every output argument, in some order and none twice.
LEMMA OrderIsComplete ==
  LET order == SetToSeq(Outputs)
  IN  /\ Cardinality(Outputs) \in Nat
      /\ order \in [1..Cardinality(Outputs) -> Outputs]
      /\ \A i, j \in 1..Cardinality(Outputs) : order[i] = order[j] => i = j
      /\ \A o \in Outputs : \E i \in 1..Cardinality(Outputs) : order[i] = o
  <1> DEFINE n == Cardinality(Outputs)
             order == SetToSeq(Outputs)
  <1>1. n \in Nat /\ ExistsBijection(1..n, Outputs)
    BY FS_CardinalityType, ActionControlAssumption
  <1>2. \E f \in [1..n -> Outputs] : IsInjective(f)
    BY <1>1 DEF ExistsBijection, Bijection, Injection
  <1>3. order \in [1..n -> Outputs] /\ IsInjective(order)
    BY <1>2 DEF SetToSeq
  <1>4. order \in Surjection(1..n, Outputs)
    <2>1. order \in Injection(1..n, Outputs)
      BY <1>3 DEF Injection
    <2>2. Cardinality(1..n) = n
      BY <1>1, FS_Interval
    <2> QED
      BY <2>1, <2>2, FS_Injection, ActionControlAssumption
  <1> HIDE DEF order, n
  <1>5. \A i, j \in 1..n : order[i] = order[j] => i = j
    BY <1>3 DEF IsInjective
  <1>6. \A o \in Outputs : \E i \in 1..n : order[i] = o
    BY <1>4 DEF Surjection
  <1> QED
    BY <1>1, <1>3, <1>5, <1>6 DEF order, n

\* mupnp_action_result_fromresponse takes such a response for what it is.
LEMMA ResponseIsRead ==
  ASSUME NEW outs
  PROVE  LET fields == Response(outs).fields
         IN  /\ Names(fields) = Outputs /\ Decodable(fields)
             /\ \A o \in Outputs : ValueOf(fields, o) = outs[o]
  <1> DEFINE n == Cardinality(Outputs)
             order == SetToSeq(Outputs)
             fields == Response(outs).fields
  <1>1. /\ n \in Nat /\ order \in [1..n -> Outputs]
        /\ \A i, j \in 1..n : order[i] = order[j] => i = j
        /\ \A o \in Outputs : \E i \in 1..n : order[i] = o
    BY OrderIsComplete
  <1>2. fields = [k \in DOMAIN order |-> Field(order[k], outs[order[k]])]
    BY DEF Response, Reply
  <1> HIDE DEF fields, order
  <1>3. /\ DOMAIN fields = 1..n
        /\ \A k \in 1..n : fields[k].name = order[k] /\ fields[k].value = outs[order[k]]
    BY <1>1, <1>2 DEF Field
  <1>4. Names(fields) = Outputs
    BY <1>1, <1>3 DEF Names
  <1>5. Len(fields) = n
    BY <1>1, <1>2, <1>3
  <1>6. Decodable(fields)
    BY <1>4, <1>5 DEF Decodable
  <1>7. ASSUME NEW o \in Outputs
        PROVE  ValueOf(fields, o) = outs[o]
    <2> DEFINE IsLast(i) == /\ fields[i].name = o
                          /\ \A j \in DOMAIN fields : fields[j].name = o => j <= i
    <2>1. PICK i \in 1..n : order[i] = o
      BY <1>1
    <2>2. IsLast(i) /\ \A j \in DOMAIN fields : IsLast(j) => j = i
      BY <1>1, <1>3, <2>1
    <2>3. (CHOOSE j \in DOMAIN fields : IsLast(j)) = i
      BY <1>3, <2>2
    <2>4. ValueOf(fields, o) = fields[CHOOSE j \in DOMAIN fields : IsLast(j)].value
      BY DEF ValueOf
    <2> HIDE DEF IsLast
    <2> QED
      BY <1>3, <2>1, <2>3, <2>4
  <1> QED
    BY <1>4, <1>6, <1>7 DEF fields

LEMMA NumberOfReply ==
  /\ NoReply.http = 0 /\ BadRequest.http = 400 /\ \A s : Fault(s).http = 500
  /\ \A outs : Response(outs).http = 200
  /\ \A r \in ForeignReplies : r # NoReply
  <1>1. /\ NoReply.http = 0 /\ BadRequest.http = 400 /\ \A s : Fault(s).http = 500
        /\ \A outs : Response(outs).http = 200
    BY DEF NoReply, BadRequest, Fault, Response, Reply
  <1>2. \A r \in ForeignReplies : r # NoReply
    <2> TAKE r \in ForeignReplies
    <2>1. r.http \in 100..599
      BY ActionControlAssumption
    <2> QED
      BY <1>1, <2>1
  <1> QED
    BY <1>1, <1>2

\* The code and what goes with it.
LEMMA ResultOfReply ==
  /\ FromResponse(NoReply).code = "TRANSPORT_ERROR"
  /\ FromResponse(BadRequest).code = "HTTP_ERROR"
  /\ \A s : FromResponse(Fault(s)).code = "SOAP_FAULT" /\ FromResponse(Fault(s)).status = s
  /\ \A outs : /\ FromResponse(Response(outs)).code = "SUCCESS"
               /\ \A o \in Outputs : FromResponse(Response(outs)).outs[o] = outs[o]
  <1>1. FromResponse(NoReply).code = "TRANSPORT_ERROR" /\ FromResponse(BadRequest).code = "HTTP_ERROR"
    BY DEF FromResponse, NoReply, BadRequest, Reply, Successful
  <1>2. ASSUME NEW s
        PROVE  FromResponse(Fault(s)).code = "SOAP_FAULT" /\ FromResponse(Fault(s)).status = s
    BY DEF FromResponse, Fault, Reply, Successful
  <1>3. ASSUME NEW outs
        PROVE  /\ FromResponse(Response(outs)).code = "SUCCESS"
               /\ \A o \in Outputs : FromResponse(Response(outs)).outs[o] = outs[o]
    <2> DEFINE r == Response(outs)
               told == [o \in Names(r.fields) |-> ValueOf(r.fields, o)]
    <2>1. r.http = 200 /\ r.body = "response"
      BY DEF Response, Reply
    <2>2. Names(r.fields) = Outputs /\ Decodable(r.fields) /\ \A o \in Outputs : ValueOf(r.fields, o) = outs[o]
      BY ResponseIsRead
    <2>3. DOMAIN told = Outputs /\ \A o \in Outputs : told[o] = outs[o]
      BY <2>2
    <2> HIDE DEF r
    <2>4. FromResponse(r) = [code |-> "SUCCESS", outs |-> told, status |-> r.code]
      <3>1. Successful(r)
        BY <2>1 DEF Successful
      <3> QED
        BY <2>1, <2>2, <2>3, <3>1 DEF FromResponse
    <2> QED
      BY <2>3, <2>4 DEF r
  <1> QED
    BY <1>1, <1>2, <1>3

--------------------------------------------------------------------------------
(* What a step for one call leaves alone.                                    *)

LEMMA Touches ==
  ASSUME ControlInv, NEW c \in Calls, NEW r \in CallRecords, call' = [call EXCEPT ![c] = r]
  PROVE  CallTyped' /\ call'[c] = r /\ \A d \in Calls \ {c} : call'[d] = call[d]
  BY DEF ControlInv, Typed, CallTyped

\* A call sends what it sent when it was made.
SentStays == \A d \in Calls : call[d].sent = <<>> \/ call'[d].sent = call[d].sent

\* So the sources of an output are not lost.
LEMMA SourcesGrow ==
  ASSUME NEW d \in Calls, mixed[d] \subseteq Calls, mixed[d] \subseteq mixed'[d], SentStays
  PROVE  \A i : Sources(d, i) \subseteq Sources(d, i)'
  <1> SUFFICES ASSUME NEW i, NEW e \in {d} \cup mixed[d], i \in DOMAIN call[e].sent
               PROVE  call[e].sent[i] \in Sources(d, i)'
    BY DEF Sources
  <1>1. e \in Calls /\ e \in {d} \cup mixed'[d]
    OBVIOUS
  <1>2. call[e].sent # <<>>
    OBVIOUS
  <1>3. call'[e].sent = call[e].sent
    BY <1>1, <1>2 DEF SentStays
  <1> QED
    BY <1>1, <1>3 DEF Sources

LEMMA OwnedStays ==
  ASSUME NEW d \in Calls, mixed[d] \subseteq Calls, mixed[d] \subseteq mixed'[d], SentStays,
         call'[d].sent = call[d].sent, NEW out, Owned(d, out)
  PROVE  Owned(d, out)'
  <1>1. \A i : Sources(d, i) \subseteq Sources(d, i)'
    BY SourcesGrow
  <1>2. Shared(d)' = Shared(d)
    BY DEF Shared
  <1> QED
    BY <1>1, <1>2 DEF Owned

LEMMA WrittenStays ==
  ASSUME NEW d \in Calls, Written(d), UNCHANGED <<action, worker[d], said[d], call[d].sent>>,
         mixed[d] \subseteq Calls, mixed[d] \subseteq mixed'[d], SentStays
  PROVE  Written(d)'
  <1>1. /\ action' = action /\ worker'[d] = worker[d] /\ said'[d] = said[d]
        /\ call'[d].sent = call[d].sent
    OBVIOUS
  <1>2. \A i : Sources(d, i) \subseteq Sources(d, i)'
    BY SourcesGrow
  <1>3. Using(d)' = Using(d) /\ Shared(d)' = Shared(d)
    BY <1>1 DEF Using, Shared
  <1>4. \A out : Owned(d, out) => Owned(d, out)'
    BY <1>1, OwnedStays
  <1>5. \A i \in Shared(d)' \ worker'[d].left : Using(d)' => action'.args[i] \in Sources(d, i)'
    BY <1>1, <1>2, <1>3 DEF Written
  <1>6. worker'[d].at = "building" /\ said'[d] = 200 => \A o \in Outputs : Owned(d, action.outs[o])'
    BY <1>1, <1>4 DEF Written
  <1> QED
    BY <1>1, <1>5, <1>6 DEF Written

\* The other calls are served as before, if their worker does not use the action, the
\* action is as it was, or what was written to it is of a call that is served with them.
LEMMA OthersAreServed ==
  ASSUME NEW d \in Calls, Served(d),
         UNCHANGED <<call[d], worker[d], executed[d], said[d], result[d]>>,
         mixed[d] \subseteq Calls, mixed[d] \subseteq mixed'[d], SentStays,
         action' = action \/ ~Using(d) \/ Written(d)'
  PROVE  Served(d)'
  <1>1. /\ call'[d] = call[d] /\ worker'[d] = worker[d] /\ executed'[d] = executed[d]
        /\ said'[d] = said[d] /\ result'[d] = result[d]
    OBVIOUS
  <1>2. Stage(d)'
    BY <1>1 DEF Served, Stage, Shared
  <1>3. Written(d)'
    <2>1. CASE action' = action
      BY <1>1, <2>1, WrittenStays DEF Served
    <2>2. CASE ~Using(d)
      BY <1>1, <2>2 DEF Using, Written
    <2> QED
      BY <2>1, <2>2
  <1>4. Outcome(d)'
    <2>1. Answered(d)' = Answered(d) /\ Refused(d)' = Refused(d)
      BY <1>1 DEF Answered, Refused
    <2>2. Failed(d) => Failed(d)'
      BY <1>1 DEF Failed
    <2>3. \A out : Owned(d, out) => Owned(d, out)'
      BY <1>1, OwnedStays
    <2>4. Succeeded(d) => Succeeded(d)'
      BY <1>1, <2>3 DEF Succeeded
    <2> QED
      BY <1>1, <2>1, <2>2, <2>4 DEF Served, Outcome
  <1>5. Told(d)'
    BY <1>1 DEF Served, Told
  <1> QED
    BY <1>2, <1>3, <1>4, <1>5 DEF Served

\* So a step of a caller keeps the invariant if it keeps what it says of this call.
LEMMA CallerKeeps ==
  ASSUME ControlInv, NEW c \in Calls, UNCHANGED deviceVars,
         NEW r \in CallRecords, call' = [call EXCEPT ![c] = r],
         NEW x, result' = [result EXCEPT ![c] = x], r.at # "returned" => x = NoResult,
         mine' = [args |-> mine'.args, outs |-> mine'.outs, status |-> mine'.status],
         mine'.args \in Args, call[c].sent = <<>> \/ r.sent = call[c].sent, Served(c)'
  PROVE  ControlInv'
  <1>1. UNCHANGED <<action, worker, executed, said, mixed>>
    BY DEF deviceVars
  <1>2. CallTyped' /\ call'[c] = r /\ \A d \in Calls \ {c} : call'[d] = call[d]
    BY Touches
  <1>3. result'[c] = x /\ \A d \in Calls \ {c} : result'[d] = result[d]
    BY DEF ControlInv, Typed, ResultTyped
  <1>4. ResultTyped'
    BY <1>2, <1>3 DEF ControlInv, Typed, ResultTyped
  <1>5. ActionTyped' /\ WorkerTyped' /\ HistoryTyped'
    BY <1>1 DEF ControlInv, Typed, ActionTyped, WorkerTyped, HistoryTyped
  <1>6. Mixing'
    BY <1>1 DEF ControlInv, Mixing, Using
  <1>7. \A d \in Calls : Served(d)'
    <2> TAKE d \in Calls
    <2>1. CASE d # c
      <3>1. SentStays
        BY <1>2 DEF SentStays
      <3>2. mixed[d] \subseteq Calls /\ mixed'[d] = mixed[d] /\ Served(d)
        BY <1>1 DEF ControlInv, Typed, HistoryTyped
      <3>3. UNCHANGED <<call[d], worker[d], executed[d], said[d], result[d]>>
        BY <1>1, <1>2, <1>3, <2>1
      <3> QED
        BY <1>1, <3>1, <3>2, <3>3, OthersAreServed
    <2> QED
      BY <2>1
  <1> QED
    BY <1>2, <1>4, <1>5, <1>6, <1>7 DEF ControlInv, Typed

\* The part of it on what the worker of the call has written, too, if it sends the same.
LEMMA CallerWrites ==
  ASSUME ControlInv, NEW c \in Calls, UNCHANGED deviceVars,
         NEW r \in CallRecords, call' = [call EXCEPT ![c] = r], r.sent = call[c].sent
  PROVE  Written(c)' /\ \A out : Owned(c, out) => Owned(c, out)'
  <1>1. call'[c] = r /\ \A d \in Calls \ {c} : call'[d] = call[d]
    BY Touches
  <1>2. SentStays /\ call'[c].sent = call[c].sent
    BY <1>1 DEF SentStays
  <1>3. UNCHANGED <<action, worker, said, mixed>>
    BY DEF deviceVars
  <1>4. mixed[c] \subseteq Calls /\ Written(c)
    BY DEF ControlInv, Typed, HistoryTyped, Served
  <1> QED
    BY <1>2, <1>3, <1>4, WrittenStays, OwnedStays

LEMMA RecordOfCall ==
  ASSUME ControlInv, NEW c \in Calls
  PROVE  call[c] \in CallRecords
  BY DEF ControlInv, Typed, CallTyped

\* What is known of a call before a step.
LEMMA OfCall ==
  ASSUME ControlInv, NEW c \in Calls
  PROVE  /\ call[c] \in CallRecords /\ worker[c] \in Workers
         /\ Stage(c) /\ Written(c) /\ Outcome(c) /\ Told(c) /\ mixed[c] \subseteq Calls
         /\ call[c].at # "returned" => result[c] = NoResult
         /\ result = [result EXCEPT ![c] = result[c]]
         /\ mine = [args |-> mine.args, outs |-> mine.outs, status |-> mine.status] /\ mine.args \in Args
  BY DEF ControlInv, Typed, CallTyped, WorkerTyped, HistoryTyped, ResultTyped, ActionTyped, Served

--------------------------------------------------------------------------------
(* The steps of the callers.                                                 *)

\* A call that is made has not been answered.
LEMMA PostKeeps ==
  ASSUME ControlInv, NEW c \in Calls, call[c].at = "new", UNCHANGED <<deviceVars, result>>,
         NEW by \in {"strict", "legacy", "other"}, NEW sent \in Given \cup Args, Posts(c, by, sent),
         mine' = [args |-> mine'.args, outs |-> mine'.outs, status |-> mine'.status],
         mine'.args \in Args
  PROVE  ControlInv'
  <1> DEFINE r == [NoCall EXCEPT !.at = "posting", !.by = by, !.sent = sent, !.attempt = 1]
  <1>1. r \in CallRecords /\ r.at = "posting" /\ r.reply = NoReply /\ ~r.foreign /\ r.attempt = 1
    BY DEF NoCall, CallRecords, Replies
  <1>2. call' = [call EXCEPT ![c] = r]
    BY DEF Posts
  <1>3. /\ UNCHANGED <<action, worker, executed, said, mixed>> /\ call'[c] = r
        /\ result' = [result EXCEPT ![c] = result[c]] /\ result[c] = NoResult
    BY <1>1, <1>2, Touches, OfCall DEF deviceVars
  <1> HIDE DEF r
  <1>4. worker[c].at = "none" /\ worker[c].left = {}
    <2>1. call[c] = NoCall /\ Stage(c)
      BY OfCall DEF Stage
    <2>2. DOMAIN call[c].sent = {}
      BY <2>1 DEF NoCall
    <2> QED
      BY <2>1, <2>2 DEF Stage, Shared
  <1>5. Stage(c)'
    BY <1>1, <1>3, <1>4, OfCall DEF Stage
  <1>6. Written(c)' /\ Outcome(c)' /\ Told(c)'
    BY <1>1, <1>3, <1>4 DEF Written, Using, Outcome, Answered, Told
  <1>7. call[c].sent = <<>>
    BY OfCall DEF Stage, NoCall
  <1> QED
    BY <1>1, <1>2, <1>3, <1>5, <1>6, <1>7, CallerKeeps DEF Served

LEMMA PostsStrictKeeps ==
  ASSUME ControlInv, NEW c \in Calls, NEW given \in Given, PostsStrict(c, given)
  PROVE  ControlInv'
  <1>1. call[c].at = "new" /\ mine' = mine /\ UNCHANGED deviceVars
    BY DEF PostsStrict
  <1>2. CASE DOMAIN given = Inputs
    BY <1>1, <1>2, PostKeeps, OfCall DEF PostsStrict
  <1>3. CASE DOMAIN given # Inputs
    <2> DEFINE r == [NoCall EXCEPT !.at = "returned", !.by = "strict"]
               x == [NoResult EXCEPT !.code = "INVALID_ARGUMENTS"]
    <2>1. call[c] = NoCall /\ result[c] = NoResult /\ Stage(c)
      BY <1>1, OfCall DEF Stage
    <2>2. call' = [call EXCEPT ![c] = r] /\ result' = [result EXCEPT ![c] = x]
      BY <1>3, <2>1 DEF PostsStrict
    <2>3. /\ r \in CallRecords /\ r.at = "returned" /\ r.reply = NoReply /\ ~r.foreign /\ r.attempt = 0
          /\ r.sent = <<>> /\ x.code = "INVALID_ARGUMENTS"
      BY DEF NoCall, NoResult, CallRecords, Replies
    <2> HIDE DEF r, x
    <2>4. UNCHANGED <<action, worker, executed, said, mixed>> /\ call'[c] = r /\ result'[c] = x
      BY <1>1, <2>2, <2>3, Touches DEF deviceVars, ControlInv, Typed, ResultTyped
    <2>5. worker[c].at = "none"
      BY <1>1, <2>1 DEF Stage
    <2>6. call[c].sent = <<>>
      BY <2>1 DEF NoCall
    <2>7. Stage(c)'
      BY <2>1, <2>3, <2>4, <2>5, <2>6 DEF Stage, Shared
    <2>8. Written(c)' /\ Outcome(c)'
      BY <2>3, <2>4, <2>5 DEF Written, Using, Outcome, Answered
    <2>9. Told(c)'
      <3>1. NoReply # BadRequest /\ (\A s : NoReply # Fault(s)) /\ (\A o : NoReply # Response(o))
        BY NumberOfReply
      <3> QED
        BY <2>3, <2>4, <2>5, <3>1 DEF Told
    <2> QED
      BY <1>1, <2>2, <2>3, <2>6, <2>7, <2>8, <2>9, CallerKeeps, OfCall DEF Served
  <1> QED
    BY <1>2, <1>3

LEMMA PostsLegacyKeeps ==
  ASSUME ControlInv, NEW c \in Calls, NEW given \in Given, PostsLegacy(c, given)
  PROVE  ControlInv'
  <1> DEFINE args == [i \in Inputs |-> IF i \in DOMAIN given THEN given[i] ELSE mine.args[i]]
  <1>1. /\ call[c].at = "new" /\ UNCHANGED <<result, deviceVars>>
        /\ mine' = [mine EXCEPT !.args = args] /\ Posts(c, "legacy", args)
    BY DEF PostsLegacy
  <1>2. args \in Args
    <2>1. mine.args \in Args
      BY OfCall
    <2>2. \A i \in DOMAIN given : given[i] \in Values
      BY DEF Values
    <2> QED
      BY <2>1, <2>2 DEF Args
  <1> HIDE DEF args
  <1>3. mine' = [args |-> args, outs |-> mine.outs, status |-> mine.status]
    BY <1>1, OfCall
  <1> QED
    BY <1>1, <1>2, <1>3, PostKeeps

LEMMA PostsOtherKeeps ==
  ASSUME ControlInv, NEW c \in Calls, NEW given \in Given, PostsOther(c, given)
  PROVE  ControlInv'
  BY PostKeeps, OfCall DEF PostsOther

\* A reply that is none, or from others, says nothing of the device.
LEMMA ReplyKeeps ==
  ASSUME ControlInv, NEW c \in Calls, call[c].at = "posting", UNCHANGED <<deviceVars, mine, result>>,
         NEW reply \in Replies, NEW foreign \in BOOLEAN, call' = Replied(c, reply, foreign),
         foreign => worker[c].at = "none", ~foreign => reply = NoReply
  PROVE  ControlInv'
  <1> DEFINE r == [call[c] EXCEPT !.at = "replied", !.reply = reply, !.foreign = foreign]
  <1>1. /\ r \in CallRecords /\ r.at = "replied" /\ r.reply = reply /\ r.foreign = foreign
        /\ r.attempt = call[c].attempt /\ r.by = call[c].by /\ r.sent = call[c].sent
    BY RecordOfCall DEF CallRecords
  <1>2. call' = [call EXCEPT ![c] = r]
    BY DEF Replied
  <1> HIDE DEF r
  <1>3. /\ UNCHANGED <<action, worker, executed, said, mixed>> /\ call'[c] = r
        /\ result' = [result EXCEPT ![c] = result[c]] /\ result[c] = NoResult
    BY <1>1, <1>2, Touches, OfCall DEF deviceVars
  <1>4. Stage(c)'
    BY <1>1, <1>3, OfCall DEF Stage, Shared
  <1>5. Written(c)' /\ \A out : Owned(c, out) => Owned(c, out)'
    BY <1>1, <1>2, CallerWrites
  <1>6. Outcome(c)' /\ Told(c)'
    BY <1>1, <1>3 DEF Outcome, Answered, Told
  <1> QED
    BY <1>1, <1>2, <1>3, <1>4, <1>5, <1>6, CallerKeeps, OfCall DEF Served

LEMMA TimesOutKeeps ==
  ASSUME ControlInv, NEW c \in Calls, TimesOut(c)
  PROVE  ControlInv'
  <1>1. NoReply \in Replies
    BY DEF Replies
  <1> QED
    BY <1>1, ReplyKeeps DEF TimesOut

LEMMA AnswersForeignKeeps ==
  ASSUME ControlInv, NEW c \in Calls, NEW reply \in ForeignReplies, AnswersForeign(c, reply)
  PROVE  ControlInv'
  <1>1. reply \in Replies
    BY DEF Replies
  <1> QED
    BY <1>1, ReplyKeeps DEF AnswersForeign

\* Only others answer with the status 405, so that the device does not know of the call.
LEMMA RetriesMPostKeeps ==
  ASSUME ControlInv, NEW c \in Calls, RetriesMPost(c)
  PROVE  ControlInv'
  <1> DEFINE r == [call[c] EXCEPT !.at = "posting", !.attempt = 2]
  <1>1. call[c].at = "replied" /\ call[c].by = "legacy" /\ call[c].reply.http = 405
    BY DEF RetriesMPost, AsksAgain
  <1>2. UNCHANGED <<mine, result, deviceVars>> /\ call' = [call EXCEPT ![c] = r]
    BY DEF RetriesMPost
  <1>3. /\ r \in CallRecords /\ r.at = "posting" /\ r.reply = call[c].reply /\ r.attempt = 2
        /\ r.foreign = call[c].foreign /\ r.by = call[c].by /\ r.sent = call[c].sent
    BY RecordOfCall DEF CallRecords
  <1> HIDE DEF r
  <1>4. call[c].foreign /\ worker[c].at = "none"
    <2>1. call[c].reply # NoReply /\ ~Refused(c) /\ ~Failed(c) /\ ~Succeeded(c)
      BY <1>1, NumberOfReply DEF Refused, Failed, Succeeded
    <2> QED
      BY <2>1, OfCall DEF Outcome, Answered, Stage
  <1>5. /\ UNCHANGED <<action, worker, executed, said, mixed>> /\ call'[c] = r
        /\ result' = [result EXCEPT ![c] = result[c]] /\ result[c] = NoResult
    <2>1. call'[c] = r
      BY <1>2, <1>3, Touches
    <2>2. call[c].at # "returned"
      BY <1>1
    <2>3. result[c] = NoResult /\ result' = [result EXCEPT ![c] = result[c]]
      BY <1>2, <2>2, OfCall
    <2> QED
      BY <1>2, <2>1, <2>3 DEF deviceVars
  <1>6. Stage(c)'
    BY <1>1, <1>3, <1>4, <1>5, OfCall DEF Stage, Shared
  <1>7. Written(c)' /\ Outcome(c)' /\ Told(c)'
    BY <1>3, <1>4, <1>5 DEF Written, Using, Outcome, Answered, Told
  <1>8. mine' = [args |-> mine'.args, outs |-> mine'.outs, status |-> mine'.status] /\ mine'.args \in Args
    BY <1>2, OfCall
  <1> QED
    BY <1>3, <1>5, <1>6, <1>7, <1>2, <1>8, CallerKeeps DEF Served

\* A result that says of an answer of the device what Told asks for.
LEMMA ReturnKeeps ==
  ASSUME ControlInv, NEW c \in Calls, call[c].at = "replied", UNCHANGED deviceVars,
         NEW x, Returns(c, x),
         mine' = [args |-> mine'.args, outs |-> mine'.outs, status |-> mine'.status],
         mine'.args \in Args,
         call[c].reply = NoReply => x.code \in {"TRANSPORT_ERROR", "false"},
         call[c].reply = BadRequest => x.code \in {"HTTP_ERROR", "false"},
         \A s \in Statuses :
           call[c].reply = Fault(s) => x.code \in {"SOAP_FAULT", "false"} /\ x.status = s,
         \A outs \in Outs :
           call[c].reply = Response(outs) =>
             x.code \in {"SUCCESS", "true"} /\ \A o \in Outputs : x.outs[o] = outs[o]
  PROVE  ControlInv'
  <1> DEFINE r == [call[c] EXCEPT !.at = "returned"]
  <1>1. /\ r \in CallRecords /\ r.at = "returned" /\ r.reply = call[c].reply
        /\ r.attempt = call[c].attempt /\ r.foreign = call[c].foreign /\ r.by = call[c].by
        /\ r.sent = call[c].sent
    BY RecordOfCall DEF CallRecords
  <1>2. call' = [call EXCEPT ![c] = r] /\ result' = [result EXCEPT ![c] = x]
    BY DEF Returns
  <1> HIDE DEF r
  <1>3. UNCHANGED <<action, worker, executed, said, mixed>> /\ call'[c] = r /\ result'[c] = x
    BY <1>2, Touches, <1>1 DEF deviceVars, ControlInv, Typed, ResultTyped
  <1>4. Stage(c)'
    BY <1>1, <1>3, OfCall DEF Stage, Shared
  <1>5. Written(c)' /\ \A out : Owned(c, out) => Owned(c, out)'
    BY <1>1, <1>2, CallerWrites
  <1>6. Outcome(c)'
    <2>1. Answered(c)' = Answered(c) /\ Refused(c)' = Refused(c)
      BY <1>1, <1>3 DEF Answered, Refused
    <2>2. (Failed(c) => Failed(c)') /\ (Succeeded(c) => Succeeded(c)')
      BY <1>1, <1>3, <1>5 DEF Failed, Succeeded
    <2> QED
      BY <1>3, <2>1, <2>2, OfCall DEF Outcome
  <1>7. ~call[c].foreign => x.code # "INVALID_ARGUMENTS"
    <2>1. INVALID_ACTION \in Statuses
      BY DEF Statuses
    <2>2. Answered(c) => \/ call[c].reply = BadRequest
                         \/ \E s \in Statuses : call[c].reply = Fault(s)
                         \/ \E outs \in Outs : call[c].reply = Response(outs)
      BY <2>1, OfCall DEF Outcome, Refused, Failed, Succeeded
    <2> QED
      BY <2>2 DEF Answered
  <1>8. Told(c)'
    BY <1>1, <1>3, <1>7 DEF Told
  <1> QED
    BY <1>1, <1>2, <1>4, <1>5, <1>6, <1>8, CallerKeeps DEF Served

LEMMA ReturnsStrictKeeps ==
  ASSUME ControlInv, NEW c \in Calls, ReturnsStrict(c) \/ ReturnsOther(c)
  PROVE  ControlInv'
  <1> DEFINE x == FromResponse(call[c].reply)
  <1>1. /\ call[c].at = "replied" /\ UNCHANGED <<mine, deviceVars>> /\ Returns(c, x)
    BY DEF ReturnsStrict, ReturnsOther
  <1>2. /\ call[c].reply = NoReply => x.code = "TRANSPORT_ERROR"
        /\ call[c].reply = BadRequest => x.code = "HTTP_ERROR"
        /\ \A s : call[c].reply = Fault(s) => x.code = "SOAP_FAULT" /\ x.status = s
        /\ \A outs : call[c].reply = Response(outs) =>
             x.code = "SUCCESS" /\ \A o \in Outputs : x.outs[o] = outs[o]
    BY ResultOfReply
  <1> HIDE DEF x
  <1> QED
    BY <1>1, <1>2, ReturnKeeps, OfCall

\* The record that mupnp_action_post writes to.
LEMMA ActionMoves ==
  ASSUME NEW m, m = [args |-> m.args, outs |-> m.outs, status |-> m.status], NEW s, NEW o
  PROVE  /\ [m EXCEPT !.status = s, !.outs = o] = [args |-> m.args, outs |-> o, status |-> s]
         /\ [m EXCEPT !.status = s] = [args |-> m.args, outs |-> m.outs, status |-> s]
  <1>1. [m EXCEPT !.status = s] = [args |-> m.args, outs |-> m.outs, status |-> s]
    OBVIOUS
  <1>2. ASSUME NEW n, n = [args |-> m.args, outs |-> m.outs, status |-> s]
        PROVE  [n EXCEPT !.outs = o] = [args |-> m.args, outs |-> o, status |-> s]
    BY <1>2
  <1> QED
    BY <1>1, <1>2

LEMMA ReturnsLegacyKeeps ==
  ASSUME ControlInv, NEW c \in Calls, ReturnsLegacy(c)
  PROVE  ControlInv'
  <1> DEFINE reply == call[c].reply
             x == [code |-> IF Successful(reply) /\ reply.body \in {"response", "fault"}
                            THEN "true" ELSE "false",
                   outs |-> mine'.outs, status |-> mine'.status]
  <1>1. call[c].at = "replied" /\ UNCHANGED deviceVars /\ Returns(c, x)
    BY DEF ReturnsLegacy
  <1>2. mine' = IF Successful(reply)
                THEN [args |-> mine.args, outs |-> GetResult(reply), status |-> 0]
                ELSE [args |-> mine.args, outs |-> mine.outs, status |-> GetError(reply)]
    <2>1. mine = [args |-> mine.args, outs |-> mine.outs, status |-> mine.status]
      BY OfCall
    <2>2. CASE Successful(reply)
      <3>1. mine' = [mine EXCEPT !.status = 0, !.outs = GetResult(reply)]
        BY <2>2 DEF ReturnsLegacy
      <3> DEFINE o == GetResult(reply)
      <3>2. mine' = [mine EXCEPT !.status = 0, !.outs = o]
        BY <3>1
      <3> HIDE DEF o, reply
      <3>3. mine' = [args |-> mine.args, outs |-> o, status |-> 0]
        BY <2>1, <3>2, ActionMoves, Zenon
      <3> QED
        BY <2>2, <3>3 DEF o
    <2>3. CASE ~Successful(reply)
      <3>1. mine' = [mine EXCEPT !.status = GetError(reply)]
        BY <2>3 DEF ReturnsLegacy
      <3> HIDE DEF reply
      <3> QED
        BY <2>1, <2>3, <3>1, ActionMoves
    <2> QED
      BY <2>2, <2>3
  <1> HIDE DEF reply
  <1>3. /\ x.code = IF Successful(reply) /\ reply.body \in {"response", "fault"} THEN "true" ELSE "false"
        /\ x.outs = mine'.outs /\ x.status = mine'.status
    OBVIOUS
  <1>4. reply = NoReply \/ reply = BadRequest => x.code = "false"
    BY <1>3, NumberOfReply DEF Successful
  <1>5. ASSUME NEW s \in Statuses, reply = Fault(s)
        PROVE  x.code = "false" /\ x.status = s
    <2>1. ~Successful(reply)
      BY <1>5, NumberOfReply DEF Successful
    <2>2. reply.body = "fault" /\ reply.code = s
      BY <1>5 DEF Fault, Reply
    <2> QED
      BY <1>2, <1>3, <2>1, <2>2 DEF GetError
  <1>6. ASSUME NEW outs \in Outs, reply = Response(outs)
        PROVE  x.code = "true" /\ \A o \in Outputs : x.outs[o] = outs[o]
    <2>1. Successful(reply)
      BY <1>6, NumberOfReply DEF Successful
    <2>2. reply.body = "response"
      BY <1>6 DEF Response, Reply
    <2>3. \A o \in Outputs : GetResult(reply)[o] = outs[o]
      BY <1>6, <2>2, ResponseIsRead DEF GetResult
    <2> QED
      BY <1>2, <2>1, <2>2, <2>3
  <1>7. mine' = [args |-> mine'.args, outs |-> mine'.outs, status |-> mine'.status] /\ mine'.args \in Args
    BY <1>2, OfCall
  <1> HIDE DEF x
  <1>8. /\ \A s \in Statuses : reply = Fault(s) => x.code \in {"SOAP_FAULT", "false"} /\ x.status = s
        /\ \A outs \in Outs : reply = Response(outs) =>
             x.code \in {"SUCCESS", "true"} /\ \A o \in Outputs : x.outs[o] = outs[o]
    BY <1>5, <1>6
  <1> QED
    BY <1>1, <1>4, <1>7, <1>8, ReturnKeeps DEF reply

--------------------------------------------------------------------------------
(* The steps of the workers.                                                 *)

\* The worker goes on, with the action as others do not see it, or as they may see it when
\* they are known to share it.
LEMMA WorkerKeeps ==
  ASSUME ControlInv, NEW c \in Calls, NEW w \in Workers, worker' = [worker EXCEPT ![c] = w],
         UNCHANGED <<mine, result>>, ActionTyped', HistoryTyped', CallTyped', Mixing',
         \A d \in Calls \ {c} :
           call'[d] = call[d] /\ executed'[d] = executed[d] /\ said'[d] = said[d],
         \A d \in Calls : mixed[d] \subseteq mixed'[d],
         call'[c].at = "returned" => call[c].at = "returned",
         call[c].at = "returned" => call'[c] = call[c], call'[c].sent = call[c].sent,
         action' = action \/ \A d \in Calls \ {c} : Using(d) => Written(d)', Served(c)'
  PROVE  ControlInv'
  <1>1. worker'[c] = w /\ \A d \in Calls \ {c} : worker'[d] = worker[d]
    BY DEF ControlInv, Typed, WorkerTyped
  <1>2. WorkerTyped'
    BY DEF ControlInv, Typed, WorkerTyped
  <1>3. ResultTyped'
    BY DEF ControlInv, Typed, ResultTyped
  <1>4. SentStays
    BY DEF SentStays
  <1>5. \A d \in Calls : Served(d)'
    <2> TAKE d \in Calls
    <2>1. CASE d # c
      <3>1. action' = action \/ ~Using(d) \/ Written(d)'
        BY <2>1
      <3>2. UNCHANGED <<call[d], worker[d], executed[d], said[d], result[d]>>
        BY <1>1, <2>1
      <3>3. Served(d) /\ mixed[d] \subseteq Calls /\ mixed[d] \subseteq mixed'[d]
        BY OfCall DEF Served
      <3> QED
        BY <1>4, <3>1, <3>2, <3>3, OthersAreServed
    <2> QED
      BY <2>1
  <1> QED
    BY <1>2, <1>3, <1>5 DEF ControlInv, Typed

\* A worker writes what its call sent to an argument, none to the outputs, or what is in the
\* arguments: nothing that the calls which are served with it may not have.
LEMMA SharedStaysWritten ==
  ASSUME ControlInv, NEW c \in Calls, NEW d \in Calls \ {c}, Using(c), Using(d),
         UNCHANGED <<call, mixed, worker[d], said[d]>>,
         \A i \in Inputs :
           \/ action'.args[i] = action.args[i]
           \/ i \in DOMAIN call[c].sent /\ action'.args[i] = call[c].sent[i],
         \A o \in Outputs : action'.outs[o] \in {action.outs[o], Nothing, action.args}
  PROVE  Written(d)'
  <1>1. c \in mixed[d] /\ Written(d)
    BY OfCall DEF ControlInv, Mixing
  <1>2. \A i : Sources(d, i)' = Sources(d, i)
    BY DEF Sources
  <1>3. Shared(d)' = Shared(d) /\ Shared(d) \subseteq Inputs
    BY DEF Shared
  <1>4. worker'[d] = worker[d] /\ said'[d] = said[d] /\ mixed'[d] # {}
    BY <1>1
  <1>5. \A i \in Inputs : i \in DOMAIN call[c].sent => call[c].sent[i] \in Sources(d, i)
    BY <1>1 DEF Sources
  <1>6. \A i \in Shared(d) \ worker[d].left : action'.args[i] \in Sources(d, i)
    BY <1>1, <1>3, <1>5 DEF Written
  <1>7. ASSUME worker[d].at = "building", said[d] = 200, NEW o \in Outputs
        PROVE  Owned(d, action.outs[o])'
    <2>1. CASE action'.outs[o] = action.outs[o]
      BY <1>1, <1>2, <1>3, <1>4, <1>7, <2>1 DEF Written, Owned
    <2>2. CASE action'.outs[o] = Nothing
      BY <1>4, <2>2 DEF Owned
    <2>3. CASE action'.outs[o] = action.args
      <3>1. \A i \in Shared(d) : action.args[i] \in Sources(d, i)
        BY <1>1, <1>7 DEF Written
      <3> QED
        BY <1>2, <1>3, <2>3, <3>1 DEF Owned
    <2> QED
      BY <2>1, <2>2, <2>3
  <1> QED
    BY <1>1, <1>2, <1>3, <1>4, <1>6, <1>7 DEF Written

\* A worker that has not answered yet, of a call that is as it was.
LEMMA StillServing ==
  ASSUME ControlInv, NEW c \in Calls, Using(c), call'[c] = call[c], result'[c] = result[c]
  PROVE  Outcome(c)' /\ Told(c)'
  <1>1. worker[c].at # "none" /\ worker[c].at # "done"
    BY DEF Using
  <1>2. ~Answered(c)'
    BY <1>1, OfCall DEF Outcome, Answered
  <1>3. Told(c)'
    BY <1>1, OfCall DEF Told
  <1> QED
    BY <1>2, <1>3 DEF Outcome

\* With no new worker at the action there is no new mixing.
LEMMA NothingNewMixes ==
  ASSUME ControlInv, NEW c \in Calls, NEW w \in Workers, worker' = [worker EXCEPT ![c] = w],
         mixed' = mixed, w.at \in {"setting", "listening", "building"} => Using(c)
  PROVE  Mixing'
  <1>1. worker'[c] = w /\ \A d \in Calls \ {c} : worker'[d] = worker[d]
    BY DEF ControlInv, Typed, WorkerTyped
  <1>2. \A d \in Calls : Using(d)' => Using(d)
    BY <1>1 DEF Using
  <1> QED
    BY <1>2 DEF ControlInv, Mixing

\* The answer reaches a caller that waits, and no other.
LEMMA AnswerMoves ==
  ASSUME ControlInv, NEW c \in Calls, NEW reply \in Replies, Answers(c, reply)
  PROVE  /\ CallTyped' /\ \A d \in Calls \ {c} : call'[d] = call[d]
         /\ call[c].at # "posting" => call'[c] = call[c]
         /\ call[c].at = "posting" =>
              /\ call'[c].at = "replied" /\ call'[c].reply = reply /\ ~call'[c].foreign
              /\ call'[c].sent = call[c].sent /\ call'[c].by = call[c].by
              /\ call'[c].attempt = call[c].attempt
  <1> DEFINE r == [call[c] EXCEPT !.at = "replied", !.reply = reply, !.foreign = FALSE]
  <1>1. /\ r \in CallRecords /\ r.at = "replied" /\ r.reply = reply /\ ~r.foreign
        /\ r.attempt = call[c].attempt /\ r.by = call[c].by /\ r.sent = call[c].sent
    BY RecordOfCall DEF CallRecords
  <1>2. CASE call[c].at = "posting"
    <2>1. call' = [call EXCEPT ![c] = r]
      BY <1>2 DEF Answers, Replied
    <2> HIDE DEF r
    <2>2. CallTyped' /\ call'[c] = r /\ \A d \in Calls \ {c} : call'[d] = call[d]
      BY <1>1, <2>1, Touches
    <2> QED
      BY <1>1, <1>2, <2>2
  <1>3. CASE call[c].at # "posting"
    <2>1. call' = call
      BY <1>3 DEF Answers
    <2> QED
      BY <1>3, <2>1 DEF ControlInv, Typed, CallTyped
  <1> QED
    BY <1>2, <1>3

LEMMA ArrivesKeeps ==
  ASSUME ControlInv, NEW c \in Calls, Arrives(c)
  PROVE  ControlInv'
  <1> DEFINE w == [at |-> "setting", left |-> DOMAIN call[c].sent \cap Inputs]
             others == {d \in Calls : Using(d)}
  <1>1. /\ call[c].at = "posting" /\ ~Using(c) /\ (call[c].by = "legacy" => call[c].attempt = 1)
        /\ worker' = [worker EXCEPT ![c] = w] /\ UNCHANGED <<action, executed, said, mine, call, result>>
    BY DEF Arrives, callerVars
  <1>2. mixed' = [d \in Calls |-> mixed[d] \cup (IF d = c THEN others
                                                 ELSE IF d \in others THEN {c} ELSE {})]
    BY DEF Arrives
  <1>3. w \in Workers /\ w.at = "setting" /\ w.left = Shared(c)
    BY DEF Workers, Shared
  <1> HIDE DEF w
  <1>4. worker'[c] = w /\ \A d \in Calls \ {c} : worker'[d] = worker[d]
    BY <1>1 DEF ControlInv, Typed, WorkerTyped
  <1>5. \A d \in Calls : mixed[d] \subseteq mixed'[d] /\ mixed'[d] \in SUBSET Calls
    BY <1>2 DEF ControlInv, Typed, HistoryTyped
  <1>6. Mixing'
    <2> SUFFICES ASSUME NEW d \in Calls, NEW e \in Calls, Using(d)', Using(e)', d # e
                 PROVE  e \in mixed'[d]
      BY DEF Mixing
    <2>1. CASE d = c
      <3>1. e \in others
        BY <1>4, <2>1 DEF Using
      <3> QED
        BY <1>2, <2>1, <3>1
    <2>2. CASE d # c
      <3>1. d \in others
        BY <1>4, <2>2 DEF Using
      <3>2. CASE e = c
        BY <1>2, <2>2, <3>1, <3>2
      <3>3. CASE e # c
        <4>1. Using(d) /\ Using(e)
          BY <1>4, <2>2, <3>3 DEF Using
        <4> QED
          BY <1>2, <4>1 DEF ControlInv, Mixing
      <3> QED
        BY <3>2, <3>3
    <2> QED
      BY <2>1, <2>2
  <1>7. worker[c].at = "none"
    BY <1>1, OfCall DEF Using, Stage, Workers
  <1>8. Stage(c)'
    BY <1>1, <1>3, <1>4, <1>7, OfCall DEF Stage, Shared, CallRecords
  <1>9. Written(c)'
    BY <1>1, <1>3, <1>4, <1>7 DEF Written, Shared
  <1>10. Outcome(c)' /\ Told(c)'
    BY <1>1, <1>7, OfCall DEF Outcome, Answered, Told
  <1>11. ActionTyped' /\ HistoryTyped' /\ CallTyped'
    <2>1. mixed' \in [Calls -> SUBSET Calls]
      BY <1>2, <1>5
    <2> QED
      BY <1>1, <2>1 DEF ControlInv, Typed, ActionTyped, HistoryTyped, CallTyped
  <1> QED
    BY <1>1, <1>3, <1>5, <1>6, <1>8, <1>9, <1>10, <1>11, WorkerKeeps DEF Served

\* A worker that answers is done.
LEMMA DoneKeeps ==
  ASSUME ControlInv, NEW c \in Calls, UNCHANGED <<action, executed, said, mixed, mine, result>>,
         call[c].at = "posting" \/ Using(c), worker' = [worker EXCEPT ![c].at = "done"],
         NEW reply \in Replies, reply # NoReply, Answers(c, reply),
         \/ reply \in {BadRequest, Fault(INVALID_ACTION)} /\ executed[c] = 0 /\ said[c] = 0
         \/ /\ executed[c] = 1 /\ said[c] \notin {0, 200}
            /\ \E s \in Statuses : reply = Fault(s) /\ (mixed[c] = {} => s = said[c])
         \/ /\ executed[c] = 1 /\ said[c] = 200
            /\ \E outs \in Outs : reply = Response(outs) /\ \A o \in Outputs : Owned(c, outs[o])
  PROVE  ControlInv'
  <1> DEFINE w == [worker[c] EXCEPT !.at = "done"]
  <1>1. w \in Workers /\ w.at = "done" /\ w.left = worker[c].left
    BY OfCall DEF Workers
  <1>2. worker' = [worker EXCEPT ![c] = w]
    OBVIOUS
  <1> HIDE DEF w
  <1>3. worker'[c] = w
    BY <1>2 DEF ControlInv, Typed, WorkerTyped
  <1>4. /\ CallTyped' /\ \A d \in Calls \ {c} : call'[d] = call[d]
        /\ call[c].at # "posting" => call'[c] = call[c]
        /\ call[c].at = "posting" =>
             /\ call'[c].at = "replied" /\ call'[c].reply = reply /\ ~call'[c].foreign
             /\ call'[c].sent = call[c].sent /\ call'[c].by = call[c].by
             /\ call'[c].attempt = call[c].attempt
    BY AnswerMoves
  <1>5. Mixing'
    <2>1. w \in Workers /\ (w.at \in {"setting", "listening", "building"} => Using(c))
      BY <1>1
    <2>2. mixed' = mixed
      BY DEF Answers
    <2> QED
      BY <1>2, <2>1, <2>2, NothingNewMixes
  <1>6. ActionTyped' /\ HistoryTyped'
    BY DEF ControlInv, Typed, ActionTyped, HistoryTyped
  <1>7. Written(c)'
    BY <1>1, <1>3 DEF Written, Using
  <1>8. CASE call[c].at = "posting"
    <2>1. Stage(c)'
      BY <1>1, <1>3, <1>4, <1>8, OfCall DEF Stage, Shared
    <2>2. Refused(c)' \/ Failed(c)' \/ Succeeded(c)'
      <3>1. \A out : Owned(c, out) => Owned(c, out)'
        <4>1. SentStays /\ call'[c].sent = call[c].sent /\ mixed' = mixed
          BY <1>4, <1>8 DEF SentStays
        <4> QED
          BY <4>1, OfCall, OwnedStays
      <3> QED
        BY <1>4, <1>8, <3>1 DEF Refused, Failed, Succeeded
    <2>3. Outcome(c)' /\ Told(c)'
      BY <1>1, <1>3, <1>4, <1>8, <2>2 DEF Outcome, Told
    <2> QED
      BY <1>1, <1>2, <1>4, <1>5, <1>6, <1>7, <1>8, <2>1, <2>3, WorkerKeeps DEF Served
  <1>9. CASE call[c].at # "posting"
    <2>1. Using(c) /\ call'[c] = call[c]
      BY <1>4, <1>9
    <2>2. Stage(c)'
      BY <1>1, <1>3, <1>9, <2>1, OfCall DEF Stage, Shared, Using
    <2>3. Outcome(c)' /\ Told(c)'
      BY <2>1, StillServing
    <2> QED
      <3>1. Served(c)'
        BY <1>7, <2>2, <2>3 DEF Served
      <3>2. /\ \A d \in Calls \ {c} :
                call'[d] = call[d] /\ executed'[d] = executed[d] /\ said'[d] = said[d]
            /\ \A d \in Calls : mixed[d] \subseteq mixed'[d]
        BY <1>4
      <3>3. CallTyped' /\ UNCHANGED <<mine, result>> /\ action' = action
        BY <1>4
      <3>4. call'[c].at = "returned" => call[c].at = "returned"
        BY <2>1
      <3> QED
        BY <1>1, <1>2, <1>5, <1>6, <2>1, <3>1, <3>2, <3>3, <3>4, WorkerKeeps
  <1> QED
    BY <1>8, <1>9

LEMMA RefusesKeeps ==
  ASSUME ControlInv, NEW c \in Calls, Refuses(c)
  PROVE  ControlInv'
  <1> DEFINE reply == IF call[c].attempt = 2 THEN BadRequest ELSE Fault(INVALID_ACTION)
  <1>1. /\ UNCHANGED <<action, executed, said, mixed, mine, result>>
        /\ worker' = [worker EXCEPT ![c].at = "done"] /\ Answers(c, reply)
    BY DEF Refuses
  <1>2. worker[c].at \in {"none", "setting"} /\ (call[c].at = "posting" \/ Using(c))
    BY DEF Refuses, Using
  <1>3. reply \in {BadRequest, Fault(INVALID_ACTION)} /\ reply \in Replies /\ reply # NoReply
    <2>1. Fault(INVALID_ACTION) \in Replies /\ BadRequest \in Replies
      BY DEF Replies, Statuses
    <2> QED
      BY <2>1, NumberOfReply
  <1>4. executed[c] = 0 /\ said[c] = 0
    BY <1>2, OfCall DEF Stage
  <1> HIDE DEF reply
  <1> QED
    BY <1>1, <1>2, <1>3, <1>4, DoneKeeps

LEMMA BuildsKeeps ==
  ASSUME ControlInv, NEW c \in Calls, Builds(c)
  PROVE  ControlInv'
  <1>1. /\ UNCHANGED <<action, executed, said, mixed, mine, result>> /\ worker[c].at = "building"
        /\ worker' = [worker EXCEPT ![c].at = "done"] /\ Using(c)
    BY DEF Builds, Using
  <1>2. Answers(c, IF said[c] = 200 THEN Response(action.outs) ELSE Fault(action.status))
    BY DEF Builds
  <1>3. executed[c] = 1 /\ said[c] # 0
    BY <1>1, OfCall DEF Stage
  <1>4. action.outs \in Outs /\ action.status \in Statuses
    BY DEF ControlInv, Typed, ActionTyped
  <1>5. CASE said[c] = 200
    <2>1. Response(action.outs) \in Replies /\ Response(action.outs) # NoReply
      BY <1>4, NumberOfReply DEF Replies
    <2>2. \A o \in Outputs : Owned(c, action.outs[o])
      BY <1>1, <1>5, OfCall DEF Written
    <2> DEFINE reply == Response(action.outs)
    <2>3. Answers(c, reply)
      BY <1>2, <1>5
    <2>4. /\ executed[c] = 1 /\ said[c] = 200
          /\ \E outs \in Outs : reply = Response(outs) /\ \A o \in Outputs : Owned(c, outs[o])
      BY <1>3, <1>4, <1>5, <2>2
    <2>5. reply \in Replies /\ reply # NoReply
      BY <2>1
    <2> HIDE DEF reply
    <2> QED
      BY <1>1, <2>3, <2>4, <2>5, DoneKeeps
  <1>6. CASE said[c] # 200
    <2>1. Fault(action.status) \in Replies /\ Fault(action.status) # NoReply
      BY <1>4, NumberOfReply DEF Replies
    <2>2. mixed[c] = {} => action.status = said[c]
      BY <1>1, <1>6, OfCall DEF Written
    <2> QED
      BY <1>1, <1>2, <1>3, <1>4, <1>6, <2>1, <2>2, DoneKeeps
  <1> QED
    BY <1>5, <1>6

LEMMA SetsArgumentKeeps ==
  ASSUME ControlInv, NEW c \in Calls, NEW i \in Inputs, SetsArgument(c, i)
  PROVE  ControlInv'
  <1> DEFINE w == [worker[c] EXCEPT !.left = @ \ {i}]
  <1>1. /\ worker[c].at = "setting" /\ i \in worker[c].left /\ Using(c)
        /\ UNCHANGED <<executed, said, mixed, mine, call, result>>
    BY DEF SetsArgument, callerVars, Using
  <1>2. worker' = [worker EXCEPT ![c] = w] /\ action' = [action EXCEPT !.args[i] = call[c].sent[i]]
    BY DEF SetsArgument
  <1>3. w \in Workers /\ w.at = "setting" /\ w.left = worker[c].left \ {i}
    BY <1>1, OfCall DEF Workers
  <1> HIDE DEF w
  <1>4. worker'[c] = w
    BY <1>2 DEF ControlInv, Typed, WorkerTyped
  <1>5. call[c].sent[i] \in Values
    <2>1. i \in DOMAIN call[c].sent
      BY <1>1, OfCall DEF Stage, Shared
    <2>2. CASE call[c].sent \in Given
      BY <2>1, <2>2 DEF Values
    <2>3. CASE call[c].sent \in Args
      BY <2>3 DEF Args
    <2>4. CASE call[c].sent = <<>>
      BY <2>1, <2>4
    <2> QED
      BY <2>2, <2>3, <2>4, OfCall DEF CallRecords
  <1>6. /\ action'.args \in Args /\ action'.args[i] = call[c].sent[i]
        /\ \A j \in Inputs \ {i} : action'.args[j] = action.args[j]
        /\ action' \in [args : Args, outs : Outs, status : Statuses]
    <2>1. action \in [args : Args, outs : Outs, status : Statuses]
      BY DEF ControlInv, Typed, ActionTyped
    <2>2. action' = [action EXCEPT !.args = [action.args EXCEPT ![i] = call[c].sent[i]]]
      BY <1>2
    <2>3. [action.args EXCEPT ![i] = call[c].sent[i]] \in Args
      BY <1>5, <2>1 DEF Args
    <2> QED
      BY <2>1, <2>2, <2>3 DEF Args
  <1>7. Stage(c)'
    BY <1>1, <1>3, <1>4, OfCall DEF Stage, Shared
  <1>8. Written(c)'
    <2>1. ASSUME NEW j \in Shared(c) \ w.left
          PROVE  action'.args[j] \in Sources(c, j)
      <3>1. CASE j = i
        <4>1. call[c].sent[i] \in Sources(c, i)
          BY <2>1, <3>1 DEF Sources, Shared
        <4> QED
          BY <1>6, <3>1, <4>1
      <3>2. CASE j # i
        <4>1. j \in Shared(c) \ worker[c].left /\ j \in Inputs \ {i}
          BY <1>3, <2>1, <3>2 DEF Shared
        <4> QED
          BY <1>1, <1>6, <4>1, OfCall DEF Written
      <3> QED
        BY <3>1, <3>2
    <2>2. Shared(c)' = Shared(c) /\ \A j : Sources(c, j)' = Sources(c, j)
      BY <1>1 DEF Shared, Sources
    <2> QED
      BY <1>3, <1>4, <2>1, <2>2 DEF Written
  <1>9. Mixing' /\ Outcome(c)' /\ Told(c)'
    BY <1>1, <1>2, <1>3, NothingNewMixes, StillServing
  <1>10. ActionTyped' /\ HistoryTyped' /\ CallTyped'
    BY <1>1, <1>6 DEF ControlInv, Typed, ActionTyped, HistoryTyped, CallTyped
  <1>11. \A d \in Calls \ {c} : Using(d) => Written(d)'
    <2> TAKE d \in Calls \ {c}
    <2> HAVE Using(d)
    <2>1. i \in DOMAIN call[c].sent /\ action'.outs = action.outs
      BY <1>1, <1>2, OfCall DEF Stage, Shared, ControlInv, Typed, ActionTyped
    <2>2. \A o \in Outputs : action'.outs[o] \in {action.outs[o], Nothing, action.args}
      BY <2>1
    <2>3. \A j \in Inputs :
            \/ action'.args[j] = action.args[j]
            \/ j \in DOMAIN call[c].sent /\ action'.args[j] = call[c].sent[j]
      BY <1>6, <2>1
    <2>4. UNCHANGED <<call, mixed, worker[d], said[d]>>
      BY <1>1, <1>2 DEF ControlInv, Typed, WorkerTyped
    <2> QED
      BY <1>1, <2>2, <2>3, <2>4, SharedStaysWritten
  <1> QED
    BY <1>1, <1>2, <1>3, <1>7, <1>8, <1>9, <1>10, <1>11, WorkerKeeps DEF Served

LEMMA ClearsKeeps ==
  ASSUME ControlInv, NEW c \in Calls, Clears(c)
  PROVE  ControlInv'
  <1> DEFINE w == [worker[c] EXCEPT !.at = "listening"]
  <1>1. /\ worker[c].at = "setting" /\ worker[c].left = {} /\ Using(c)
        /\ UNCHANGED <<executed, said, mixed, mine, call, result>>
    BY DEF Clears, callerVars, Using
  <1>2. worker' = [worker EXCEPT ![c] = w] /\ action' = [action EXCEPT !.status = INVALID_ACTION, !.outs = Empty]
    BY DEF Clears
  <1>3. w \in Workers /\ w.at = "listening" /\ w.left = {}
    BY <1>1, OfCall DEF Workers
  <1> HIDE DEF w
  <1>4. worker'[c] = w
    BY <1>2 DEF ControlInv, Typed, WorkerTyped
  <1>5. /\ action'.args = action.args /\ action'.status = INVALID_ACTION
        /\ action' \in [args : Args, outs : Outs, status : Statuses]
    <2>1. action \in [args : Args, outs : Outs, status : Statuses]
      BY DEF ControlInv, Typed, ActionTyped
    <2>2. Empty \in Outs /\ INVALID_ACTION \in Statuses
      BY DEF Empty, Nothing, Outs, Args, Values, Statuses
    <2> QED
      BY <1>2, <2>1, <2>2
  <1>6. Stage(c)'
    BY <1>1, <1>3, <1>4, OfCall DEF Stage, Shared
  <1>7. Written(c)'
    <2>1. Shared(c)' = Shared(c) /\ \A j : Sources(c, j)' = Sources(c, j)
      BY <1>1 DEF Shared, Sources
    <2> QED
      BY <1>1, <1>3, <1>4, <1>5, <2>1, OfCall DEF Written
  <1>8. Mixing' /\ Outcome(c)' /\ Told(c)'
    BY <1>1, <1>2, <1>3, NothingNewMixes, StillServing
  <1>9. ActionTyped' /\ HistoryTyped' /\ CallTyped'
    BY <1>1, <1>5 DEF ControlInv, Typed, ActionTyped, HistoryTyped, CallTyped
  <1>10. \A d \in Calls \ {c} : Using(d) => Written(d)'
    <2> TAKE d \in Calls \ {c}
    <2> HAVE Using(d)
    <2>1. action'.outs = Empty
      BY <1>2 DEF ControlInv, Typed, ActionTyped
    <2>2. \A o \in Outputs : action'.outs[o] \in {action.outs[o], Nothing, action.args}
      BY <2>1 DEF Empty
    <2>3. UNCHANGED <<call, mixed, worker[d], said[d]>>
      BY <1>1, <1>2 DEF ControlInv, Typed, WorkerTyped
    <2> QED
      BY <1>1, <1>5, <2>2, <2>3, SharedStaysWritten
  <1> QED
    BY <1>1, <1>2, <1>3, <1>6, <1>7, <1>8, <1>9, <1>10, WorkerKeeps DEF Served

LEMMA ListensKeeps ==
  ASSUME ControlInv, NEW c \in Calls, Listens(c)
  PROVE  ControlInv'
  <1> DEFINE w == [worker[c] EXCEPT !.at = "building"]
  <1>1. /\ worker[c].at = "listening" /\ Using(c)
        /\ UNCHANGED <<mixed, mine, call, result>>
    BY DEF Listens, callerVars, Using
  <1>2. worker' = [worker EXCEPT ![c] = w]
    BY DEF Listens
  <1>3. PICK status \in {200, 600, INVALID_ACTION} :
          /\ said' = [said EXCEPT ![c] = status]
          /\ action' = IF status = 200 THEN [action EXCEPT !.outs = [o \in Outputs |-> action.args]]
                       ELSE [action EXCEPT !.status = IF status = 600 THEN status ELSE @]
    BY DEF Listens
  <1>4. executed[c] = 0 /\ executed' = [executed EXCEPT ![c] = 1]
    <2>1. executed[c] = 0
      BY <1>1, OfCall DEF Stage
    <2>2. executed' = [executed EXCEPT ![c] = executed[c] + 1]
      BY DEF Listens
    <2> QED
      BY <2>1, <2>2
  <1>5. w \in Workers /\ w.at = "building" /\ w.left = worker[c].left
    BY OfCall DEF Workers
  <1> HIDE DEF w
  <1>6. worker'[c] = w /\ call'[c] = call[c] /\ mixed'[c] = mixed[c]
    BY <1>1, <1>2 DEF ControlInv, Typed, WorkerTyped
  <1>7. /\ HistoryTyped' /\ executed'[c] = 1 /\ said'[c] = status /\ status # 0
        /\ \A d \in Calls \ {c} : executed'[d] = executed[d] /\ said'[d] = said[d]
    BY <1>1, <1>3, <1>4 DEF ControlInv, Typed, HistoryTyped, INVALID_ACTION
  <1>8. action \in [args : Args, outs : Outs, status : Statuses]
    BY DEF ControlInv, Typed, ActionTyped
  <1>9. /\ action' \in [args : Args, outs : Outs, status : Statuses]
        /\ status = 200 => \A o \in Outputs : action'.outs[o] = action.args
        /\ status # 200 => action'.outs = action.outs
        /\ status # 200 /\ action.status = INVALID_ACTION => action'.status = status
        /\ action'.args = action.args
    <2>1. CASE status = 200
      <3> DEFINE outs == [o \in Outputs |-> action.args]
      <3>1. outs \in Outs /\ \A o \in Outputs : outs[o] = action.args
        BY <1>8 DEF Outs
      <3>2. action' = [action EXCEPT !.outs = outs]
        BY <1>3, <2>1
      <3> HIDE DEF outs
      <3> QED
        BY <1>8, <2>1, <3>1, <3>2
    <2>2. CASE status # 200
      <3>1. action' = [action EXCEPT !.status = IF status = 600 THEN 600 ELSE action.status]
        BY <1>3, <2>2
      <3>2. status = 600 \/ status = INVALID_ACTION
        BY <2>2
      <3> QED
        BY <1>8, <2>2, <3>1, <3>2 DEF Statuses
    <2> QED
      BY <2>1, <2>2
  <1>10. Stage(c)'
    BY <1>1, <1>5, <1>6, <1>7, OfCall DEF Stage, Shared
  <1>11. Written(c)'
    <2>1. worker[c].left = {} /\ \A i \in Shared(c) : action.args[i] \in Sources(c, i)
      BY <1>1, OfCall DEF Written
    <2>2. mixed[c] = {} => action.status = INVALID_ACTION
      BY <1>1, OfCall DEF Written
    <2>3. Shared(c)' = Shared(c) /\ \A j : Sources(c, j)' = Sources(c, j)
      BY <1>1 DEF Shared, Sources
    <2>4. \A i \in Shared(c)' : action'.args[i] \in Sources(c, i)'
      BY <1>9, <2>1, <2>3
    <2>5. status = 200 => \A o \in Outputs : Owned(c, action.outs[o])'
      BY <1>9, <2>1, <2>3 DEF Owned
    <2> QED
      BY <1>5, <1>6, <1>7, <1>9, <2>1, <2>2, <2>4, <2>5 DEF Written
  <1>12. Mixing' /\ Outcome(c)' /\ Told(c)'
    BY <1>1, <1>2, <1>5, NothingNewMixes, StillServing
  <1>13. ActionTyped' /\ CallTyped'
    BY <1>1, <1>9 DEF ControlInv, Typed, ActionTyped, CallTyped
  <1>14. \A d \in Calls \ {c} : Using(d) => Written(d)'
    <2> TAKE d \in Calls \ {c}
    <2> HAVE Using(d)
    <2>1. \A o \in Outputs : action'.outs[o] \in {action.outs[o], Nothing, action.args}
      BY <1>9
    <2>2. UNCHANGED <<call, mixed, worker[d], said[d]>>
      BY <1>1, <1>2, <1>7 DEF ControlInv, Typed, WorkerTyped
    <2> QED
      BY <1>1, <1>9, <2>1, <2>2, SharedStaysWritten
  <1> QED
    BY <1>1, <1>2, <1>5, <1>7, <1>10, <1>11, <1>12, <1>13, <1>14, WorkerKeeps DEF Served

--------------------------------------------------------------------------------
(* The theorems.                                                             *)

LEMMA InitHolds == Init => ControlInv
  <1> SUFFICES ASSUME Init PROVE ControlInv
    OBVIOUS
  <1>1. Nothing \in Args
    BY DEF Nothing, Args, Values
  <1>2. ActionTyped
    <2>1. Empty \in Outs /\ 0 \in Statuses
      BY <1>1 DEF Empty, Outs, Statuses
    <2> QED
      BY <1>1, <2>1 DEF Init, ActionTyped, NoAction
  <1>3. WorkerTyped
    BY DEF Init, WorkerTyped, NoWorker, Workers
  <1>4. CallTyped
    <2>1. NoReply \in Replies
      BY DEF Replies
    <2> QED
      BY <2>1 DEF Init, CallTyped, NoCall, CallRecords
  <1>5. HistoryTyped /\ ResultTyped
    BY DEF Init, HistoryTyped, ResultTyped
  <1>6. Mixing
    BY DEF Init, Mixing, Using, NoWorker
  <1>7. ASSUME NEW c \in Calls
        PROVE  Served(c)
    <2>1. /\ call[c] = NoCall /\ worker[c] = NoWorker /\ executed[c] = 0 /\ said[c] = 0
      BY DEF Init
    <2>2. Stage(c)
      BY <2>1 DEF Stage, Shared, NoCall, NoWorker
    <2>3. Written(c) /\ Outcome(c) /\ Told(c)
      BY <2>1 DEF Written, Using, Outcome, Answered, Told, NoCall, NoWorker
    <2> QED
      BY <2>2, <2>3 DEF Served
  <1> QED
    BY <1>2, <1>3, <1>4, <1>5, <1>6, <1>7 DEF ControlInv, Typed

LEMMA StutterKeeps == ControlInv /\ UNCHANGED vars => ControlInv'
  <1> SUFFICES ASSUME ControlInv, UNCHANGED vars PROVE ControlInv'
    OBVIOUS
  <1>1. UNCHANGED <<action, worker, executed, said, mixed, mine, call, result>>
    BY DEF vars, deviceVars, callerVars
  <1>2. Typed'
    BY <1>1 DEF ControlInv, Typed, ActionTyped, WorkerTyped, CallTyped, HistoryTyped, ResultTyped
  <1>3. Mixing'
    BY <1>1 DEF ControlInv, Mixing, Using
  <1>4. \A c \in Calls : Served(c)'
    <2> TAKE c \in Calls
    <2>1. SentStays
      BY <1>1 DEF SentStays
    <2>2. Served(c) /\ mixed[c] \subseteq Calls
      BY DEF ControlInv, Typed, HistoryTyped
    <2> QED
      BY <1>1, <2>1, <2>2, OthersAreServed
  <1> QED
    BY <1>2, <1>3, <1>4 DEF ControlInv

LEMMA StepKeeps == ControlInv /\ [Next \/ (Done /\ UNCHANGED vars)]_vars => ControlInv'
  <1> SUFFICES ASSUME ControlInv, Next PROVE ControlInv'
    BY StutterKeeps
  <1>1. PICK c \in Calls :
          \/ \E given \in Given : PostsStrict(c, given) \/ PostsLegacy(c, given) \/ PostsOther(c, given)
          \/ Arrives(c) \/ Refuses(c) \/ TimesOut(c)
          \/ \E reply \in ForeignReplies : AnswersForeign(c, reply)
          \/ CallerSteps(c) \/ WorkerSteps(c)
    BY DEF Next
  <1>2. CASE \E given \in Given : PostsStrict(c, given) \/ PostsLegacy(c, given) \/ PostsOther(c, given)
    BY <1>2, PostsStrictKeeps, PostsLegacyKeeps, PostsOtherKeeps
  <1>3. CASE Arrives(c) \/ Refuses(c) \/ TimesOut(c)
    BY <1>3, ArrivesKeeps, RefusesKeeps, TimesOutKeeps
  <1>4. CASE \E reply \in ForeignReplies : AnswersForeign(c, reply)
    BY <1>4, AnswersForeignKeeps
  <1>5. CASE CallerSteps(c)
    BY <1>5, RetriesMPostKeeps, ReturnsStrictKeeps, ReturnsLegacyKeeps DEF CallerSteps
  <1>6. CASE WorkerSteps(c)
    BY <1>6, SetsArgumentKeeps, ClearsKeeps, ListensKeeps, BuildsKeeps DEF WorkerSteps
  <1> QED
    BY <1>1, <1>2, <1>3, <1>4, <1>5, <1>6

\* Whatever callers, workers and others that answer do in whatever order, the parts of
\* the invariant hold between their steps.
THEOREM ControlIsInvariant == Spec => []ControlInv
  BY InitHolds, StepKeeps, PTL DEF Spec

\* What is known of a call of which the result came from the device.
LEMMA ReturnedSays ==
  ASSUME ControlInv, NEW c \in Calls, call[c].at = "returned", ~call[c].foreign
  PROVE  \/ /\ call[c].reply = NoReply
            /\ result[c].code \in {"INVALID_ARGUMENTS", "TRANSPORT_ERROR", "false"}
            /\ result[c].code = "INVALID_ARGUMENTS" => executed[c] = 0
         \/ /\ result[c].code \in {"HTTP_ERROR", "SOAP_FAULT", "false"}
            /\ executed[c] = 0 /\ said[c] = 0
         \/ /\ result[c].code \in {"SOAP_FAULT", "false"} /\ said[c] # 200
            /\ mixed[c] = {} => result[c].status = said[c]
         \/ /\ result[c].code \in {"SUCCESS", "true"} /\ said[c] = 200
            /\ \A o \in Outputs : Owned(c, result[c].outs[o])
  <1>1. Stage(c) /\ Outcome(c) /\ Told(c)
    BY OfCall
  <1>2. CASE call[c].reply = NoReply
    BY <1>1, <1>2 DEF Told, Stage
  <1>3. CASE call[c].reply # NoReply /\ Refused(c)
    <2>1. INVALID_ACTION \in Statuses
      BY DEF Statuses
    <2>2. result[c].code \in {"HTTP_ERROR", "SOAP_FAULT", "false"}
      BY <1>1, <1>3, <2>1 DEF Told, Refused
    <2> QED
      BY <1>3, <2>2 DEF Refused
  <1>4. CASE Failed(c)
    <2>1. PICK s \in Statuses : call[c].reply = Fault(s) /\ (mixed[c] = {} => s = said[c])
      BY <1>4 DEF Failed
    <2>2. result[c].code \in {"SOAP_FAULT", "false"} /\ result[c].status = s
      BY <1>1, <2>1 DEF Told
    <2> QED
      BY <1>4, <2>1, <2>2 DEF Failed
  <1>5. CASE Succeeded(c)
    <2>1. PICK outs \in Outs :
            call[c].reply = Response(outs) /\ \A o \in Outputs : Owned(c, outs[o])
      BY <1>5 DEF Succeeded
    <2>2. result[c].code \in {"SUCCESS", "true"} /\ \A o \in Outputs : result[c].outs[o] = outs[o]
      BY <1>1, <2>1 DEF Told
    <2> QED
      BY <1>5, <2>1, <2>2 DEF Succeeded
  <1> QED
    BY <1>1, <1>2, <1>3, <1>4, <1>5 DEF Outcome, Answered

\* mupnp_action_postwitharguments and mupnp_action_post tell what the listener of the
\* device did: it runs once at most, and success, fault and refusal are told apart.
THEOREM ResultsTellTheTruth == Spec => []TellsWhatHappened
  <1>1. ControlInv => TellsWhatHappened
    <2> SUFFICES ASSUME ControlInv, NEW c \in Calls
                 PROVE  /\ executed[c] <= 1
                        /\ call[c].at = "returned" /\ ~call[c].foreign =>
                             /\ result[c].code \in {"INVALID_ARGUMENTS", "HTTP_ERROR"} => executed[c] = 0
                             /\ result[c].code \in {"SUCCESS", "true"} => said[c] = 200
                             /\ result[c].code = "SOAP_FAULT" => said[c] # 200
                             /\ result[c].code \notin {"PARSE_ERROR", "INCOMPLETE"}
      BY DEF TellsWhatHappened
    <2>1. executed[c] <= 1
      <3>1. executed[c] \in {0, 1}
        BY DEF ControlInv, Typed, HistoryTyped
      <3> QED
        BY <3>1
    <2>2. ASSUME call[c].at = "returned", ~call[c].foreign
          PROVE  /\ result[c].code \in {"INVALID_ARGUMENTS", "HTTP_ERROR"} => executed[c] = 0
                 /\ result[c].code \in {"SUCCESS", "true"} => said[c] = 200
                 /\ result[c].code = "SOAP_FAULT" => said[c] # 200
                 /\ result[c].code \notin {"PARSE_ERROR", "INCOMPLETE"}
      BY <2>2, ReturnedSays
    <2> QED
      BY <2>1, <2>2
  <1> QED
    BY <1>1, ControlIsInvariant, PTL

\* Although all requests share the one mUpnpAction of the service and nothing keeps their
\* workers apart, a response has only what its own request sent, or another that was served
\* at the same time, and a request that was served alone gets its own error.
THEOREM AnswersAreOwn == Spec => []AnswersOwn
  <1>1. ControlInv => AnswersOwn
    <2> SUFFICES ASSUME ControlInv, NEW c \in Calls, call[c].at = "returned",
                        call[c].reply # NoReply, ~call[c].foreign
                 PROVE  /\ result[c].code \in {"SUCCESS", "true"} =>
                             \A o \in Outputs :
                               \/ \A i \in DOMAIN call[c].sent \cap Inputs :
                                    result[c].outs[o][i] \in Sources(c, i)
                               \/ mixed[c] # {} /\ result[c].outs[o] = Nothing
                        /\ executed[c] = 1 /\ said[c] # 200 /\ mixed[c] = {} =>
                             result[c].status = said[c]
      BY DEF AnswersOwn
    <2> QED
      BY ReturnedSays DEF Owned, Shared
  <1> QED
    BY <1>1, ControlIsInvariant, PTL
================================================================================
