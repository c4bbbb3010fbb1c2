------------------------- MODULE DeviceLifecycle_proofs -------------------------
(***************************************************************************)
(* Proofs about DeviceLifecycle: what has been announced is taken back by  *)
(* a stop that no announcement and no answer overlaps, what a running      *)
(* device has announced is current, and after a stop nothing is sent.      *)
(***************************************************************************)
EXTENDS DeviceLifecycle, TLAPS

--------------------------------------------------------------------------------
(* The inductive invariant, in named parts.                                  *)

Places == {"idle", "byebye", "advertiser", "ssdp", "joining",
           "interfaces", "open", "opened", "boot", "announce"}
Says == [port : 0..MaxPort, boot : 0..(MaxStarts + 1)]

\* What the calls of the application keep.
CallTyped ==
  /\ at \in Places /\ restarting \in BOOLEAN /\ started \in BOOLEAN /\ overlapped \in BOOLEAN
  /\ starts \in 0..MaxStarts /\ todo \subseteq Notices

\* What the device and its HTTP servers keep.
DeviceTyped ==
  /\ port \in [Devices -> FirstPort..MaxPort]
  /\ boot \in [Devices -> 1..(MaxStarts + 1)]
  /\ http \in [port : {0} \cup FirstPort..MaxPort, on : SUBSET Interfaces]

AdvertiserTyped ==
  advertiser \in [at : {"none", "sleeping", "announcing"}, runnable : BOOLEAN, todo : SUBSET Notices]

Own(i) == {k \in Notices : k.on = i}
Threads == [at : {"none", "receiving", "answering"}, todo : SUBSET Notices,
            reply : SUBSET [to : Notices, says : Says]]
OwnOnly(i, thread) ==
  /\ thread.todo \subseteq Own(i)
  /\ \A r \in thread.reply : r.to \in Own(i)
  /\ thread.reply # {} => thread.at = "answering"
ResponderTyped ==
  /\ listening \in BOOLEAN
  /\ responder \in [Interfaces -> Threads]
  /\ \A i \in Interfaces : OwnOnly(i, responder[i])

HeardTyped == heard \in [Notices -> Says]

\* Between the end of a stop and the start of the SSDP servers nobody answers, and the
\* advertiser is there only from the end of a start to its join in the next stop.
Resting == at \in {"interfaces", "open", "opened"} \/ (at = "idle" /\ ~started)
Attended ==
  /\ started => at = "idle"
  /\ advertiser.at # "none" => started \/ at \in {"byebye", "advertiser"}
  /\ Resting => \A i \in Interfaces : responder[i].at = "none"

\* The history variable tells of every announcement and answer during a stop.
Undisturbed == Stopping /\ ~overlapped => ~Announcing /\ ~Answering

\* The byebyes that have been sent stay the last word until the next announcement.
Left == at \in {"advertiser", "ssdp", "joining", "interfaces"} \/ (at = "idle" /\ ~started)
TakenBack ==
  ~overlapped =>
    /\ at = "byebye" => \A k \in Notices \ todo : heard[k] = Silent
    /\ Left => \A k \in Notices : heard[k] = Silent

\* The servers that are open are those of the port that the device announces.
Served == at \in {"opened", "boot", "announce"} \/ started => http.port = port[Root]

\* An answer that waits to be sent has the port that the root device has, which it only
\* gives up in a start, when no SSDP thread is there.
Composed == \A i \in Interfaces : \A r \in responder[i].reply : r.says.port = port[Root]

\* What Current says of one notice.
Tells(k) ==
  /\ heard[k] # Silent
  /\ k.on \in http.on =>
       \/ heard[k].port = http.port
       \/ k.service = NoService /\ port[k.of] # port[Root]

Announced ==
  /\ at = "announce" => \A k \in Notices \ todo : Tells(k)
  /\ started => \A k \in Notices : Tells(k)

Typed == CallTyped /\ DeviceTyped /\ AdvertiserTyped /\ ResponderTyped /\ HeardTyped
LifecycleInv == Typed /\ Attended /\ Undisturbed /\ TakenBack /\ Served /\ Composed /\ Announced

--------------------------------------------------------------------------------
LEMMA Bounds ==
  /\ NumInterfaces \in Nat /\ MaxStarts \in Nat /\ MaxPort \in Nat
  /\ FirstPort \in Nat /\ 1 <= FirstPort /\ FirstPort <= MaxPort
  BY DeviceLifecycleAssumption

LEMMA RootIsDevice == Root \in Devices
  BY DeviceLifecycleAssumption DEF Root, Devices

\* A notice is of a device of the tree, on one of the interfaces.
LEMMA NoticeIsOf ==
  ASSUME NEW k \in Notices
  PROVE  k.of \in Devices /\ k.on \in Interfaces
  <1>1. PICK i \in Interfaces, d \in Devices :
          k \in {Notice(i, d, s) : s \in {NoService} \cup Services[d]}
    BY DEF Notices
  <1> QED
    BY <1>1 DEF Notice

\* What is sent is of what there is left, and a search is answered on its own interface.
LEMMA BurstIsLeft == ASSUME NEW left PROVE Burst(left) \subseteq left
  BY DEF Burst

LEMMA AnswersAreOwn == ASSUME NEW i, NEW t PROVE Answers(i, t) \subseteq Own(i)
  BY DEF Answers, Own

\* What is sent is a port of the device and a BOOTID.
LEMMA SaysSomething ==
  ASSUME DeviceTyped, NEW k \in Notices
  PROVE  Alive(k) \in Says /\ Answer(k) \in Says /\ Silent \in Says
  <1>1. Root \in Devices /\ k.of \in Devices
    BY RootIsDevice, NoticeIsOf
  <1>2. \A d \in Devices : port[d] \in 0..MaxPort /\ boot[d] \in 0..(MaxStarts + 1)
    <2> TAKE d \in Devices
    <2>1. port[d] \in FirstPort..MaxPort /\ boot[d] \in 1..(MaxStarts + 1)
      BY DEF DeviceTyped
    <2> QED
      BY <2>1, Bounds
  <1>3. 0 \in 0..MaxPort /\ 0 \in 0..(MaxStarts + 1)
    BY Bounds
  <1> QED
    BY <1>1, <1>2, <1>3 DEF Alive, ServiceAlive, NoBoot, Answer, Silent, Says

--------------------------------------------------------------------------------
(* Every step keeps the types.                                               *)

LEMMA CallTypedStep ==
  ASSUME CallTyped, Next
  PROVE  CallTyped'
  <1>1. CASE CallsStart \/ CallsStop
    <2>1. overlapped' \in BOOLEAN /\ restarting' \in BOOLEAN
      BY <1>1 DEF CallsStart, CallsStop, Calls, Announcing, Answering
    <2>2. starts' \in 0..MaxStarts
      <3>1. starts' = starts \/ (starts < MaxStarts /\ starts' = starts + 1)
        BY <1>1 DEF CallsStart, CallsStop
      <3> QED
        BY <3>1, Bounds DEF CallTyped
    <2> QED
      BY <1>1, <2>1, <2>2 DEF CallsStart, CallsStop, Calls, CallTyped, Places, Farewells
  <1>2. CASE StopSteps
    BY <1>2, BurstIsLeft DEF StopSteps, SendsByebye, StopsAdvertiser, ClosesHttp, StopsSsdp, StopEnds,
      CallTyped, Places
  <1>3. CASE FindsInterfaces \/ TriesNextPort \/ OpensHttp \/ StartsSsdp
    BY <1>3 DEF FindsInterfaces, TriesNextPort, OpensHttp, StartsSsdp, callVars, CallTyped, Places
  <1>4. CASE UpdatesBootId \/ Announces \/ StartsAdvertiser
    BY <1>4, BurstIsLeft DEF UpdatesBootId, Announces, StartsAdvertiser, CallTyped, Places
  <1>5. CASE AdvertiserSteps
    BY <1>5 DEF AdvertiserSteps, Wakes, Advertises, EndsRound, callVars, CallTyped
  <1>6. CASE \E i \in Interfaces : ResponderSteps(i) \/ FailsToReceive(i) \/ \E t \in Targets : Receives(i, t)
    BY <1>6 DEF ResponderSteps, Composes, Responds, EndsAnswer, EndsResponder, FailsToReceive, Receives,
      callVars, CallTyped
  <1> QED
    BY <1>1, <1>2, <1>3, <1>4, <1>5, <1>6 DEF Next, StartSteps

LEMMA DeviceTypedStep ==
  ASSUME CallTyped, DeviceTyped, Next
  PROVE  DeviceTyped'
  <1>1. CASE UNCHANGED deviceVars
    BY <1>1 DEF deviceVars, DeviceTyped
  <1>2. CASE ClosesHttp
    BY <1>2 DEF ClosesHttp, Closed, DeviceTyped
  <1>3. CASE TriesNextPort
    <2>1. port[Root] \in FirstPort..MaxPort
      BY RootIsDevice DEF DeviceTyped
    <2>2. port[Root] + 1 \in FirstPort..MaxPort
      BY <1>3, <2>1, Bounds DEF TriesNextPort
    <2> QED
      BY <1>3, <2>2 DEF TriesNextPort, DeviceTyped
  <1>4. CASE OpensHttp
    BY <1>4, RootIsDevice DEF OpensHttp, DeviceTyped
  <1>5. CASE UpdatesBootId
    <2>1. starts + 1 \in 1..(MaxStarts + 1)
      BY Bounds DEF CallTyped
    <2> QED
      BY <1>5, <2>1 DEF UpdatesBootId, DeviceTyped
  <1> QED
    BY <1>1, <1>2, <1>3, <1>4, <1>5 DEF Next, CallsStart, CallsStop, Calls, StopSteps, SendsByebye,
      StopsAdvertiser, StopsSsdp, StopEnds, StartSteps, FindsInterfaces, StartsSsdp, Announces,
      StartsAdvertiser, AdvertiserSteps, Wakes, Advertises, EndsRound, ResponderSteps, Composes, Responds,
      EndsAnswer, EndsResponder, FailsToReceive, Receives

LEMMA AdvertiserTypedStep ==
  ASSUME AdvertiserTyped, Next
  PROVE  AdvertiserTyped'
  <1>1. CASE UNCHANGED advertiserVars
    BY <1>1 DEF advertiserVars, AdvertiserTyped
  <1>2. CASE StopsAdvertiser
    BY <1>2 DEF StopsAdvertiser, AdvertiserTyped
  <1>3. CASE StartsAdvertiser
    BY <1>3 DEF StartsAdvertiser, AdvertiserTyped
  <1>4. CASE Wakes
    <2>1. \/ advertiser' = [advertiser EXCEPT !.at = "announcing", !.todo = Notices]
          \/ advertiser' = NoAdvertiser
      BY <1>4 DEF Wakes
    <2>2. CASE advertiser' = [advertiser EXCEPT !.at = "announcing", !.todo = Notices]
      BY <2>2 DEF AdvertiserTyped
    <2>3. CASE advertiser' = NoAdvertiser
      BY <2>3 DEF NoAdvertiser, AdvertiserTyped
    <2> QED
      BY <2>1, <2>2, <2>3
  <1>5. CASE Advertises
    BY <1>5 DEF Advertises, AdvertiserTyped
  <1>6. CASE EndsRound
    BY <1>6 DEF EndsRound, NoAdvertiser, AdvertiserTyped
  <1> QED
    BY <1>1, <1>2, <1>3, <1>4, <1>5, <1>6 DEF Next, CallsStart, CallsStop, Calls, StopSteps, SendsByebye,
      ClosesHttp, StopsSsdp, StopEnds, StartSteps, FindsInterfaces, TriesNextPort, OpensHttp,
      StartsSsdp, UpdatesBootId, Announces, AdvertiserSteps, ResponderSteps, Composes, Responds,
      EndsAnswer, EndsResponder, FailsToReceive, Receives

\* An SSDP thread goes on to another state, and to what it has to answer of its own.
LEMMA ResponderMoves ==
  ASSUME ResponderTyped, UNCHANGED listening, NEW i \in Interfaces,
         NEW to \in Threads, OwnOnly(i, to), responder' = [responder EXCEPT ![i] = to]
  PROVE  ResponderTyped'
  <1>1. responder' \in [Interfaces -> Threads]
    BY DEF ResponderTyped
  <1>2. \A j \in Interfaces : responder'[j] = IF j = i THEN to ELSE responder[j]
    BY DEF ResponderTyped
  <1>3. \A j \in Interfaces : OwnOnly(j, responder'[j])
    BY <1>2 DEF ResponderTyped
  <1> QED
    BY <1>1, <1>3 DEF ResponderTyped, OwnOnly

LEMMA ResponderTypedStep ==
  ASSUME DeviceTyped, ResponderTyped, Next
  PROVE  ResponderTyped'
  <1>1. CASE UNCHANGED searchVars
    BY <1>1 DEF searchVars, ResponderTyped, OwnOnly
  <1>2. CASE StopsSsdp
    BY <1>2 DEF StopsSsdp, ResponderTyped, OwnOnly
  <1>a. ASSUME NEW i \in Interfaces
        PROVE  /\ NoResponder \in Threads /\ OwnOnly(i, NoResponder)
               /\ [NoResponder EXCEPT !.at = "receiving"] \in Threads
               /\ OwnOnly(i, [NoResponder EXCEPT !.at = "receiving"])
    BY DEF NoResponder, Threads, OwnOnly
  <1>3. CASE StartsSsdp
    <2>1. PICK on \in SUBSET Interfaces :
            responder' = [i \in Interfaces |->
              IF i \in on THEN [NoResponder EXCEPT !.at = "receiving"] ELSE NoResponder]
      BY <1>3 DEF StartsSsdp
    <2>2. responder' \in [Interfaces -> Threads]
      BY <1>a, <2>1
    <2>3. ASSUME NEW i \in Interfaces
          PROVE  OwnOnly(i, responder'[i])
      <3>1. responder'[i] = [NoResponder EXCEPT !.at = "receiving"] \/ responder'[i] = NoResponder
        BY <2>1
      <3> QED
        BY <1>a, <3>1
    <2>4. listening' \in BOOLEAN
      BY <1>3 DEF StartsSsdp
    <2> QED
      BY <2>2, <2>3, <2>4 DEF ResponderTyped, OwnOnly
  <1>4. ASSUME NEW i \in Interfaces, ResponderSteps(i) \/ FailsToReceive(i)
        PROVE  ResponderTyped'
    <2>1. responder[i] \in Threads /\ OwnOnly(i, responder[i])
      BY DEF ResponderTyped
    <2>2. CASE Composes(i)
      <3>1. PICK k \in Burst(responder[i].todo) :
              responder' = [responder EXCEPT ![i] = Composing(i, k)]
        BY <2>2 DEF Composes
      <3>2. k \in Own(i) /\ k \in Notices
        BY <2>1, BurstIsLeft DEF OwnOnly, Own
      <3>3. Answer(k) \in Says
        BY <3>2, SaysSomething
      <3>4. responder[i].at = "answering" /\ UNCHANGED listening
        BY <2>2 DEF Composes
      <3>5. Composing(i, k) \in Threads /\ OwnOnly(i, Composing(i, k))
        BY <2>1, <3>2, <3>3 DEF Composing, Threads, OwnOnly
      <3> QED
        BY <3>1, <3>4, <3>5, ResponderMoves
    <2>3. CASE Responds(i)
      <3> DEFINE to == [responder[i] EXCEPT !.reply = {}]
      <3>1. to \in Threads /\ OwnOnly(i, to)
        BY <2>1 DEF Threads, OwnOnly
      <3> QED
        BY <2>3, <3>1, ResponderMoves DEF Responds
    <2>4. CASE EndsAnswer(i)
      <3> DEFINE to == [responder[i] EXCEPT !.at = "receiving"]
      <3>1. to \in Threads /\ OwnOnly(i, to)
        BY <2>1, <2>4 DEF EndsAnswer, Threads, OwnOnly
      <3> QED
        BY <2>4, <3>1, ResponderMoves DEF EndsAnswer
    <2>5. CASE EndsResponder(i) \/ FailsToReceive(i)
      BY <1>a, <2>5, ResponderMoves DEF EndsResponder, FailsToReceive
    <2> QED
      BY <1>4, <2>2, <2>3, <2>4, <2>5 DEF ResponderSteps
  <1>5. ASSUME NEW i \in Interfaces, NEW t \in Targets, Receives(i, t)
        PROVE  ResponderTyped'
    <2> DEFINE to == [responder[i] EXCEPT !.at = "answering", !.todo = Answers(i, t)]
    <2>1. responder[i] \in Threads /\ OwnOnly(i, responder[i])
      BY DEF ResponderTyped
    <2>2. Answers(i, t) \in SUBSET Notices /\ Answers(i, t) \subseteq Own(i)
      BY AnswersAreOwn DEF Own
    <2>3. to \in Threads /\ OwnOnly(i, to)
      BY <2>1, <2>2 DEF Threads, OwnOnly
    <2> QED
      BY <1>5, <2>3, ResponderMoves DEF Receives
  <1> QED
    BY <1>1, <1>2, <1>3, <1>4, <1>5 DEF Next, CallsStart, CallsStop, Calls, StopSteps, SendsByebye,
      StopsAdvertiser, ClosesHttp, StopEnds, StartSteps, FindsInterfaces, TriesNextPort, OpensHttp,
      UpdatesBootId, Announces, StartsAdvertiser, AdvertiserSteps, Wakes, Advertises, EndsRound

LEMMA HeardTypedStep ==
  ASSUME DeviceTyped, ResponderTyped, HeardTyped, Next
  PROVE  HeardTyped'
  <1>1. CASE UNCHANGED heard
    BY <1>1 DEF HeardTyped
  <1>2. CASE SendsByebye
    BY <1>2, SaysSomething DEF SendsByebye, HeardTyped
  <1>3. CASE Announces
    BY <1>3, SaysSomething DEF Announces, HeardTyped
  <1>4. CASE Advertises
    BY <1>4, SaysSomething DEF Advertises, HeardTyped
  <1>5. ASSUME NEW i \in Interfaces, Responds(i)
        PROVE  HeardTyped'
    <2>1. PICK r \in responder[i].reply : heard' = [heard EXCEPT ![r.to] = r.says]
      BY <1>5 DEF Responds
    <2>2. r.says \in Says
      BY DEF ResponderTyped, Threads
    <2> QED
      BY <2>1, <2>2 DEF HeardTyped
  <1> QED
    BY <1>1, <1>2, <1>3, <1>4, <1>5 DEF Next, CallsStart, CallsStop, Calls, StopSteps, StopsAdvertiser,
      ClosesHttp, StopsSsdp, StopEnds, StartSteps, FindsInterfaces, TriesNextPort, OpensHttp, StartsSsdp,
      UpdatesBootId, StartsAdvertiser, AdvertiserSteps, Wakes, EndsRound, ResponderSteps, Composes,
      EndsAnswer, EndsResponder, FailsToReceive, Receives

--------------------------------------------------------------------------------
(* Who is there when, and what that means for a stop.                        *)

\* The steps of the threads leave the calls alone, and those of an SSDP thread begin in
\* one that is there.
LEMMA ThreadsLeaveCalls ==
  /\ AdvertiserSteps => UNCHANGED <<callVars, searchVars>>
  /\ \A i \in Interfaces :
       /\ ResponderSteps(i) \/ FailsToReceive(i) \/ (\E t \in Targets : Receives(i, t)) =>
            UNCHANGED <<callVars, advertiser>> /\ responder[i].at # "none"
  BY DEF AdvertiserSteps, Wakes, Advertises, EndsRound, ResponderSteps, Composes, Responds, EndsAnswer,
    EndsResponder, FailsToReceive, Receives, advertiserVars

LEMMA AttendedStep ==
  ASSUME Typed, Attended, Next
  PROVE  Attended'
  <1>1. CASE CallsStart \/ CallsStop
    BY <1>1 DEF CallsStart, CallsStop, Calls, Attended, Resting, advertiserVars
  <1>2. CASE SendsByebye \/ StopsAdvertiser
    <2>1. at = "byebye" /\ at' \in {"byebye", "advertiser"} /\ started' = started
      BY <1>2 DEF SendsByebye, StopsAdvertiser
    <2> QED
      BY <2>1 DEF Attended, Resting
  <1>3. CASE ClosesHttp
    BY <1>3 DEF ClosesHttp, Attended, Resting, advertiserVars
  <1>4. CASE StopsSsdp
    BY <1>4 DEF StopsSsdp, Attended, Resting, advertiserVars
  <1>5. CASE StopEnds
    BY <1>5 DEF StopEnds, Attended, Resting, advertiserVars, searchVars
  <1>6. CASE FindsInterfaces \/ TriesNextPort \/ OpensHttp
    <2>1. /\ at \in {"interfaces", "open"} /\ at' \in {"interfaces", "open", "opened", "idle"}
          /\ UNCHANGED <<started, advertiser, responder>>
      BY <1>6 DEF FindsInterfaces, TriesNextPort, OpensHttp, callVars, advertiserVars, searchVars
    <2> QED
      BY <2>1 DEF Attended, Resting
  <1>7. CASE StartsSsdp
    BY <1>7 DEF StartsSsdp, Attended, Resting, advertiserVars
  <1>8. CASE UpdatesBootId \/ Announces
    BY <1>8 DEF UpdatesBootId, Announces, Attended, Resting, advertiserVars
  <1>9. CASE StartsAdvertiser
    BY <1>9 DEF StartsAdvertiser, Attended, Resting
  <1>10. CASE AdvertiserSteps
    <2>1. advertiser.at # "none"
      BY <1>10 DEF AdvertiserSteps, Wakes, Advertises, EndsRound, Announcing
    <2>2. at' = at /\ started' = started /\ responder' = responder
      BY <1>10, ThreadsLeaveCalls DEF callVars, searchVars
    <2> QED
      BY <2>1, <2>2 DEF Attended, Resting
  <1>11. ASSUME NEW i \in Interfaces,
                ResponderSteps(i) \/ FailsToReceive(i) \/ \E t \in Targets : Receives(i, t)
         PROVE  Attended'
    <2>1. at' = at /\ started' = started /\ advertiser' = advertiser /\ responder[i].at # "none"
      BY <1>11, ThreadsLeaveCalls DEF callVars
    <2> QED
      BY <2>1 DEF Attended, Resting
  <1> QED
    BY <1>1, <1>2, <1>3, <1>4, <1>5, <1>6, <1>7, <1>8, <1>9, <1>10, <1>11 DEF Next, StopSteps, StartSteps

LEMMA UndisturbedStep ==
  ASSUME Typed, Attended, Undisturbed, Next
  PROVE  Undisturbed'
  <1>1. CASE CallsStart \/ CallsStop
    <2>1. overlapped' = (Announcing \/ Answering) /\ UNCHANGED <<advertiser, responder>>
      BY <1>1 DEF CallsStart, CallsStop, Calls, advertiserVars, searchVars
    <2> QED
      BY <2>1 DEF Undisturbed, Announcing, Answering
  <1>2. CASE SendsByebye \/ ClosesHttp \/ StopsSsdp
    <2>1. Stopping /\ UNCHANGED <<overlapped, advertiser, responder>>
      BY <1>2 DEF SendsByebye, ClosesHttp, StopsSsdp, Stopping, advertiserVars, searchVars
    <2> QED
      BY <2>1 DEF Undisturbed, Announcing, Answering
  <1>3. CASE StopsAdvertiser
    <2>1. Stopping /\ UNCHANGED <<overlapped, responder>>
      BY <1>3 DEF StopsAdvertiser, Stopping, searchVars
    <2>2. advertiser'.at = advertiser.at
      <3>1. advertiser' = [advertiser EXCEPT !.runnable = FALSE]
        BY <1>3 DEF StopsAdvertiser
      <3> QED
        BY <3>1 DEF Typed, AdvertiserTyped
    <2> QED
      BY <2>1, <2>2 DEF Undisturbed, Announcing, Answering
  <1>4. CASE StopEnds \/ StartSteps
    <2>1. ~Stopping'
      BY <1>4 DEF StopEnds, StartSteps, FindsInterfaces, TriesNextPort, OpensHttp, StartsSsdp,
        UpdatesBootId, Announces, StartsAdvertiser, Stopping, callVars
    <2> QED
      BY <2>1 DEF Undisturbed
  <1>5. CASE Wakes
    <2>1. at' = at /\ responder' = responder
      BY <1>5 DEF Wakes, callVars, searchVars
    <2>2. \/ overlapped' = (overlapped \/ Stopping)
          \/ overlapped' = overlapped /\ advertiser' = NoAdvertiser
      BY <1>5 DEF Wakes
    <2>3. CASE overlapped' = (overlapped \/ Stopping)
      BY <2>1, <2>3 DEF Undisturbed, Stopping
    <2>4. CASE overlapped' = overlapped /\ advertiser' = NoAdvertiser
      <3>1. ~Announcing'
        BY <2>4 DEF Announcing, NoAdvertiser
      <3>2. Answering' = Answering /\ Stopping' = Stopping
        BY <2>1 DEF Answering, Stopping
      <3> QED
        BY <2>4, <3>1, <3>2 DEF Undisturbed
    <2> QED
      BY <2>2, <2>3, <2>4
  <1>6. CASE Advertises \/ EndsRound
    <2>1. at' = at /\ overlapped' = overlapped /\ Announcing
      BY <1>6 DEF Advertises, EndsRound, callVars
    <2> QED
      BY <2>1 DEF Undisturbed, Stopping
  <1>7. ASSUME NEW i \in Interfaces, ResponderSteps(i) \/ FailsToReceive(i)
        PROVE  Undisturbed'
    <2>1. UNCHANGED <<at, overlapped, advertiser>>
      BY <1>7 DEF ResponderSteps, Composes, Responds, EndsAnswer, EndsResponder, FailsToReceive, callVars, advertiserVars
    <2>2. \A j \in Interfaces : responder'[j].at = "answering" => responder[j].at = "answering"
      <3>1. CASE Composes(i) \/ Responds(i)
        BY <3>1 DEF Composes, Composing, Responds, Typed, ResponderTyped, Threads
      <3>2. CASE EndsAnswer(i)
        BY <3>2 DEF EndsAnswer, Typed, ResponderTyped, Threads
      <3>3. CASE EndsResponder(i) \/ FailsToReceive(i)
        BY <3>3 DEF EndsResponder, FailsToReceive, NoResponder, Typed, ResponderTyped, Threads
      <3> QED
        BY <1>7, <3>1, <3>2, <3>3 DEF ResponderSteps
    <2> QED
      BY <2>1, <2>2 DEF Undisturbed, Stopping, Announcing, Answering
  <1>8. ASSUME NEW i \in Interfaces, NEW t \in Targets, Receives(i, t)
        PROVE  Undisturbed'
    <2>1. at' = at /\ overlapped' = (overlapped \/ Stopping)
      BY <1>8 DEF Receives, callVars
    <2> QED
      BY <2>1 DEF Undisturbed, Stopping
  <1> QED
    BY <1>1, <1>2, <1>3, <1>4, <1>5, <1>6, <1>7, <1>8 DEF Next, StopSteps, AdvertiserSteps

--------------------------------------------------------------------------------
(* What the control point has heard.                                         *)

\* Only these steps send, and each what it says in its comment.
LEMMA Sends ==
  ASSUME Next
  PROVE  \/ UNCHANGED heard
         \/ SendsByebye \/ Announces \/ Advertises \/ \E i \in Interfaces : Responds(i)
  BY DEF Next, CallsStart, CallsStop, Calls, StopSteps, StopsAdvertiser,
    ClosesHttp, StopsSsdp, StopEnds, StartSteps, FindsInterfaces, TriesNextPort, OpensHttp, StartsSsdp,
    UpdatesBootId, StartsAdvertiser, AdvertiserSteps, Wakes, EndsRound, ResponderSteps, Composes,
    EndsAnswer, EndsResponder, FailsToReceive, Receives

LEMMA TakenBackStep ==
  ASSUME Typed, Attended, Undisturbed, TakenBack, Next
  PROVE  TakenBack'
  <1>1. CASE CallsStart \/ CallsStop
    <2>1. at' = "byebye" /\ todo' = Notices
      BY <1>1 DEF CallsStart, CallsStop, Calls, Farewells
    <2> QED
      BY <2>1 DEF TakenBack, Left
  <1>2. CASE SendsByebye
    <2>1. at = "byebye" /\ UNCHANGED <<at, overlapped>> /\ todo' = todo \ Burst(todo)
      BY <1>2 DEF SendsByebye
    <2>2. heard' = [k \in Notices |-> IF k \in Burst(todo) THEN Silent ELSE heard[k]]
      BY <1>2 DEF SendsByebye
    <2>3. ASSUME ~overlapped, NEW k \in Notices, k \notin todo'
          PROVE  heard'[k] = Silent
      <3>1. CASE k \in Burst(todo)
        BY <2>2, <3>1
      <3>2. CASE k \notin Burst(todo)
        BY <2>1, <2>2, <2>3, <3>2 DEF TakenBack
      <3> QED
        BY <3>1, <3>2
    <2> QED
      BY <2>1, <2>3 DEF TakenBack, Left
  <1>3. CASE StopsAdvertiser
    <2>1. at = "byebye" /\ todo = {} /\ at' = "advertiser" /\ UNCHANGED <<heard, overlapped>>
      BY <1>3 DEF StopsAdvertiser
    <2> QED
      BY <2>1 DEF TakenBack, Left
  <1>4. CASE ClosesHttp \/ StopsSsdp \/ StopEnds \/ FindsInterfaces
    <2>1. Left /\ at' # "byebye" /\ UNCHANGED <<heard, overlapped>>
      BY <1>4 DEF ClosesHttp, StopsSsdp, StopEnds, FindsInterfaces, Left
    <2> QED
      BY <2>1 DEF TakenBack
  <1>5. CASE TriesNextPort \/ OpensHttp \/ StartsSsdp \/ UpdatesBootId \/ Announces
    <2>1. at' \in {"open", "opened", "boot", "announce"}
      BY <1>5 DEF TriesNextPort, OpensHttp, StartsSsdp, UpdatesBootId, Announces, callVars
    <2> QED
      BY <2>1 DEF TakenBack, Left
  <1>6. CASE StartsAdvertiser
    <2>1. at' = "idle" /\ started'
      BY <1>6 DEF StartsAdvertiser
    <2> QED
      BY <2>1 DEF TakenBack, Left
  <1>7. ASSUME UNCHANGED <<callVars, heard>>, overlapped => overlapped'
        PROVE  TakenBack'
    BY <1>7 DEF callVars, TakenBack, Left
  <1>8. ASSUME UNCHANGED <<callVars, overlapped>>, Announcing \/ Answering
        PROVE  TakenBack'
    <2>1. at' = at /\ started' = started /\ todo' = todo /\ overlapped' = overlapped
      BY <1>8 DEF callVars
    <2>2. Stopping => overlapped
      BY <1>8 DEF Undisturbed
    <2>3. ~(at = "interfaces" \/ (at = "idle" /\ ~started))
      BY <1>8 DEF Attended, Resting, Announcing, Answering
    <2> QED
      BY <2>1, <2>2, <2>3 DEF TakenBack, Left, Stopping
  <1>9. CASE AdvertiserSteps
    <2>1. CASE Wakes
      BY <1>7, <2>1 DEF Wakes
    <2>2. CASE Advertises
      BY <1>8, <2>2 DEF Advertises
    <2>3. CASE EndsRound
      BY <1>7, <2>3 DEF EndsRound
    <2> QED
      BY <1>9, <2>1, <2>2, <2>3 DEF AdvertiserSteps
  <1>10. ASSUME NEW i \in Interfaces,
                ResponderSteps(i) \/ FailsToReceive(i) \/ \E t \in Targets : Receives(i, t)
         PROVE  TakenBack'
    <2>1. CASE Responds(i)
      BY <1>8, <2>1 DEF Responds, Answering
    <2>2. CASE Composes(i) \/ EndsAnswer(i) \/ EndsResponder(i) \/ FailsToReceive(i)
      BY <1>7, <2>2 DEF Composes, EndsAnswer, EndsResponder, FailsToReceive
    <2>3. CASE \E t \in Targets : Receives(i, t)
      BY <1>7, <2>3 DEF Receives
    <2> QED
      BY <1>10, <2>1, <2>2, <2>3 DEF ResponderSteps
  <1> QED
    BY <1>1, <1>2, <1>3, <1>4, <1>5, <1>6, <1>9, <1>10 DEF Next, StopSteps, StartSteps

LEMMA ServedStep ==
  ASSUME Typed, Attended, Served, Next
  PROVE  Served'
  <1>1. CASE CallsStart \/ CallsStop \/ StopSteps
    <2>1. CASE CallsStart \/ CallsStop
      BY <2>1 DEF CallsStart, CallsStop, Calls, Served
    <2>2. CASE StopSteps
      <3>1. /\ at \in {"byebye", "advertiser", "ssdp", "joining"} /\ started' = started
            /\ at' \notin {"opened", "boot", "announce"}
        BY <2>2 DEF StopSteps, SendsByebye, StopsAdvertiser, ClosesHttp, StopsSsdp, StopEnds
      <3> QED
        BY <3>1 DEF Attended, Served
    <2> QED
      BY <1>1, <2>1, <2>2
  <1>2. CASE FindsInterfaces \/ TriesNextPort
    <2>1. ~started /\ ~started' /\ at' \in {"interfaces", "open", "idle"}
      BY <1>2 DEF FindsInterfaces, TriesNextPort, callVars, Attended
    <2> QED
      BY <2>1 DEF Served
  <1>3. CASE OpensHttp
    BY <1>3 DEF OpensHttp, Served
  <1>4. CASE StartsSsdp \/ UpdatesBootId \/ Announces \/ StartsAdvertiser
    <2>1. at \in {"opened", "boot", "announce"} /\ UNCHANGED <<http, port>>
      BY <1>4 DEF StartsSsdp, UpdatesBootId, Announces, StartsAdvertiser, deviceVars
    <2> QED
      BY <2>1 DEF Served
  <1>5. ASSUME UNCHANGED <<callVars, deviceVars>>
        PROVE  Served'
    BY <1>5 DEF callVars, deviceVars, Served
  <1> QED
    BY <1>1, <1>2, <1>3, <1>4, <1>5 DEF Next, StartSteps, AdvertiserSteps, Wakes, Advertises, EndsRound,
      ResponderSteps, Composes, Responds, EndsAnswer, EndsResponder, FailsToReceive, Receives

LEMMA ComposedStep ==
  ASSUME Typed, Attended, Composed, Next
  PROVE  Composed'
  <1>1. CASE UNCHANGED <<port, responder>>
    BY <1>1 DEF Composed
  <1>2. CASE TriesNextPort
    <2>1. responder' = responder /\ Resting
      BY <1>2 DEF TriesNextPort, searchVars, Resting
    <2>2. \A i \in Interfaces : responder[i].reply = {}
      BY <2>1 DEF Attended, Typed, ResponderTyped, OwnOnly
    <2> QED
      BY <2>1, <2>2 DEF Composed
  <1>3. CASE StartsSsdp
    <2>1. \A i \in Interfaces : responder'[i].reply = {}
      BY <1>3 DEF StartsSsdp, NoResponder
    <2> QED
      BY <2>1 DEF Composed
  <1>4. ASSUME NEW i \in Interfaces, UNCHANGED port,
               \A j \in Interfaces \ {i} : responder'[j] = responder[j],
               \A r \in responder'[i].reply : r \in responder[i].reply \/ r.says.port = port[Root]
        PROVE  Composed'
    <2>1. \A r \in responder'[i].reply : r.says.port = port'[Root]
      BY <1>4 DEF Composed
    <2>2. \A j \in Interfaces \ {i} : \A r \in responder'[j].reply : r.says.port = port'[Root]
      BY <1>4 DEF Composed
    <2> QED
      BY <2>1, <2>2 DEF Composed
  <1>5. ASSUME NEW i \in Interfaces,
               ResponderSteps(i) \/ FailsToReceive(i) \/ \E t \in Targets : Receives(i, t)
        PROVE  Composed'
    <2>1. UNCHANGED port
      BY <1>5 DEF ResponderSteps, Composes, Responds, EndsAnswer, EndsResponder, FailsToReceive,
        Receives, deviceVars
    <2>2. responder \in [Interfaces -> Threads] /\ responder[i] \in Threads
      BY DEF Typed, ResponderTyped
    <2>3. \A j \in Interfaces \ {i} : responder'[j] = responder[j]
      BY <1>5, <2>2 DEF ResponderSteps, Composes, Responds, EndsAnswer, EndsResponder, FailsToReceive,
        Receives
    <2>4. CASE Composes(i)
      <3>1. PICK k \in Burst(responder[i].todo) :
              responder' = [responder EXCEPT ![i] = Composing(i, k)]
        BY <2>4 DEF Composes
      <3>2. responder'[i].reply = {[to |-> k, says |-> Answer(k)]}
        BY <2>2, <3>1 DEF Composing
      <3>3. Answer(k).port = port[Root]
        BY DEF Answer
      <3> QED
        BY <1>4, <2>1, <2>3, <3>2, <3>3
    <2>5. CASE Responds(i)
      <3>1. responder'[i].reply = {}
        BY <2>2, <2>5 DEF Responds, Threads
      <3> QED
        BY <1>4, <2>1, <2>3, <3>1
    <2>6. CASE EndsResponder(i) \/ FailsToReceive(i)
      <3>1. responder'[i].reply = {}
        BY <2>2, <2>6 DEF EndsResponder, FailsToReceive, NoResponder
      <3> QED
        BY <1>4, <2>1, <2>3, <3>1
    <2>7. CASE EndsAnswer(i) \/ \E t \in Targets : Receives(i, t)
      <3>1. responder'[i].reply = responder[i].reply
        BY <2>2, <2>7 DEF EndsAnswer, Receives, Threads
      <3> QED
        BY <1>4, <2>1, <2>3, <3>1
    <2> QED
      BY <1>5, <2>4, <2>5, <2>6, <2>7 DEF ResponderSteps
  <1> QED
    BY <1>1, <1>2, <1>3, <1>5 DEF Next, CallsStart, CallsStop, Calls, StopSteps, SendsByebye,
      StopsAdvertiser, ClosesHttp, StopsSsdp, StopEnds, StartSteps, FindsInterfaces, OpensHttp,
      UpdatesBootId, Announces, StartsAdvertiser, AdvertiserSteps, Wakes, Advertises, EndsRound,
      deviceVars, searchVars

\* Every announcement and every answer that is sent while the HTTP servers are open on
\* the port of the root device is one that Current asks for.
Tellable(k) == {Alive(k)} \cup {says \in Says : says.port = port[Root]}

LEMMA SentIsCurrent ==
  ASSUME Typed, http.port = port[Root], NEW k \in Notices, UNCHANGED deviceVars,
         heard'[k] \in Tellable(k)
  PROVE  Tells(k)'
  <1>1. /\ port[Root] \in Nat \ {0} /\ port[k.of] \in Nat \ {0}
    BY RootIsDevice, NoticeIsOf, Bounds DEF Typed, DeviceTyped
  <1>2. CASE heard'[k] = Alive(k) /\ k.service # NoService
    BY <1>1, <1>2 DEF Alive, ServiceAlive, Tells, Silent, deviceVars
  <1>3. CASE heard'[k] = Alive(k) /\ k.service = NoService
    BY <1>1, <1>3 DEF Alive, Tells, Silent, deviceVars
  <1>4. CASE heard'[k].port = port[Root]
    BY <1>1, <1>4 DEF Tells, Silent, deviceVars
  <1> QED
    BY <1>2, <1>3, <1>4 DEF Tellable

\* Each notice says what it said, or what is sent now.
Speaks(k) == heard'[k] = heard[k] \/ heard'[k] \in Tellable(k)

LEMMA SpeaksWell ==
  ASSUME Typed, Served, at \in {"opened", "boot", "announce"} \/ started,
         NEW k \in Notices, UNCHANGED deviceVars, Speaks(k)
  PROVE  Tells(k) => Tells(k)'
  <1>1. http.port = port[Root]
    BY DEF Served
  <1>2. CASE heard'[k] = heard[k]
    BY <1>2 DEF Tells, deviceVars
  <1>3. CASE heard'[k] \in Tellable(k)
    BY <1>1, <1>3, SentIsCurrent
  <1> QED
    BY <1>2, <1>3 DEF Speaks

LEMMA AnnouncedStep ==
  ASSUME Typed, Attended, Served, Composed, Announced, Next
  PROVE  Announced'
  <1>1. CASE CallsStart \/ CallsStop \/ StopSteps
    <2>1. CASE CallsStart \/ CallsStop
      BY <2>1 DEF CallsStart, CallsStop, Calls, Announced
    <2>2. CASE StopSteps
      <3>1. /\ at \in {"byebye", "advertiser", "ssdp", "joining"} /\ started' = started
            /\ at' # "announce"
        BY <2>2 DEF StopSteps, SendsByebye, StopsAdvertiser, ClosesHttp, StopsSsdp, StopEnds
      <3> QED
        BY <3>1 DEF Attended, Announced
    <2> QED
      BY <1>1, <2>1, <2>2
  <1>2. CASE FindsInterfaces \/ TriesNextPort \/ OpensHttp \/ StartsSsdp
    <2>1. ~started /\ started' = started /\ at' # "announce"
      BY <1>2 DEF FindsInterfaces, TriesNextPort, OpensHttp, StartsSsdp, callVars, Attended
    <2> QED
      BY <2>1 DEF Announced
  <1>3. CASE UpdatesBootId
    <2>1. ~started' /\ todo' = Notices
      BY <1>3 DEF UpdatesBootId, Attended
    <2> QED
      BY <2>1 DEF Announced
  <1>4. CASE Announces
    <2>1. /\ at = "announce" /\ ~started /\ ~started' /\ todo' = todo \ Burst(todo)
          /\ UNCHANGED deviceVars
      BY <1>4 DEF Announces, Attended
    <2>2. heard' = [k \in Notices |-> IF k \in Burst(todo) THEN Alive(k) ELSE heard[k]]
      BY <1>4 DEF Announces
    <2>3. ASSUME NEW k \in Notices, k \notin todo'
          PROVE  Tells(k)'
      <3>1. CASE k \in Burst(todo)
        BY <2>1, <2>2, <3>1, SentIsCurrent DEF Served, Tellable
      <3>2. CASE k \notin Burst(todo)
        <4>1. Tells(k) /\ Speaks(k)
          BY <2>1, <2>2, <2>3, <3>2 DEF Announced, Speaks
        <4> QED
          BY <2>1, <4>1, SpeaksWell
      <3> QED
        BY <3>1, <3>2
    <2> QED
      BY <2>1, <2>3 DEF Announced
  <1>5. CASE StartsAdvertiser
    <2>1. at = "announce" /\ todo = {} /\ at' = "idle" /\ UNCHANGED <<deviceVars, heard>>
      BY <1>5 DEF StartsAdvertiser
    <2>2. ASSUME NEW k \in Notices
          PROVE  Tells(k)'
      BY <2>1, SpeaksWell DEF Announced, Speaks
    <2> QED
      BY <2>1, <2>2 DEF Announced
  <1>6. ASSUME UNCHANGED <<callVars, deviceVars>>, \A k \in Notices : Speaks(k)
        PROVE  Announced'
    <2>1. UNCHANGED <<at, started, todo>>
      BY <1>6 DEF callVars
    <2>2. ASSUME NEW k \in Notices, at = "announce" \/ started
          PROVE  Tells(k) => Tells(k)'
      BY <1>6, <2>2, SpeaksWell
    <2>3. CASE at = "announce"
      <3>1. ~started'
        BY <2>1, <2>3 DEF Attended
      <3> QED
        BY <2>1, <2>2, <2>3, <3>1 DEF Announced
    <2>4. CASE started
      <3>1. at' # "announce"
        BY <2>1, <2>4 DEF Attended
      <3> QED
        BY <2>1, <2>2, <2>4, <3>1 DEF Announced
    <2>5. CASE at # "announce" /\ ~started
      BY <2>1, <2>5 DEF Announced
    <2> QED
      BY <2>3, <2>4, <2>5
  <1>7. CASE AdvertiserSteps
    <2>1. UNCHANGED <<callVars, deviceVars>>
      BY <1>7 DEF AdvertiserSteps, Wakes, Advertises, EndsRound
    <2>2. \A k \in Notices : Speaks(k)
      BY <1>7 DEF AdvertiserSteps, Wakes, Advertises, EndsRound, Speaks, Tellable
    <2> QED
      BY <1>6, <2>1, <2>2
  <1>8. ASSUME NEW i \in Interfaces,
               ResponderSteps(i) \/ FailsToReceive(i) \/ \E t \in Targets : Receives(i, t)
        PROVE  Announced'
    <2>1. UNCHANGED <<callVars, deviceVars>>
      BY <1>8 DEF ResponderSteps, Composes, Responds, EndsAnswer, EndsResponder, FailsToReceive, Receives
    <2>2. \A k \in Notices : Speaks(k)
      <3>1. CASE Responds(i)
        <4>1. PICK r \in responder[i].reply : heard' = [heard EXCEPT ![r.to] = r.says]
          BY <3>1 DEF Responds
        <4>2. r.says \in Says /\ r.says.port = port[Root] /\ heard \in [Notices -> Says]
          BY DEF Composed, Typed, ResponderTyped, Threads, HeardTyped
        <4> QED
          BY <4>1, <4>2 DEF Speaks, Tellable
      <3>2. CASE ~Responds(i)
        BY <1>8, <3>2 DEF ResponderSteps, Composes, EndsAnswer, EndsResponder, FailsToReceive, Receives, Speaks
      <3> QED
        BY <3>1, <3>2
    <2> QED
      BY <1>6, <2>1, <2>2
  <1> QED
    BY <1>1, <1>2, <1>3, <1>4, <1>5, <1>7, <1>8 DEF Next, StartSteps

--------------------------------------------------------------------------------
(* The theorems.                                                             *)

LEMMA InitHolds == Init => LifecycleInv
  <1> SUFFICES ASSUME Init PROVE LifecycleInv
    OBVIOUS
  <1>1. CallTyped
    <2>1. 0 \in 0..MaxStarts
      BY Bounds
    <2>2. restarting \in BOOLEAN /\ started \in BOOLEAN /\ overlapped \in BOOLEAN
      BY DEF Init
    <2> QED
      BY <2>1, <2>2 DEF Init, CallTyped, Places
  <1>2. DeviceTyped
    <2>1. FirstPort \in FirstPort..MaxPort /\ 1 \in 1..(MaxStarts + 1)
      BY Bounds
    <2> QED
      BY <2>1 DEF Init, DeviceTyped, Closed
  <1>3. AdvertiserTyped
    BY DEF Init, AdvertiserTyped, NoAdvertiser
  <1>4. ResponderTyped
    BY DEF Init, ResponderTyped, NoResponder, Threads, OwnOnly
  <1>5. HeardTyped
    <2>1. Silent \in Says
      BY Bounds DEF Silent, Says
    <2> QED
      BY <2>1 DEF Init, HeardTyped
  <1>6. Attended
    BY DEF Init, Attended, NoAdvertiser, NoResponder
  <1>7. Undisturbed /\ TakenBack /\ Served /\ Composed /\ Announced
    BY DEF Init, Undisturbed, Stopping, TakenBack, Served, Composed, NoResponder, Announced
  <1> QED
    BY <1>1, <1>2, <1>3, <1>4, <1>5, <1>6, <1>7 DEF LifecycleInv, Typed

LEMMA StepKeeps == LifecycleInv /\ [Next]_vars => LifecycleInv'
  <1> SUFFICES ASSUME LifecycleInv, [Next]_vars PROVE LifecycleInv'
    OBVIOUS
  <1>1. CASE Next
    <2>1. Typed'
      BY <1>1, CallTypedStep, DeviceTypedStep, AdvertiserTypedStep, ResponderTypedStep, HeardTypedStep
        DEF LifecycleInv, Typed
    <2>2. Attended' /\ Undisturbed' /\ TakenBack'
      BY <1>1, AttendedStep, UndisturbedStep, TakenBackStep DEF LifecycleInv
    <2>3. Served' /\ Composed' /\ Announced'
      BY <1>1, ServedStep, ComposedStep, AnnouncedStep DEF LifecycleInv
    <2> QED
      BY <2>1, <2>2, <2>3 DEF LifecycleInv
  <1>2. CASE UNCHANGED vars
    <2>1. /\ UNCHANGED <<at, restarting, started, starts, todo, port, boot, http>>
          /\ UNCHANGED <<advertiser, listening, responder, heard, overlapped>>
      BY <1>2 DEF vars, callVars, deviceVars, advertiserVars, searchVars
    <2>2. Typed'
      BY <2>1 DEF LifecycleInv, Typed, CallTyped, DeviceTyped, AdvertiserTyped, ResponderTyped, OwnOnly, HeardTyped
    <2>3. Attended' /\ Undisturbed' /\ TakenBack'
      BY <2>1 DEF LifecycleInv, Attended, Resting, Undisturbed, Stopping, Announcing, Answering,
        TakenBack, Left
    <2>4. Served' /\ Composed' /\ Announced'
      BY <2>1 DEF LifecycleInv, Served, Composed, Announced, Tells
    <2> QED
      BY <2>2, <2>3, <2>4 DEF LifecycleInv
  <1> QED
    BY <1>1, <1>2

\* Whatever the application, the advertiser and the SSDP threads do in whatever order,
\* the parts of the invariant hold between their steps.
THEOREM LifecycleIsInvariant == Spec => []LifecycleInv
  BY InitHolds, StepKeeps, PTL DEF Spec

\* Type correctness: an SSDP thread answers for its own interface only, and the advertiser
\* is not there before the first announcement of mupnp_device_start has ended.
THEOREM TypesHold == Spec => []TypeOK
  <1>1. LifecycleInv => TypeOK
    <2> SUFFICES ASSUME LifecycleInv PROVE TypeOK
      OBVIOUS
    <2>1. /\ at \in Places /\ restarting \in BOOLEAN /\ started \in BOOLEAN /\ overlapped \in BOOLEAN
          /\ starts \in 0..MaxStarts /\ todo \subseteq Notices /\ listening \in BOOLEAN
      BY DEF LifecycleInv, Typed, CallTyped, ResponderTyped
    <2>2. /\ port \in [Devices -> FirstPort..MaxPort] /\ boot \in [Devices -> 1..(MaxStarts + 1)]
          /\ http.on \subseteq Interfaces /\ http.port \in {0} \cup FirstPort..MaxPort
      BY DEF LifecycleInv, Typed, DeviceTyped
    <2>3. /\ advertiser.at \in {"none", "sleeping", "announcing"} /\ advertiser.todo \subseteq Notices
          /\ advertiser.at # "none" => started \/ at \in {"byebye", "advertiser"}
      BY DEF LifecycleInv, Typed, AdvertiserTyped, Attended
    <2>4. \A i \in Interfaces :
            /\ responder[i].at \in {"none", "receiving", "answering"}
            /\ \A k \in responder[i].todo : k \in Notices /\ k.on = i
            /\ \A r \in responder[i].reply : r.to \in Notices /\ r.to.on = i
            /\ responder[i].reply # {} => responder[i].at = "answering"
      BY DEF LifecycleInv, Typed, ResponderTyped, Threads, OwnOnly, Own
    <2> QED
      BY <2>1, <2>2, <2>3, <2>4 DEF TypeOK, Places
  <1> QED
    BY <1>1, LifecycleIsInvariant, PTL

\* What mupnp_device_start and the advertiser announced, and what the SSDP threads
\* answered, has been taken back when a stop that none of them overlapped has returned.
THEOREM StopTakesBack == Spec => []AllLeave
  <1>1. LifecycleInv => AllLeave
    BY DEF LifecycleInv, TakenBack, Left, AllLeave
  <1> QED
    BY <1>1, LifecycleIsInvariant, PTL

\* What a running device said last of itself leads to it: no notice is missing, and none
\* has another port than that of the HTTP servers, the answers included that were composed
\* at any time before.
THEOREM AnnouncementsAreCurrent == Spec => []Current
  <1>1. LifecycleInv => Current
    BY DEF LifecycleInv, Announced, Tells, Current
  <1> QED
    BY <1>1, LifecycleIsInvariant, PTL

\* After mupnp_device_stop has joined its threads nobody is left who could send.
THEOREM StopIsSilent == Spec => StopSilences
  <1>1. LifecycleInv /\ [Next]_vars => [at = "idle" /\ ~started => UNCHANGED heard]_vars
    <2> SUFFICES ASSUME LifecycleInv, Next, at = "idle", ~started
                 PROVE  UNCHANGED heard
      OBVIOUS
    <2>1. ~Announcing /\ ~Answering
      BY DEF LifecycleInv, Attended, Resting, Announcing, Answering
    <2>2. ~SendsByebye /\ ~Announces
      BY DEF SendsByebye, Announces
    <2>3. ~Advertises /\ \A i \in Interfaces : ~Responds(i)
      BY <2>1 DEF Advertises, Responds, Answering
    <2> QED
      BY <2>2, <2>3, Sends
  <1> QED
    BY <1>1, LifecycleIsInvariant, PTL DEF Spec, StopSilences
================================================================================
