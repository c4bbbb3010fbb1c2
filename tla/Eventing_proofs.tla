----------------------------- MODULE Eventing_proofs -----------------------------
(***************************************************************************)
(* Safety of Eventing for every number of setters, variables and           *)
(* subscriptions and for every range of SEQ, and that it implements        *)
(* EventChannel.                                                           *)
(***************************************************************************)
EXTENDS Eventing, Naturals_proofs

\* What a NOTIFY can carry: values of some of the variables.
Bodies == UNION {[some -> 0..MaxSets] : some \in SUBSET Variables}

CallState ==
  [by : {App} \cup Sids, kind : {"none", "subscribe", "renew", "unsubscribe"},
   sid : 0..MaxSids, reply : {"none", "ok", "failed"}]
WorkPc == {"none", "received", "listed", "answered", "notifying"}
PostState == [at : {"none", "sent", "gap", "answered"}, seq : 0..NotifyCountMax,
              body : {<<>>} \cup Bodies]

\* The values on both sides, and the variables that are to be notified.
ValuesTyped ==
  /\ value \in [Variables -> 0..MaxSets] /\ known \in [Variables -> 0..MaxSets]
  /\ setting \in [Setters -> SUBSET Variables] /\ event \subseteq Variables

\* Who has the lock of the service is notifying, and of what.
Notifying ==
  /\ notifier \in Setters \cup Sids \cup {Nobody}
  /\ notifier = Nobody => event = {} /\ todo = {} /\ target = NoSid
  /\ notifier \in Setters => setting[notifier] # {} /\ event = setting[notifier]
  /\ notifier \in Sids => event = Variables

\* A SID is made by a SUBSCRIBE and is on the list at most once, and is to be notified
\* at most once.
Listed ==
  /\ subscribers \subseteq 1..made
  /\ todo \subseteq subscribers /\ target \in subscribers \cup {NoSid} /\ target \notin todo
  /\ count \in [Sids -> 0..NotifyCountMax]
  /\ \A x \in Sids \ subscribers : count[x] = 0

\* The device waits for the answer of at most one NOTIFY, and the others are of
\* subscribers that it has removed.
Posted ==
  /\ post \in [Sids -> PostState]
  /\ target # NoSid => post[target].at # "none"
  /\ \A x \in Sids :
       /\ post[x].at = "sent" => post[x].body \in Bodies
       /\ post[x].at = "gap" <=> call.by = x
       /\ x > made => post[x].at = "none"
       /\ post[x].at # "none" /\ x # target =>
            /\ x \notin subscribers /\ work[<<"subscribe", x>>] # "received"
            /\ post[x].at # "answered"

\* A worker lists its subscriber once.
Working ==
  /\ work \in [Kinds \X Sids -> WorkPc]
  /\ \A x \in Sids :
       /\ x > made => work[<<"subscribe", x>>] = "none"
       /\ x \in subscribers => work[<<"subscribe", x>>] # "received"
       /\ work[<<"subscribe", x>>] = "notifying" <=> notifier = x

\* The calls of the control point: who makes which, and for which SID.
Calling ==
  /\ call \in CallState /\ key \in 0..NotifyCountMax
  /\ sid \in 0..made /\ made \in 0..MaxSids
  /\ dropped \in BOOLEAN /\ blind \in BOOLEAN
  /\ call.kind = "none" => call = NoCall
  /\ call.sid \in 0..made
  /\ call.by # App => call.kind \in {"subscribe", "unsubscribe"} /\ call.by <= made
  /\ call.kind = "subscribe" => sid = NoSid /\ call.sid # NoSid /\ call.by < call.sid
  /\ call.kind = "renew" => call.sid = sid

ControlInv == ValuesTyped /\ Notifying /\ Listed /\ Posted /\ Working /\ Calling

--------------------------------------------------------------------------------
\* The SID of a SUBSCRIBE under way may become that of the control point.
Ours(x) == sid = x \/ Awaited(x)

\* The control point knows no value that the device has not had; and of its own
\* subscription it is not sent an older one than it knows.
Fresh ==
  /\ \A v \in Variables : known[v] <= value[v]
  /\ \A x \in Sids : post[x].at = "sent" =>
       \A v \in DOMAIN post[x].body :
         /\ post[x].body[v] <= value[v]
         /\ Ours(x) => known[v] <= post[x].body[v]

\* The key that the control point has before an event with this SEQ.
Follows(seq) == seq <= EventMaxSeq + 1 /\ (seq # 0 => key = KeyAfter(seq - 1))

\* Without an event dropped, key and SEQ go together up to the first after the wrap.
InStepAt(x) ==
  Ours(x) /\ ~dropped =>
    /\ post[x].at = "none" => Follows(count[x])
    /\ post[x].at = "sent" => Follows(post[x].seq)
    /\ x = target => post[x].seq = count[x]
    /\ post[x].at = "answered" => count[x] <= EventMaxSeq /\ key = KeyAfter(count[x])
InStep == \A x \in Sids : InStepAt(x)

\* A variable was set by someone who has still to notify.
ToNotify(v) == \E s \in Setters : v \in setting[s] /\ notifier # s

\* The event of a new subscription, with all variables, has still to come.
Initial(x) == work[<<"subscribe", x>>] \in {"listed", "answered"}
FirstUnderWay(x) ==
  \/ notifier = x /\ x \in todo
  \/ x = target /\ post[x].at = "sent" /\ DOMAIN post[x].body = Variables

\* How the control point is still to learn of a change of v.
Coming(x, v) ==
  \/ ToNotify(v)
  \/ v \in event /\ x \in todo
  \/ x = target /\ post[x].at = "sent" /\ v \in DOMAIN post[x].body /\ post[x].body[v] = value[v]
  \/ post[x].at = "gap"
  \/ Initial(x)

Current(x) ==
  x = target /\ post[x].at = "sent" =>
    \A v \in DOMAIN post[x].body : post[x].body[v] = value[v] \/ ToNotify(v)
InReach(x) ==
  ~blind /\ x \in subscribers =>
    /\ Awaited(x) => Initial(x) \/ FirstUnderWay(x)
    /\ sid = x => \A v \in Variables : known[v] = value[v] \/ Coming(x, v)
NothingLost == \A x \in Sids : Current(x) /\ InReach(x)

--------------------------------------------------------------------------------
\* Facts about the constants, and about the records of what is not there.
LEMMA Numbers ==
  /\ Sids \subseteq Nat /\ 0 \notin Sids /\ Setters \cap Sids = {} /\ 0 \notin Setters
  /\ Nobody = 0 /\ NoSid = 0 /\ App = 0 /\ Sids = 1..MaxSids
  /\ NotifyCountMax \in Nat /\ MaxSets \in Nat /\ MaxSids \in Nat
  /\ EventMaxSeq \in Nat /\ 0 < EventMaxSeq /\ EventMaxSeq < NotifyCountMax
  BY EventingAssumption DEF Sids, App, Nobody, NoSid

LEMMA NoneYet ==
  /\ NoPost \in PostState /\ NoPost.at = "none"
  /\ NoCall \in CallState /\ NoCall.kind = "none" /\ NoCall.by = 0 /\ NoCall.sid = 0
  BY Numbers DEF NoPost, PostState, NoCall, CallState

LEMMA NextCountTyped ==
  ASSUME NEW n \in 0..NotifyCountMax
  PROVE  NextCount(n) \in 1..NotifyCountMax
  BY Numbers DEF NextCount

\* The notifier takes a subscriber that it has still to notify.
LEMMA FirstIsOne ==
  ASSUME NEW S \in SUBSET Nat, S # {}
  PROVE  First(S) \in S
  BY LeastExists DEF First

\* The answer of a worker goes to the call that waits for it, if it still does.
LEMMA ReplyControl ==
  ASSUME Calling, NEW kind \in {"subscribe", "renew", "unsubscribe"}, NEW x,
         NEW reply \in {"ok", "failed"}, Reply(kind, x, reply),
         UNCHANGED <<sid, key, made, dropped, blind>>
  PROVE  /\ Calling'
         /\ call'.by = call.by /\ call'.kind = call.kind /\ call'.sid = call.sid
  <1>1. /\ call' \in CallState
        /\ call'.by = call.by /\ call'.kind = call.kind /\ call'.sid = call.sid
        /\ call.kind = "none" => call' = call
    BY DEF Reply, CallState, Calling
  <1> QED
    BY <1>1 DEF Calling

\* Removed subscribers are off the list, and their counters reset.
LEMMA RemovesFrom ==
  ASSUME Listed, NEW sids, Removes(sids)
  PROVE  /\ subscribers' = subscribers \ sids
         /\ count' \in [Sids -> 0..NotifyCountMax]
         /\ \A x \in Sids : count'[x] = IF x \in sids THEN 0 ELSE count[x]
  BY Numbers DEF Listed, Removes

\* A worker goes on, and the others stay where they are.
LEMMA WorkMoves ==
  ASSUME Working, NEW kind \in Kinds, NEW x \in Sids, NEW to \in WorkPc, Work(kind, x, to)
  PROVE  /\ work' \in [Kinds \X Sids -> WorkPc]
         /\ \A y \in Sids : work'[<<"subscribe", y>>] =
              IF kind = "subscribe" /\ y = x THEN to ELSE work[<<"subscribe", y>>]
  BY DEF Working, Work, Kinds

\* A NOTIFY goes on, and the others stay where they are.
LEMMA PostMoves ==
  ASSUME Posted, NEW x \in Sids, NEW p \in PostState, post' = [post EXCEPT ![x] = p]
  PROVE  /\ post' \in [Sids -> PostState]
         /\ \A y \in Sids : post'[y] = IF y = x THEN p ELSE post[y]
  BY DEF Posted

\* The parts of the invariant have all of the types.
LEMMA ControlTypes == ControlInv => TypeOK
  <1> SUFFICES ASSUME ControlInv PROVE TypeOK
    OBVIOUS
  <1> USE DEF ControlInv
  <1>1. /\ value \in [Variables -> 0..MaxSets] /\ known \in [Variables -> 0..MaxSets]
        /\ setting \in [Setters -> SUBSET Variables]
    BY DEF ValuesTyped
  <1>2. /\ notifier \in Setters \cup Sids \cup {Nobody}
        /\ notifier = Nobody => event = {} /\ todo = {} /\ target = NoSid
    BY DEF Notifying
  <1>3. /\ subscribers \subseteq 1..made /\ count \in [Sids -> 0..NotifyCountMax]
        /\ todo \subseteq subscribers /\ target \in subscribers \cup {NoSid}
    BY DEF Listed
  <1>4. /\ \A x \in Sids : post[x].at \in {"none", "sent", "gap", "answered"}
        /\ \A x \in Sids : post[x].at = "gap" <=> call.by = x
        /\ target # NoSid => post[target].at # "none"
    BY DEF Posted, PostState
  <1>5. /\ key \in 0..NotifyCountMax /\ sid \in 0..made /\ made \in 0..MaxSids
        /\ dropped \in BOOLEAN /\ blind \in BOOLEAN
    BY DEF Calling
  <1> HIDE DEF ControlInv
  <1> QED
    BY <1>1, <1>2, <1>3, <1>4, <1>5 DEF TypeOK

LEMMA InitControl == Init => ControlInv
  <1> SUFFICES ASSUME Init PROVE ControlInv
    OBVIOUS
  <1> USE NoneYet, Numbers DEF Init
  <1>1. ValuesTyped
    BY DEF ValuesTyped
  <1>2. Notifying
    BY DEF Notifying
  <1>3. Listed
    BY DEF Listed
  <1>4. Posted
    <2>1. \A x \in Sids : post[x] = NoPost /\ call.by # x
      BY DEF App
    <2>2. post \in [Sids -> PostState]
      OBVIOUS
    <2>3. target = NoSid
      OBVIOUS
    <2> QED
      BY <2>1, <2>2, <2>3 DEF Posted
  <1>5. Working
    BY DEF Working, Kinds, WorkPc
  <1>6. Calling
    <2>1. /\ call = NoCall /\ key = 0 /\ sid = 0 /\ made = 0
          /\ dropped = FALSE /\ blind = FALSE
      OBVIOUS
    <2>2. /\ key \in 0..NotifyCountMax /\ sid \in 0..made /\ made \in 0..MaxSids
          /\ call.sid \in 0..made
      BY <2>1
    <2> HIDE DEF Init
    <2> QED
      BY <2>1, <2>2 DEF Calling
  <1> QED
    BY <1>1, <1>2, <1>3, <1>4, <1>5, <1>6 DEF ControlInv

--------------------------------------------------------------------------------
\* The steps of the device's notifier.
LEMMA SetsControl ==
  ASSUME ControlInv, NEW s \in Setters, NEW v \in Variables, Sets(s, v)
  PROVE  ControlInv'
  <1> USE DEF ControlInv
  <1>a. UNCHANGED <<subscribers, count, notifier, event, todo, target, post, work,
                    sid, key, known, call, made, dropped, blind>>
    BY DEF Sets, controlVars
  <1>b. /\ value' \in [Variables -> 0..MaxSets] /\ setting' \in [Setters -> SUBSET Variables]
        /\ setting[s] = {} /\ \A t \in Setters \ {s} : setting'[t] = setting[t]
    BY Numbers DEF Sets, ValuesTyped
  <1>1. ValuesTyped'
    BY <1>a, <1>b DEF ValuesTyped
  <1>2. Notifying'
    BY <1>a, <1>b DEF Notifying
  <1>3. Listed'
    BY <1>a DEF Listed
  <1>4. Posted'
    BY <1>a DEF Posted
  <1>5. Working'
    BY <1>a DEF Working
  <1>6. Calling'
    BY <1>a DEF Calling
  <1> QED
    BY <1>1, <1>2, <1>3, <1>4, <1>5, <1>6

LEMMA PostsControl ==
  ASSUME ControlInv, Posts
  PROVE  /\ ControlInv'
         /\ target' \in todo /\ target = NoSid
         /\ \A x \in Sids : post'[x] =
              IF x = target' THEN [at |-> "sent", seq |-> count[x], body |-> [v \in event |-> value[v]]]
              ELSE post[x]
  <1> USE DEF ControlInv
  <1>a. /\ target' \in todo /\ target = NoSid /\ todo' = todo \ {target'}
        /\ UNCHANGED <<value, setting, subscribers, count, notifier, event, work,
                       sid, key, known, call, made, dropped, blind>>
    <2>1. todo \in SUBSET Nat /\ todo # {}
      BY Numbers DEF Listed, Calling, Posts
    <2> QED
      BY <2>1, FirstIsOne DEF Posts, controlVars
  <1>b. /\ target' \in Sids /\ target' \in subscribers /\ target' # NoSid
        /\ ~(target' > made) /\ target' # target /\ target \notin Sids
    BY <1>a, Numbers DEF Listed, Calling
  <1> DEFINE body == [v \in event |-> value[v]]
             p == [at |-> "sent", seq |-> count[target'], body |-> body]
  <1>c. body \in Bodies /\ p \in PostState
    <2>1. body \in Bodies
      BY DEF ValuesTyped, Bodies
    <2>2. count[target'] \in 0..NotifyCountMax
      BY <1>b DEF Listed
    <2> HIDE DEF body
    <2> QED
      BY <2>1, <2>2 DEF PostState
  <1>d. /\ post' \in [Sids -> PostState]
        /\ \A x \in Sids : post'[x] = IF x = target' THEN p ELSE post[x]
    <2>1. post' = [post EXCEPT ![target'] = p]
      BY DEF Posts
    <2> HIDE DEF p
    <2> QED
      BY <2>1, <1>b, <1>c, PostMoves
  <1>e. p.at = "sent" /\ p.body = body
    OBVIOUS
  <1> HIDE DEF p, body
  <1>1. ValuesTyped'
    BY <1>a DEF ValuesTyped
  <1>2. Notifying'
    BY <1>a DEF Notifying
  <1>3. Listed'
    BY <1>a, <1>b DEF Listed
  <1>4. Posted'
    <2>1. post[target'].at = "none" /\ call.by # target'
      BY <1>b DEF Posted
    <2> QED
      <3>1. target' # NoSid => post'[target'].at # "none"
        BY <1>b, <1>d, <1>e
      <3>2. ASSUME NEW x \in Sids
            PROVE  /\ post'[x].at = "sent" => post'[x].body \in Bodies
                   /\ post'[x].at = "gap" <=> call'.by = x
                   /\ x > made' => post'[x].at = "none"
                   /\ post'[x].at # "none" /\ x # target' =>
                        /\ x \notin subscribers' /\ work'[<<"subscribe", x>>] # "received"
                        /\ post'[x].at # "answered"
        <4>1. CASE x = target'
          <5>1. post'[x].at = "sent" /\ post'[x].body \in Bodies
            BY <4>1, <1>c, <1>d, <1>e
          <5> QED
            BY <4>1, <5>1, <1>a, <1>b, <2>1
        <4>2. CASE x # target'
          BY <4>2, <1>a, <1>b, <1>d DEF Posted
        <4> QED
          BY <4>1, <4>2
      <3> QED
        BY <1>d, <3>1, <3>2 DEF Posted
  <1>5. Working'
    BY <1>a DEF Working
  <1>6. Calling'
    BY <1>a DEF Calling
  <1> QED
    BY <1>1, <1>2, <1>3, <1>4, <1>5, <1>6, <1>a, <1>d DEF p, body

LEMMA DeliveredControl ==
  ASSUME ControlInv, Delivered
  PROVE  ControlInv'
  <1> USE DEF ControlInv
  <1>a. /\ target \in Sids /\ target \in subscribers /\ target' = NoSid /\ target # NoSid
        /\ post[target].at = "answered"
        /\ UNCHANGED <<value, setting, subscribers, notifier, event, todo, work,
                       sid, key, known, call, made, dropped, blind>>
    BY Numbers DEF Delivered, Listed, Calling, controlVars
  <1>b. /\ count' \in [Sids -> 0..NotifyCountMax]
        /\ \A x \in Sids : count'[x] = IF x = target THEN NextCount(count[x]) ELSE count[x]
    <2>1. NextCount(count[target]) \in 0..NotifyCountMax
      BY <1>a, NextCountTyped DEF Listed
    <2> QED
      BY <1>a, <2>1 DEF Delivered, Listed
  <1>c. /\ post' \in [Sids -> PostState]
        /\ \A x \in Sids : post'[x] = IF x = target THEN NoPost ELSE post[x]
    BY <1>a, NoneYet, PostMoves DEF Delivered
  <1>1. ValuesTyped'
    BY <1>a DEF ValuesTyped
  <1>2. Notifying'
    BY <1>a DEF Notifying
  <1>3. Listed'
    BY <1>a, <1>b, Numbers DEF Listed
  <1>4. Posted'
    BY <1>a, <1>c, NoneYet DEF Posted
  <1>5. Working'
    BY <1>a DEF Working
  <1>6. Calling'
    BY <1>a DEF Calling
  <1> QED
    BY <1>1, <1>2, <1>3, <1>4, <1>5, <1>6

LEMMA UndeliveredControl ==
  ASSUME ControlInv, Undelivered
  PROVE  /\ ControlInv'
         /\ \A x \in Sids : \/ post'[x] = post[x]
                            \/ x = target /\ post'[x] = NoPost /\ post[x].at = "sent"
  <1> USE DEF ControlInv
  <1>a. /\ target \in Sids /\ target \in subscribers /\ target' = NoSid /\ target # NoSid
        /\ post[target].at # "answered"
        /\ UNCHANGED <<value, setting, notifier, event, todo, work,
                       sid, key, known, call, made, dropped, blind>>
    BY Numbers DEF Undelivered, Listed, Calling, controlVars
  <1>b. /\ subscribers' = subscribers \ {target}
        /\ count' \in [Sids -> 0..NotifyCountMax]
        /\ \A x \in Sids : count'[x] = IF x = target THEN 0 ELSE count[x]
    BY RemovesFrom DEF Undelivered
  <1>c. /\ post' \in [Sids -> PostState]
        /\ \A x \in Sids : \/ post'[x] = post[x]
                           \/ x = target /\ post'[x] = NoPost /\ post[x].at = "sent"
    <2>1. CASE post[target].at = "sent" /\ post' = [post EXCEPT ![target] = NoPost]
      BY <2>1, <1>a, NoneYet, PostMoves
    <2>2. CASE UNCHANGED post
      BY <2>2 DEF Posted
    <2> QED
      BY <2>1, <2>2 DEF Undelivered
  <1>1. ValuesTyped'
    BY <1>a DEF ValuesTyped
  <1>2. Notifying'
    BY <1>a DEF Notifying
  <1>3. Listed'
    BY <1>a, <1>b, Numbers DEF Listed
  <1>4. Posted'
    <2>1. work[<<"subscribe", target>>] # "received"
      BY <1>a DEF Working
    <2> QED
      BY <1>a, <1>b, <1>c, <2>1, NoneYet DEF Posted
  <1>5. Working'
    BY <1>a, <1>b DEF Working
  <1>6. Calling'
    BY <1>a DEF Calling
  <1> QED
    BY <1>1, <1>2, <1>3, <1>4, <1>5, <1>6, <1>c

LEMMA UnlocksControl ==
  ASSUME ControlInv, Unlocks
  PROVE  /\ ControlInv'
         /\ \A s \in Setters : setting'[s] = IF s = notifier THEN {} ELSE setting[s]
         /\ \A x \in Sids : work'[<<"subscribe", x>>] =
              IF x = notifier THEN "none" ELSE work[<<"subscribe", x>>]
  <1> USE DEF ControlInv
  <1>a. /\ notifier # Nobody /\ notifier' = Nobody /\ event' = {} /\ todo = {} /\ target = NoSid
        /\ UNCHANGED <<value, subscribers, count, todo, target, post,
                       sid, key, known, call, made, dropped, blind>>
    BY DEF Unlocks, EndsNotifying, controlVars
  <1>b. /\ setting' \in [Setters -> SUBSET Variables]
        /\ \A s \in Setters : setting'[s] = IF s = notifier THEN {} ELSE setting[s]
    BY DEF Unlocks, EndsNotifying, ValuesTyped
  <1>c. /\ work' \in [Kinds \X Sids -> WorkPc]
        /\ \A x \in Sids : work'[<<"subscribe", x>>] =
             IF x = notifier THEN "none" ELSE work[<<"subscribe", x>>]
    <2>1. CASE notifier \in Sids
      <3>1. Work("subscribe", notifier, "none") /\ "none" \in WorkPc /\ "subscribe" \in Kinds
        BY <2>1 DEF Unlocks, EndsNotifying, Work, WorkPc, Kinds
      <3> QED
        BY <3>1, <2>1, WorkMoves
    <2>2. CASE notifier \notin Sids
      BY <2>2 DEF Unlocks, EndsNotifying, Working
    <2> QED
      BY <2>1, <2>2
  <1>1. ValuesTyped'
    BY <1>a, <1>b DEF ValuesTyped
  <1>2. Notifying'
    BY <1>a, Numbers DEF Notifying
  <1>3. Listed'
    BY <1>a DEF Listed
  <1>4. Posted'
    BY <1>a, <1>c DEF Posted
  <1>5. Working'
    BY <1>a, <1>c, Numbers DEF Working
  <1>6. Calling'
    BY <1>a DEF Calling
  <1> QED
    BY <1>1, <1>2, <1>3, <1>4, <1>5, <1>6, <1>b, <1>c

\* Who takes the lock of the service has some of the subscribers to notify.
LEMMA BeginsControl ==
  ASSUME ControlInv, NEW n, NEW some \in SUBSET Variables, BeginsNotifying(n, some)
  PROVE  /\ notifier = Nobody /\ notifier' = n /\ event' = some /\ event = {}
         /\ target = NoSid /\ todo = {} /\ todo' = subscribers' /\ subscribers' \subseteq subscribers
         /\ \A x \in Sids : count'[x] = count[x] \/ x \notin subscribers'
         /\ UNCHANGED <<value, setting, target, post, sid, key, known, call, made, dropped, blind>>
         /\ ValuesTyped' /\ Listed' /\ Calling'
  <1> USE DEF ControlInv
  <1>1. /\ notifier = Nobody /\ notifier' = n /\ event' = some /\ todo' = subscribers'
        /\ UNCHANGED <<value, setting, target, post, sid, key, known, call, made, dropped, blind>>
    BY DEF BeginsNotifying, controlVars
  <1>2. target = NoSid /\ event = {} /\ todo = {}
    BY <1>1 DEF Notifying
  <1>3. PICK expired \in SUBSET subscribers : Removes(expired)
    BY DEF BeginsNotifying
  <1>4. /\ subscribers' = subscribers \ expired
        /\ count' \in [Sids -> 0..NotifyCountMax]
        /\ \A x \in Sids : count'[x] = IF x \in expired THEN 0 ELSE count[x]
    BY <1>3, RemovesFrom
  <1>5. ValuesTyped' /\ Calling'
    BY <1>1 DEF ValuesTyped, Calling
  <1>6. Listed'
    <2>1. NoSid \notin 1..made
      BY DEF NoSid
    <2> QED
      BY <1>1, <1>2, <1>4, <2>1 DEF Listed
  <1> QED
    BY <1>1, <1>2, <1>4, <1>5, <1>6

LEMMA NotifiesChangeControl ==
  ASSUME ControlInv, NEW s \in Setters, NotifiesChange(s)
  PROVE  ControlInv'
  <1> USE DEF ControlInv
  <1>1. /\ setting[s] # {} /\ setting[s] \in SUBSET Variables /\ UNCHANGED work
        /\ BeginsNotifying(s, setting[s])
    BY DEF NotifiesChange, ValuesTyped
  <1>2. /\ notifier = Nobody /\ notifier' = s /\ event' = setting[s]
        /\ target = NoSid /\ todo' = subscribers' /\ subscribers' \subseteq subscribers
        /\ UNCHANGED <<setting, target, post, call, made>>
        /\ ValuesTyped' /\ Listed' /\ Calling'
    BY <1>1, BeginsControl
  <1>3. Notifying'
    BY <1>1, <1>2, Numbers DEF Notifying
  <1>4. Posted'
    BY <1>1, <1>2 DEF Posted
  <1>5. Working'
    BY <1>1, <1>2, Numbers DEF Working
  <1> QED
    BY <1>2, <1>3, <1>4, <1>5

LEMMA NotifiesAllControl ==
  ASSUME ControlInv, NEW x \in Sids, NotifiesAll(x)
  PROVE  /\ ControlInv'
         /\ work[<<"subscribe", x>>] = "answered"
         /\ \A y \in Sids : work'[<<"subscribe", y>>] =
              IF y = x THEN "notifying" ELSE work[<<"subscribe", y>>]
  <1> USE DEF ControlInv
  <1>1. work[<<"subscribe", x>>] = "answered" /\ BeginsNotifying(x, Variables)
    BY DEF NotifiesAll
  <1>2. /\ notifier = Nobody /\ notifier' = x /\ event' = Variables
        /\ target = NoSid /\ todo' = subscribers' /\ subscribers' \subseteq subscribers
        /\ UNCHANGED <<setting, target, post, call, made>>
        /\ ValuesTyped' /\ Listed' /\ Calling'
    BY <1>1, BeginsControl
  <1>3. /\ work' \in [Kinds \X Sids -> WorkPc]
        /\ \A y \in Sids : work'[<<"subscribe", y>>] =
             IF y = x THEN "notifying" ELSE work[<<"subscribe", y>>]
    <2>1. "subscribe" \in Kinds /\ "notifying" \in WorkPc /\ Work("subscribe", x, "notifying")
      BY DEF Kinds, WorkPc, NotifiesAll
    <2> QED
      BY <2>1, WorkMoves
  <1>4. Notifying'
    BY <1>2, Numbers DEF Notifying
  <1>5. Posted'
    BY <1>1, <1>2, <1>3 DEF Posted
  <1>6. Working'
    BY <1>1, <1>2, <1>3, Numbers DEF Working
  <1> QED
    BY <1>1, <1>2, <1>3, <1>4, <1>5, <1>6

--------------------------------------------------------------------------------
\* The steps of the device's workers.
LEMMA ListsSubscriberControl ==
  ASSUME ControlInv, NEW x \in Sids, ListsSubscriber(x)
  PROVE  /\ ControlInv'
         /\ subscribers' = subscribers \cup {x} /\ x \notin subscribers
         /\ post[x].at = "none" /\ x \notin todo /\ x # target
         /\ \A y \in Sids : work'[<<"subscribe", y>>] =
              IF y = x THEN "listed" ELSE work[<<"subscribe", y>>]
  <1> USE DEF ControlInv
  <1>1. /\ work[<<"subscribe", x>>] = "received" /\ subscribers' = subscribers \cup {x}
        /\ UNCHANGED <<value, setting, count, notifier, event, todo, target, post,
                       sid, key, known, call, made, dropped, blind>>
    BY DEF ListsSubscriber, controlVars
  <1>2. /\ work' \in [Kinds \X Sids -> WorkPc]
        /\ \A y \in Sids : work'[<<"subscribe", y>>] =
             IF y = x THEN "listed" ELSE work[<<"subscribe", y>>]
    <2>1. "subscribe" \in Kinds /\ "listed" \in WorkPc /\ Work("subscribe", x, "listed")
      BY DEF Kinds, WorkPc, ListsSubscriber
    <2> QED
      BY <2>1, WorkMoves
  <1>3. /\ x \notin subscribers /\ ~(x > made)
    BY <1>1 DEF Working
  <1>4. x \in 1..made
    BY <1>3, Numbers DEF Calling
  <1>5. x \notin todo /\ x # target /\ post[x].at = "none"
    <2>1. x \notin todo /\ x # target
      BY <1>3, Numbers DEF Listed
    <2> QED
      BY <1>1, <2>1 DEF Posted
  <1>6. ValuesTyped' /\ Calling' /\ Notifying'
    BY <1>1 DEF ValuesTyped, Calling, Notifying
  <1>7. Listed'
    BY <1>1, <1>4 DEF Listed
  <1>8. Posted'
    BY <1>1, <1>2, <1>5 DEF Posted
  <1>9. Working'
    BY <1>1, <1>2, <1>3 DEF Working
  <1> QED
    BY <1>1, <1>2, <1>3, <1>5, <1>6, <1>7, <1>8, <1>9

LEMMA AnswersSubscribeControl ==
  ASSUME ControlInv, NEW x \in Sids, AnswersSubscribe(x)
  PROVE  /\ ControlInv'
         /\ call'.by = call.by /\ call'.kind = call.kind /\ call'.sid = call.sid
         /\ \A y \in Sids : work'[<<"subscribe", y>>] =
              IF y = x THEN "answered" ELSE work[<<"subscribe", y>>]
  <1> USE DEF ControlInv
  <1>1. /\ work[<<"subscribe", x>>] = "listed"
        /\ Reply("subscribe", x, "ok")
        /\ UNCHANGED <<value, setting, subscribers, count, notifier, event, todo, target, post,
                       sid, key, known, made, dropped, blind>>
    BY DEF AnswersSubscribe, deviceVars
  <1>2. /\ work' \in [Kinds \X Sids -> WorkPc]
        /\ \A y \in Sids : work'[<<"subscribe", y>>] =
             IF y = x THEN "answered" ELSE work[<<"subscribe", y>>]
    <2>1. "subscribe" \in Kinds /\ "answered" \in WorkPc /\ Work("subscribe", x, "answered")
      BY DEF Kinds, WorkPc, AnswersSubscribe
    <2> QED
      BY <2>1, WorkMoves
  <1>3. Calling' /\ call'.by = call.by /\ call'.kind = call.kind /\ call'.sid = call.sid
    BY <1>1, ReplyControl
  <1>4. ValuesTyped' /\ Listed' /\ Notifying'
    BY <1>1 DEF ValuesTyped, Listed, Notifying
  <1>5. Posted'
    BY <1>1, <1>2, <1>3 DEF Posted
  <1>6. Working'
    BY <1>1, <1>2 DEF Working
  <1> QED
    BY <1>2, <1>3, <1>4, <1>5, <1>6

LEMMA RenewsSubscriberControl ==
  ASSUME ControlInv, NEW x \in Sids, RenewsSubscriber(x)
  PROVE  /\ ControlInv'
         /\ call'.by = call.by /\ call'.kind = call.kind /\ call'.sid = call.sid
         /\ UNCHANGED <<deviceVars, post, work, sid, key, known, made, dropped, blind>>
  <1> USE DEF ControlInv
  <1> DEFINE reply == IF x \in subscribers THEN "ok" ELSE "failed"
  <1>1. /\ Reply("renew", x, reply) /\ reply \in {"ok", "failed"}
        /\ UNCHANGED <<value, setting, subscribers, count, notifier, event, todo, target, post,
                       work, sid, key, known, made, dropped, blind>>
    BY DEF RenewsSubscriber, deviceVars
  <1> HIDE DEF reply
  <1>2. Calling' /\ call'.by = call.by /\ call'.kind = call.kind /\ call'.sid = call.sid
    BY <1>1, ReplyControl
  <1>3. ValuesTyped' /\ Listed' /\ Notifying' /\ Working'
    BY <1>1 DEF ValuesTyped, Listed, Notifying, Working
  <1>4. Posted'
    BY <1>1, <1>2 DEF Posted
  <1> QED
    BY <1>1, <1>2, <1>3, <1>4 DEF deviceVars

LEMMA RemovesSubscriberControl ==
  ASSUME ControlInv, NEW x \in Sids, RemovesSubscriber(x)
  PROVE  /\ ControlInv'
         /\ call'.by = call.by /\ call'.kind = call.kind /\ call'.sid = call.sid
         /\ \A y \in Sids : work'[<<"subscribe", y>>] = work[<<"subscribe", y>>]
         /\ \A y \in Sids : count'[y] = IF y = x THEN 0 ELSE count[y]
  <1> USE DEF ControlInv
  <1> DEFINE reply == IF x \in subscribers THEN "ok" ELSE "failed"
  <1>1. /\ notifier = Nobody /\ Removes({x})
        /\ Reply("unsubscribe", x, reply) /\ reply \in {"ok", "failed"}
        /\ UNCHANGED <<value, setting, notifier, event, todo, target, post,
                       sid, key, known, made, dropped, blind>>
    BY DEF RemovesSubscriber
  <1> HIDE DEF reply
  <1>2. /\ work' \in [Kinds \X Sids -> WorkPc]
        /\ \A y \in Sids : work'[<<"subscribe", y>>] = work[<<"subscribe", y>>]
    <2>1. "unsubscribe" \in Kinds /\ "none" \in WorkPc /\ Work("unsubscribe", x, "none")
      BY DEF Kinds, WorkPc, RemovesSubscriber
    <2> QED
      BY <2>1, WorkMoves
  <1>3. /\ subscribers' = subscribers \ {x} /\ todo = {} /\ target = NoSid
        /\ count' \in [Sids -> 0..NotifyCountMax]
        /\ \A y \in Sids : count'[y] = IF y = x THEN 0 ELSE count[y]
    BY <1>1, RemovesFrom DEF Notifying
  <1>4. Calling' /\ call'.by = call.by /\ call'.kind = call.kind /\ call'.sid = call.sid
    BY <1>1, ReplyControl
  <1>5. ValuesTyped' /\ Notifying'
    BY <1>1 DEF ValuesTyped, Notifying
  <1>6. Listed'
    BY <1>1, <1>3 DEF Listed
  <1>7. Posted'
    BY <1>1, <1>2, <1>3, <1>4 DEF Posted
  <1>8. Working'
    BY <1>1, <1>2, <1>3 DEF Working
  <1> QED
    BY <1>2, <1>3, <1>4, <1>5, <1>6, <1>7, <1>8

--------------------------------------------------------------------------------
\* The steps of the control point: the handler of a NOTIFY answers, which is kept if
\* the device still waits for it.
LEMMA AnsweredControl ==
  ASSUME ControlInv, NEW x \in Sids, Answered(x), post[x].at # "none", call'.by # x,
         \A y \in Sids \ {x} : call.by = y <=> call'.by = y,
         UNCHANGED <<target, made, subscribers, work>>
  PROVE  /\ Posted'
         /\ \A y \in Sids \ {x} : post'[y] = post[y]
         /\ x # target => post'[x] = NoPost
         /\ x = target => /\ post'[x].at = "answered"
                          /\ post'[x].seq = post[x].seq /\ post'[x].body = post[x].body
  <1> USE DEF ControlInv
  <1> DEFINE p == IF target = x THEN [post[x] EXCEPT !.at = "answered"] ELSE NoPost
  <1>1. post[x] \in PostState
    BY DEF Posted
  <1>2. /\ p \in PostState
        /\ x # target => p = NoPost
        /\ x = target => p.at = "answered" /\ p.seq = post[x].seq /\ p.body = post[x].body
    BY <1>1, NoneYet DEF PostState
  <1>3. post' = [post EXCEPT ![x] = p]
    BY DEF Answered
  <1> HIDE DEF p
  <1>4. /\ post' \in [Sids -> PostState]
        /\ \A y \in Sids : post'[y] = IF y = x THEN p ELSE post[y]
    BY <1>2, <1>3, PostMoves
  <1>5. p.at \in {"none", "answered"} /\ (x # target => p.at = "none")
    BY <1>2, NoneYet
  <1>6. ~(x > made)
    BY DEF Posted
  <1>7. Posted'
    <2>1. target' # NoSid => post'[target'].at # "none"
      <3>1. CASE target = x
        BY <3>1, <1>2, <1>4
      <3>2. CASE target # x /\ target # NoSid
        <4>1. target \in Sids
          BY <3>2, Numbers DEF Listed, Calling
        <4> QED
          BY <3>2, <4>1, <1>4 DEF Posted
      <3> QED
        BY <3>1, <3>2
    <2>2. ASSUME NEW y \in Sids
          PROVE  /\ post'[y].at = "sent" => post'[y].body \in Bodies
                 /\ post'[y].at = "gap" <=> call'.by = y
                 /\ y > made' => post'[y].at = "none"
                 /\ post'[y].at # "none" /\ y # target' =>
                      /\ y \notin subscribers' /\ work'[<<"subscribe", y>>] # "received"
                      /\ post'[y].at # "answered"
      <3>1. CASE y = x
        BY <3>1, <1>4, <1>5, <1>6
      <3>2. CASE y # x
        BY <3>2, <1>4 DEF Posted
      <3> QED
        BY <3>1, <3>2
    <2> QED
      BY <1>4, <2>1, <2>2 DEF Posted
  <1> QED
    BY <1>2, <1>4, <1>7

LEMMA DropsEventControl ==
  ASSUME ControlInv, NEW x \in Sids, DropsEvent(x)
  PROVE  ControlInv'
  <1> USE DEF ControlInv
  <1>1. /\ Answered(x) /\ post[x].at = "sent"
        /\ dropped' \in BOOLEAN /\ blind' \in BOOLEAN
        /\ UNCHANGED <<value, setting, subscribers, count, notifier, event, todo, target,
                       work, sid, key, known, call, made>>
    BY DEF DropsEvent, Arrived, deviceVars, controlVars, Calling
  <1>2. call.by # x
    BY <1>1 DEF Posted
  <1>3. Posted'
    BY <1>1, <1>2, AnsweredControl
  <1>4. ValuesTyped' /\ Listed' /\ Notifying' /\ Working'
    BY <1>1 DEF ValuesTyped, Listed, Notifying, Working
  <1>5. Calling'
    BY <1>1 DEF Calling
  <1> QED
    BY <1>3, <1>4, <1>5

LEMMA TakesEventControl ==
  ASSUME ControlInv, NEW x \in Sids, TakesEvent(x)
  PROVE  /\ ControlInv'
         /\ DOMAIN post[x].body \subseteq Variables
         /\ \A v \in Variables :
              known'[v] = IF v \in DOMAIN post[x].body THEN post[x].body[v] ELSE known[v]
  <1> USE DEF ControlInv
  <1>1. /\ Answered(x) /\ post[x].at = "sent"
        /\ UNCHANGED <<value, setting, subscribers, count, notifier, event, todo, target,
                       work, sid, call, made, dropped, blind>>
    BY DEF TakesEvent, Arrived, deviceVars
  <1>2. call.by # x /\ post[x].body \in Bodies /\ post[x].seq \in 0..NotifyCountMax
    BY <1>1 DEF Posted, PostState
  <1>3. PICK some \in SUBSET Variables : post[x].body \in [some -> 0..MaxSets]
    BY <1>2 DEF Bodies
  <1>4. /\ known' \in [Variables -> 0..MaxSets]
        /\ \A v \in Variables :
             known'[v] = IF v \in DOMAIN post[x].body THEN post[x].body[v] ELSE known[v]
    BY <1>3 DEF TakesEvent, ValuesTyped
  <1>5. key' \in 0..NotifyCountMax
    BY <1>2, Numbers DEF TakesEvent, KeyAfter
  <1>6. Posted'
    BY <1>1, <1>2, AnsweredControl
  <1>7. Listed' /\ Notifying' /\ Working'
    BY <1>1 DEF Listed, Notifying, Working
  <1>8. ValuesTyped'
    BY <1>1, <1>4 DEF ValuesTyped
  <1>9. Calling'
    BY <1>1, <1>5 DEF Calling
  <1> QED
    BY <1>3, <1>4, <1>6, <1>7, <1>8, <1>9

LEMMA FindsGapControl ==
  ASSUME ControlInv, NEW x \in Sids, FindsGap(x)
  PROVE  /\ ControlInv'
         /\ call = NoCall /\ call'.kind = "unsubscribe"
         /\ \A y \in Sids : IF y = x THEN post'[y].at = "gap" ELSE post'[y] = post[y]
         /\ post'[x].seq = post[x].seq
         /\ \A y \in Sids : work'[<<"subscribe", y>>] = work[<<"subscribe", y>>]
  <1> USE DEF ControlInv
  <1>1. /\ Arrived(x) /\ sid = x /\ post[x].at = "sent"
        /\ Request(x, "unsubscribe", x)
        /\ UNCHANGED <<value, setting, subscribers, count, notifier, event, todo, target,
                       sid, key, known, made, dropped, blind>>
    BY DEF FindsGap, Arrived, deviceVars
  <1>2. sid # NoSid
    BY <1>1, Numbers
  <1>3. call = NoCall
    BY <1>1, <1>2 DEF Arrived, ControlPointLocked, Calling
  <1>4. call' = [by |-> x, kind |-> "unsubscribe", sid |-> x, reply |-> "none"]
    BY <1>1 DEF Request
  <1>5. /\ work' \in [Kinds \X Sids -> WorkPc]
        /\ \A y \in Sids : work'[<<"subscribe", y>>] = work[<<"subscribe", y>>]
    <2>1. "unsubscribe" \in Kinds /\ "received" \in WorkPc /\ Work("unsubscribe", x, "received")
      BY <1>1 DEF Kinds, WorkPc, Request
    <2> QED
      BY <2>1, WorkMoves
  <1>6. /\ post' \in [Sids -> PostState]
        /\ \A y \in Sids : IF y = x THEN post'[y].at = "gap" ELSE post'[y] = post[y]
        /\ post'[x].seq = post[x].seq
    <2> DEFINE p == [post[x] EXCEPT !.at = "gap"]
    <2>1. p \in PostState /\ p.at = "gap" /\ p.seq = post[x].seq
      BY DEF Posted, PostState
    <2>2. post' = [post EXCEPT ![x] = p]
      BY DEF FindsGap
    <2> HIDE DEF p
    <2> QED
      BY <2>1, <2>2, PostMoves
  <1>7. Posted'
    <2>1. /\ ~(x > made) /\ call.by = 0 /\ call'.by = x
          /\ x # target => x \notin subscribers /\ work[<<"subscribe", x>>] # "received"
      BY <1>1, <1>3, <1>4, NoneYet DEF Posted
    <2>2. target' # NoSid => post'[target'].at # "none"
      <3>1. CASE target = x
        BY <3>1, <1>1, <1>6
      <3>2. CASE target # x /\ target # NoSid
        <4>1. target \in Sids
          BY <3>2, Numbers DEF Listed, Calling
        <4> QED
          BY <3>2, <4>1, <1>1, <1>6 DEF Posted
      <3> QED
        BY <3>1, <3>2, <1>1
    <2>3. ASSUME NEW y \in Sids
          PROVE  /\ post'[y].at = "sent" => post'[y].body \in Bodies
                 /\ post'[y].at = "gap" <=> call'.by = y
                 /\ y > made' => post'[y].at = "none"
                 /\ post'[y].at # "none" /\ y # target' =>
                      /\ y \notin subscribers' /\ work'[<<"subscribe", y>>] # "received"
                      /\ post'[y].at # "answered"
      <3>1. CASE y = x
        BY <3>1, <1>1, <1>5, <1>6, <2>1
      <3>2. CASE y # x
        <4>1. 0 # y
          BY Numbers
        <4> QED
          BY <3>2, <4>1, <1>1, <1>5, <1>6, <2>1 DEF Posted
      <3> QED
        BY <3>1, <3>2
    <2> QED
      BY <1>6, <2>2, <2>3 DEF Posted
  <1>8. ValuesTyped' /\ Listed' /\ Notifying'
    BY <1>1 DEF ValuesTyped, Listed, Notifying
  <1>9. Working'
    BY <1>1, <1>5 DEF Working
  <1>10. Calling'
    <2>1. /\ call' \in CallState /\ call'.kind = "unsubscribe" /\ call'.by = x /\ call'.sid = x
      BY <1>4, Numbers DEF CallState
    <2> QED
      BY <2>1, <1>1, <1>2, Numbers DEF Calling
  <1> QED
    BY <1>3, <1>4, <1>5, <1>6, <1>7, <1>8, <1>9, <1>10

--------------------------------------------------------------------------------
\* The calls: a new SID, by the application or by the handler that has unsubscribed.
SubscribesAs(by) ==
  /\ made < MaxSids /\ made' = made + 1
  /\ key' = 0 /\ sid' = NoSid
  /\ Request(by, "subscribe", made + 1)
  /\ dropped' = FALSE /\ blind' = FALSE
  /\ UNCHANGED <<deviceVars, post, known>>

LEMMA SubscribesAsControl ==
  ASSUME ControlInv, SubscribesAs(call.by)
  PROVE  /\ ControlInv'
         /\ made + 1 \in Sids /\ post[made + 1].at = "none" /\ made + 1 \notin subscribers
         /\ count[made + 1] = 0
         /\ \A y \in Sids : work'[<<"subscribe", y>>] =
              IF y = made + 1 THEN "received" ELSE work[<<"subscribe", y>>]
  <1> USE DEF ControlInv
  <1>1. /\ made \in Nat /\ made < MaxSids /\ made' = made + 1
        /\ made + 1 \in Sids /\ made + 1 > made /\ 1..made \subseteq 1..(made + 1)
        /\ made + 1 \notin 1..made
    BY Numbers DEF Calling, SubscribesAs
  <1>2. /\ key' = 0 /\ sid' = NoSid /\ dropped' = FALSE /\ blind' = FALSE
        /\ UNCHANGED <<value, setting, subscribers, count, notifier, event, todo, target, post,
                       known>>
        /\ call' = [by |-> call.by, kind |-> "subscribe", sid |-> made + 1, reply |-> "none"]
    BY DEF SubscribesAs, Request, deviceVars
  <1>3. /\ work' \in [Kinds \X Sids -> WorkPc]
        /\ \A y \in Sids : work'[<<"subscribe", y>>] =
             IF y = made + 1 THEN "received" ELSE work[<<"subscribe", y>>]
    <2>1. "subscribe" \in Kinds /\ "received" \in WorkPc /\ Work("subscribe", made + 1, "received")
      BY DEF Kinds, WorkPc, SubscribesAs, Request
    <2> QED
      BY <1>1, <2>1, WorkMoves
  <1>4. /\ post[made + 1].at = "none" /\ work[<<"subscribe", made + 1>>] = "none"
        /\ made + 1 \notin subscribers
    BY <1>1 DEF Posted, Working, Listed
  <1>5. count[made + 1] = 0
    BY <1>1, <1>4 DEF Listed
  <1>6. ValuesTyped' /\ Notifying'
    BY <1>2 DEF ValuesTyped, Notifying
  <1>7. Listed'
    BY <1>1, <1>2 DEF Listed
  <1>8. \A y \in Sids : y > made' => y > made
    BY <1>1, Numbers
  <1>9. Posted'
    BY <1>1, <1>2, <1>3, <1>4, <1>8 DEF Posted
  <1>10. Working'
    BY <1>1, <1>2, <1>3, <1>4, <1>8 DEF Working
  <1>11. Calling'
    <2>1. call.by \in {App} \cup Sids /\ (call.by # App => call.by <= made)
      BY DEF Calling, CallState
    <2>2. /\ call' \in CallState /\ call'.kind = "subscribe" /\ call'.by = call.by
          /\ call'.sid = made + 1
      BY <1>1, <1>2, <2>1, Numbers DEF CallState
    <2>3. call'.by < call'.sid /\ (call'.by # App => call'.by <= made')
      BY <1>1, <2>1, <2>2, Numbers
    <2>4. made' \in 0..MaxSids /\ sid' \in 0..made' /\ call'.sid \in 0..made' /\ call'.sid # NoSid
      BY <1>1, <1>2, <2>2, Numbers
    <2>5. key' \in 0..NotifyCountMax
      BY <1>2, Numbers
    <2> QED
      BY <1>2, <2>2, <2>3, <2>4, <2>5 DEF Calling
  <1> QED
    BY <1>1, <1>3, <1>4, <1>5, <1>6, <1>7, <1>9, <1>10, <1>11

\* The two ways to a new SID.
LEMMA SubscribesIsAs == ASSUME Subscribes PROVE SubscribesAs(call.by)
  <1>1. call = NoCall /\ sid = NoSid
    BY DEF Subscribes
  <1>2. call.by = App
    BY <1>1 DEF NoCall
  <1> QED
    BY <1>1, <1>2 DEF Subscribes, SubscribesAs

LEMMA RenewsOrEndsControl ==
  ASSUME ControlInv, NEW kind \in {"renew", "unsubscribe"}, RenewsOrEnds(kind)
  PROVE  /\ ControlInv'
         /\ call = NoCall /\ call'.by = App /\ call'.kind = kind
         /\ \A y \in Sids : work'[<<"subscribe", y>>] = work[<<"subscribe", y>>]
  <1> USE DEF ControlInv
  <1>1. /\ call = NoCall /\ sid # NoSid
        /\ call' = [by |-> App, kind |-> kind, sid |-> sid, reply |-> "none"]
        /\ UNCHANGED <<value, setting, subscribers, count, notifier, event, todo, target, post,
                       sid, key, known, made, dropped, blind>>
    BY DEF RenewsOrEnds, Request, deviceVars
  <1>2. sid \in Sids
    BY <1>1, Numbers DEF Calling
  <1>3. /\ work' \in [Kinds \X Sids -> WorkPc]
        /\ \A y \in Sids : work'[<<"subscribe", y>>] = work[<<"subscribe", y>>]
    <2>1. CASE kind = "renew"
      BY <2>1 DEF RenewsOrEnds, Request, Working
    <2>2. CASE kind = "unsubscribe"
      <3>1. "unsubscribe" \in Kinds /\ "received" \in WorkPc /\ Work("unsubscribe", sid, "received")
        BY <2>2 DEF Kinds, WorkPc, RenewsOrEnds, Request
      <3> QED
        BY <1>2, <3>1, WorkMoves
    <2> QED
      BY <2>1, <2>2
  <1>4. ValuesTyped' /\ Notifying' /\ Listed'
    BY <1>1 DEF ValuesTyped, Notifying, Listed
  <1>5. call'.by = App /\ call'.kind = kind /\ call'.sid = sid /\ call' \in CallState
    BY <1>1, <1>2, Numbers DEF CallState
  <1>6. Posted'
    <2>1. call.by = call'.by
      BY <1>1, <1>5 DEF NoCall
    <2> QED
      BY <1>1, <1>3, <2>1 DEF Posted
  <1>7. Working'
    BY <1>1, <1>3 DEF Working
  <1>8. Calling'
    BY <1>1, <1>5 DEF Calling
  <1> QED
    BY <1>1, <1>3, <1>4, <1>5, <1>6, <1>7, <1>8

\* How a call ends, when no other is made.
LeavesCall(success) ==
  /\ sid' = IF success /\ call.kind # "unsubscribe" THEN call.sid ELSE NoSid
  /\ call' = NoCall
  /\ IF call.by \in Sids THEN Answered(call.by) ELSE UNCHANGED post
  /\ UNCHANGED <<made, key, work, dropped, blind, deviceVars, known>>

LEMMA EndsCallAs ==
  ASSUME NEW success \in BOOLEAN, EndsCall(success)
  PROVE  \/ LeavesCall(success)
         \/ call.by \in Sids /\ call.kind = "unsubscribe" /\ SubscribesAs(call.by)
  BY DEF EndsCall, LeavesCall, SubscribesAs

LEMMA LeavesCallControl ==
  ASSUME ControlInv, NEW success \in BOOLEAN, LeavesCall(success)
  PROVE  /\ ControlInv'
         /\ \A y \in Sids :
              \/ post'[y] = post[y]
              \/ /\ post[y].at = "gap"
                 /\ y = call.by
                 /\ y # target => post'[y] = NoPost
                 /\ y = target => post'[y].at = "answered" /\ post'[y].seq = post[y].seq
  <1> USE DEF ControlInv
  <1>1. /\ sid' = IF success /\ call.kind # "unsubscribe" THEN call.sid ELSE NoSid
        /\ call' = NoCall
        /\ UNCHANGED <<value, setting, subscribers, count, notifier, event, todo, target, work,
                       key, known, made, dropped, blind>>
    BY DEF LeavesCall, deviceVars
  <1>2. Posted' /\ \A y \in Sids :
                     \/ post'[y] = post[y]
                     \/ /\ post[y].at = "gap"
                        /\ y = call.by
                        /\ y # target => post'[y] = NoPost
                        /\ y = target => post'[y].at = "answered" /\ post'[y].seq = post[y].seq
    <2>1. CASE call.by \in Sids
      <3>1. post[call.by].at = "gap" /\ Answered(call.by)
        BY <2>1 DEF Posted, LeavesCall
      <3>2. call'.by # call.by /\ \A y \in Sids \ {call.by} : call.by = y <=> call'.by = y
        BY <2>1, <1>1, NoneYet, Numbers
      <3>3. UNCHANGED <<target, made, subscribers, work>>
        BY <1>1
      <3>4. /\ Posted'
            /\ \A y \in Sids \ {call.by} : post'[y] = post[y]
            /\ call.by # target => post'[call.by] = NoPost
            /\ call.by = target => /\ post'[call.by].at = "answered"
                                   /\ post'[call.by].seq = post[call.by].seq
        BY <2>1, <3>1, <3>2, <3>3, AnsweredControl
      <3> QED
        BY <3>1, <3>4
    <2>2. CASE call.by \notin Sids
      <3>1. UNCHANGED post /\ \A y \in Sids : call.by # y /\ call'.by # y
        BY <2>2, <1>1, NoneYet, Numbers DEF LeavesCall
      <3> QED
        BY <1>1, <3>1 DEF Posted
    <2> QED
      BY <2>1, <2>2
  <1>3. ValuesTyped' /\ Listed' /\ Notifying' /\ Working'
    BY <1>1 DEF ValuesTyped, Listed, Notifying, Working
  <1>4. Calling'
    <2>1. sid' \in 0..made
      BY <1>1, Numbers DEF Calling
    <2>2. call'.sid \in 0..made
      BY <1>1, NoneYet, Numbers DEF Calling
    <2>3. call' \in CallState /\ call'.kind = "none" /\ call'.by = App
      BY <1>1, NoneYet, Numbers
    <2> QED
      BY <1>1, <2>1, <2>2, <2>3 DEF Calling
  <1> QED
    BY <1>2, <1>3, <1>4

--------------------------------------------------------------------------------
\* What a step can be, by the name of what it is for the invariants.
CallStep ==
  \/ SubscribesAs(call.by)
  \/ RenewsOrEnds("renew") \/ RenewsOrEnds("unsubscribe")
  \/ \E success \in BOOLEAN : LeavesCall(success)

LEMMA NextCases ==
  ASSUME Next
  PROVE  \/ \E s \in Setters : NotifiesChange(s) \/ \E v \in Variables : Sets(s, v)
         \/ NotifierStep
         \/ \E x \in Sids : WorkerStep(x) \/ HandlerStep(x)
         \/ CallStep
  <1>1. CASE Subscribes
    BY <1>1, SubscribesIsAs DEF CallStep
  <1>2. ASSUME NEW success \in BOOLEAN, EndsCall(success)
        PROVE  CallStep
    BY <1>2, EndsCallAs DEF CallStep
  <1>3. CASE Returns \/ TimesOut
    BY <1>3, <1>2 DEF Returns, TimesOut, CallEnds
  <1> QED
    BY <1>1, <1>3 DEF Next, CallStep

LEMMA StepControl == ControlInv /\ [Next]_vars => ControlInv'
  <1> SUFFICES ASSUME ControlInv, [Next]_vars PROVE ControlInv'
    OBVIOUS
  <1>1. ASSUME NEW s \in Setters, NotifiesChange(s) \/ \E v \in Variables : Sets(s, v)
        PROVE  ControlInv'
    BY <1>1, NotifiesChangeControl, SetsControl
  <1>2. CASE NotifierStep
    BY <1>2, PostsControl, DeliveredControl, UndeliveredControl, UnlocksControl DEF NotifierStep
  <1>3. ASSUME NEW x \in Sids, WorkerStep(x)
        PROVE  ControlInv'
    BY <1>3, ListsSubscriberControl, AnswersSubscribeControl, NotifiesAllControl,
       RenewsSubscriberControl, RemovesSubscriberControl DEF WorkerStep
  <1>4. ASSUME NEW x \in Sids, HandlerStep(x)
        PROVE  ControlInv'
    BY <1>4, DropsEventControl, TakesEventControl, FindsGapControl DEF HandlerStep
  <1>5. CASE CallStep
    BY <1>5, SubscribesAsControl, RenewsOrEndsControl, LeavesCallControl DEF CallStep
  <1>6. CASE UNCHANGED vars
    <2>1. UNCHANGED <<value, setting, subscribers, count, notifier, event, todo, target, post, work,
                      sid, key, known, call, made, dropped, blind>>
      BY <1>6 DEF vars, deviceVars, controlVars
    <2> QED
      BY <2>1 DEF ControlInv, ValuesTyped, Notifying, Listed, Posted, Working, Calling
  <1> QED
    BY <1>1, <1>2, <1>3, <1>4, <1>5, <1>6, NextCases

\* Every state has the control invariant: only under the lock of the service is
\* anything notified, a SID is listed once, and the device waits for one answer.
THEOREM ControlIsInvariant == Spec => []ControlInv
  BY InitControl, StepControl, PTL DEF Spec

\* The types, and who is where: only under the lock of the service is anything
\* notified, and a handler that found a gap is the one that calls the device.
THEOREM TypesHold == Spec => []TypeOK
  BY ControlIsInvariant, ControlTypes, PTL

--------------------------------------------------------------------------------
\* The values: what was posted is typed.
LEMMA BodyTyped ==
  ASSUME ControlInv, NEW x \in Sids, post[x].at = "sent"
  PROVE  /\ DOMAIN post[x].body \subseteq Variables
         /\ \A v \in DOMAIN post[x].body : post[x].body[v] \in 0..MaxSets
  <1>1. post[x].body \in Bodies
    BY DEF ControlInv, Posted
  <1>2. PICK some \in SUBSET Variables : post[x].body \in [some -> 0..MaxSets]
    BY <1>1 DEF Bodies
  <1> QED
    BY <1>2

\* A SID becomes that of the control point by a SUBSCRIBE that was under way for it.
LEMMA OursKept ==
  ASSUME ControlInv, CallStep, NEW x \in Sids, Ours(x)'
  PROVE  x = made + 1 \/ Ours(x)
  <1> USE DEF ControlInv
  <1>1. CASE SubscribesAs(call.by)
    <2>1. sid' = NoSid /\ call'.sid = made + 1
      BY <1>1 DEF SubscribesAs, Request
    <2> QED
      BY <2>1, Numbers DEF Ours, Awaited
  <1>2. ASSUME NEW kind \in {"renew", "unsubscribe"}, RenewsOrEnds(kind)
        PROVE  Ours(x)
    BY <1>2 DEF RenewsOrEnds, Request, Ours, Awaited
  <1>3. ASSUME NEW success \in BOOLEAN, LeavesCall(success)
        PROVE  Ours(x)
    <2>1. x # NoSid /\ call'.kind = "none"
      BY <1>3, NoneYet, Numbers DEF LeavesCall
    <2>2. sid' = x
      BY <2>1 DEF Ours, Awaited
    <2>3. call.sid = x /\ call.kind # "unsubscribe"
      BY <1>3, <2>1, <2>2 DEF LeavesCall
    <2>4. CASE call.kind = "subscribe"
      BY <2>3, <2>4 DEF Ours, Awaited
    <2>5. CASE call.kind = "renew"
      BY <2>3, <2>5 DEF Calling, Ours
    <2>6. call.kind # "none"
      BY <2>1, <2>3, NoneYet, Numbers DEF Calling
    <2> QED
      BY <2>3, <2>4, <2>5, <2>6 DEF Calling, CallState
  <1> QED
    BY <1>1, <1>2, <1>3 DEF CallStep

\* While values only grow and nothing else is sent or taken, what is sent stays fresh.
LEMMA FreshKept ==
  ASSUME ControlInv, ControlInv', Fresh, UNCHANGED known,
         \A v \in Variables : value[v] <= value'[v],
         \A x \in Sids : post'[x].at = "sent" => post'[x] = post[x] /\ (Ours(x)' => Ours(x))
  PROVE  Fresh'
  <1>1. /\ \A v \in Variables : known[v] \in Nat /\ value[v] \in Nat /\ value'[v] \in Nat
    BY Numbers DEF ControlInv, ValuesTyped
  <1>2. \A v \in Variables : known'[v] <= value'[v]
    BY <1>1 DEF Fresh
  <1>3. ASSUME NEW x \in Sids, post'[x].at = "sent", NEW v \in DOMAIN post'[x].body
        PROVE  post'[x].body[v] <= value'[v] /\ (Ours(x)' => known'[v] <= post'[x].body[v])
    <2>1. post'[x] = post[x] /\ post[x].at = "sent" /\ v \in DOMAIN post[x].body
      BY <1>3
    <2>2. v \in Variables /\ post[x].body[v] \in Nat
      BY <2>1, BodyTyped, Numbers
    <2>3. post[x].body[v] <= value[v] /\ (Ours(x) => known[v] <= post[x].body[v])
      BY <2>1 DEF Fresh
    <2> QED
      BY <1>1, <1>3, <2>1, <2>2, <2>3
  <1> QED
    BY <1>2, <1>3 DEF Fresh

LEMMA PostsFresh ==
  ASSUME ControlInv, ControlInv', Fresh, Posts
  PROVE  Fresh'
  <1>1. /\ UNCHANGED <<value, known, sid, call, event>>
        /\ \A x \in Sids : Ours(x)' <=> Ours(x)
    BY DEF Posts, controlVars, Ours, Awaited
  <1>2. \A v \in Variables : known'[v] <= value'[v]
    BY <1>1 DEF Fresh
  <1>3. ASSUME NEW x \in Sids, post'[x].at = "sent", NEW v \in DOMAIN post'[x].body
        PROVE  post'[x].body[v] <= value'[v] /\ (Ours(x)' => known'[v] <= post'[x].body[v])
    <2>1. CASE x = target'
      <3>1. post'[x].body = [u \in event |-> value[u]]
        <4>1. post'[x] = [at |-> "sent", seq |-> count[x], body |-> [u \in event |-> value[u]]]
          BY <2>1, PostsControl
        <4> QED
          BY <4>1
      <3>2. v \in event /\ v \in Variables /\ value[v] \in Nat
        BY <3>1, <1>3, Numbers DEF ControlInv, ValuesTyped
      <3>3. post'[x].body[v] = value'[v]
        BY <1>1, <3>1, <3>2
      <3>4. known'[v] <= value'[v] /\ value'[v] <= value'[v]
        BY <1>1, <1>2, <3>2
      <3> QED
        BY <3>3, <3>4
    <2>2. CASE x # target'
      <3>1. post'[x] = post[x]
        BY <2>2, PostsControl
      <3> QED
        BY <1>1, <1>3, <3>1 DEF Fresh
    <2> QED
      BY <2>1, <2>2
  <1> QED
    BY <1>2, <1>3 DEF Fresh

\* An event that is taken takes the control point forward.
LEMMA TakesForward ==
  ASSUME ControlInv, Fresh, NEW x \in Sids, TakesEvent(x)
  PROVE  \A v \in Variables :
           IF v \in DOMAIN post[x].body THEN known[v] <= known'[v] /\ known'[v] <= value[v]
           ELSE known'[v] = known[v]
  <1>1. post[x].at = "sent" /\ Ours(x)
    BY DEF TakesEvent, Arrived, Ours
  <1>2. \A v \in Variables :
          known'[v] = IF v \in DOMAIN post[x].body THEN post[x].body[v] ELSE known[v]
    BY TakesEventControl
  <1> QED
    BY <1>1, <1>2 DEF Fresh

LEMMA TakesFresh ==
  ASSUME ControlInv, ControlInv', Fresh, NEW x \in Sids, TakesEvent(x)
  PROVE  Fresh'
  <1>1. /\ sid = x /\ post[x].at = "sent" /\ Answered(x)
        /\ UNCHANGED <<value, sid, call, target, made, subscribers, work>>
    BY DEF TakesEvent, Arrived, deviceVars
  <1>2. \A v \in Variables : known'[v] <= value'[v]
    BY <1>1, TakesForward DEF Fresh
  <1>3. call.kind # "subscribe" /\ call.by # x
    BY <1>1, Numbers DEF ControlInv, Calling, Posted
  <1>4. /\ post'[x].at # "sent"
        /\ \A y \in Sids \ {x} : post'[y] = post[y]
    BY <1>1, <1>3, AnsweredControl, NoneYet
  <1>5. \A y \in Sids \ {x} : ~Ours(y)'
    BY <1>1, <1>3 DEF Ours, Awaited
  <1> QED
    BY <1>1, <1>2, <1>4, <1>5 DEF Fresh

LEMMA InitFresh == Init => Fresh
  <1> SUFFICES ASSUME Init PROVE Fresh
    OBVIOUS
  <1>1. \A v \in Variables : known[v] = 0 /\ value[v] = 0
    BY DEF Init
  <1>2. \A x \in Sids : post[x].at = "none"
    BY NoneYet DEF Init
  <1> QED
    BY <1>1, <1>2 DEF Fresh

LEMMA StepFresh ==
  ASSUME ControlInv, ControlInv', Fresh, [Next]_vars
  PROVE  Fresh'
  <1>1. \A v \in Variables : value[v] \in Nat
    BY Numbers DEF ControlInv, ValuesTyped
  <1>2. ASSUME UNCHANGED <<value, known, sid, call, post>>
        PROVE  Fresh'
    BY <1>1, <1>2, FreshKept DEF Ours, Awaited
  <1>3. ASSUME NEW s \in Setters, NEW v \in Variables, Sets(s, v)
        PROVE  Fresh'
    <2>1. \A u \in Variables : value[u] <= value'[u]
      BY <1>1, <1>3 DEF Sets, ControlInv, ValuesTyped
    <2> QED
      BY <1>3, <2>1, FreshKept DEF Sets, controlVars, Ours, Awaited
  <1>4. ASSUME NEW s \in Setters, NotifiesChange(s)
        PROVE  Fresh'
    BY <1>4, <1>2 DEF NotifiesChange, BeginsNotifying, controlVars
  <1>5. CASE Delivered
    <2>1. target \in Sids
      BY <1>5, Numbers DEF Delivered, ControlInv, Listed, Calling
    <2>2. \A x \in Sids : post'[x].at = "sent" => post'[x] = post[x]
      BY <1>5, <2>1, NoneYet DEF Delivered, ControlInv, Posted
    <2> QED
      BY <1>1, <1>5, <2>2, FreshKept DEF Delivered, controlVars, Ours, Awaited
  <1>6. CASE Undelivered
    <2>1. \A x \in Sids : post'[x].at = "sent" => post'[x] = post[x]
      BY <1>6, UndeliveredControl, NoneYet
    <2> QED
      BY <1>1, <1>6, <2>1, FreshKept DEF Undelivered, controlVars, Ours, Awaited
  <1>7. CASE Unlocks
    BY <1>7, <1>2 DEF Unlocks, controlVars
  <1>8. ASSUME NEW x \in Sids, WorkerStep(x)
        PROVE  Fresh'
    <2>1. CASE ListsSubscriber(x)
      BY <2>1, <1>2 DEF ListsSubscriber, controlVars
    <2>2. CASE NotifiesAll(x)
      BY <2>2, <1>2 DEF NotifiesAll, BeginsNotifying, controlVars
    <2>3. ASSUME UNCHANGED <<value, known, sid, post>>,
                 call'.by = call.by, call'.kind = call.kind, call'.sid = call.sid
          PROVE  Fresh'
      BY <1>1, <2>3, FreshKept DEF Ours, Awaited
    <2>4. CASE AnswersSubscribe(x)
      BY <2>3, <2>4, AnswersSubscribeControl DEF AnswersSubscribe, deviceVars
    <2>5. CASE RenewsSubscriber(x)
      BY <2>3, <2>5, RenewsSubscriberControl DEF RenewsSubscriber, deviceVars
    <2>6. CASE RemovesSubscriber(x)
      BY <2>3, <2>6, RemovesSubscriberControl DEF RemovesSubscriber
    <2> QED
      BY <1>8, <2>1, <2>2, <2>4, <2>5, <2>6 DEF WorkerStep
  <1>9. ASSUME NEW x \in Sids, DropsEvent(x)
        PROVE  Fresh'
    <2>1. /\ Answered(x) /\ post[x].at = "sent"
          /\ UNCHANGED <<value, known, sid, call, target, made, subscribers, work>>
      BY <1>9 DEF DropsEvent, Arrived, deviceVars, controlVars
    <2>2. call.by # x
      BY <2>1 DEF ControlInv, Posted
    <2>3. post'[x].at # "sent" /\ \A y \in Sids \ {x} : post'[y] = post[y]
      BY <2>1, <2>2, AnsweredControl, NoneYet
    <2> QED
      BY <1>1, <2>1, <2>3, FreshKept DEF Ours, Awaited
  <1>10. ASSUME NEW x \in Sids, FindsGap(x)
         PROVE  Fresh'
    <2>1. /\ UNCHANGED <<value, known, sid>> /\ call'.kind = "unsubscribe"
          /\ \A y \in Sids : IF y = x THEN post'[y].at = "gap" ELSE post'[y] = post[y]
      BY <1>10, FindsGapControl DEF FindsGap, deviceVars
    <2> QED
      BY <1>1, <2>1, FreshKept DEF Ours, Awaited
  <1>11. CASE CallStep
    <2>1. \A x \in Sids : Ours(x)' => x = made + 1 \/ Ours(x)
      BY <1>11, OursKept
    <2>2. UNCHANGED <<value, known>>
      BY <1>11 DEF CallStep, SubscribesAs, RenewsOrEnds, LeavesCall, deviceVars
    <2>3. \A x \in Sids : post'[x].at = "sent" => post'[x] = post[x] /\ x # made + 1
      <3>1. \A x \in Sids : post[x].at = "sent" => x # made + 1
        <4>1. made \in Nat
          BY Numbers DEF ControlInv, Calling
        <4>2. made + 1 > made
          BY <4>1
        <4> QED
          BY <4>2 DEF ControlInv, Posted
      <3>2. CASE SubscribesAs(call.by)
        BY <3>1, <3>2 DEF SubscribesAs
      <3>3. CASE RenewsOrEnds("renew") \/ RenewsOrEnds("unsubscribe")
        BY <3>1, <3>3 DEF RenewsOrEnds
      <3>4. ASSUME NEW success \in BOOLEAN, LeavesCall(success)
            PROVE  \A x \in Sids : post'[x].at = "sent" => post'[x] = post[x]
        BY <3>4, LeavesCallControl, NoneYet
      <3> QED
        BY <1>11, <3>1, <3>2, <3>3, <3>4 DEF CallStep
    <2> QED
      BY <1>1, <2>1, <2>2, <2>3, FreshKept
  <1>12. CASE UNCHANGED vars
    BY <1>12, <1>2 DEF vars, deviceVars, controlVars
  <1> QED
    BY <1>3, <1>4, <1>5, <1>6, <1>7, <1>8, <1>9, <1>10, <1>11, <1>12, NextCases,
       PostsFresh, TakesFresh DEF NotifierStep, HandlerStep

\* What the state table holds is never ahead of the device, and no event of the
\* subscription is behind it.
THEOREM FreshIsInvariant == Spec => []Fresh
  BY InitControl, StepControl, InitFresh, StepFresh, PTL DEF Spec

\* What a step does to the values: the device sets one, or the control point takes
\* an event, or neither changes.
LEMMA StepMoves ==
  ASSUME ControlInv, Fresh, [Next]_vars
  PROVE  [Channel!Next]_<<value, known>>
  <1>1. ASSUME NEW s \in Setters, NEW v \in Variables, Sets(s, v)
        PROVE  Channel!Next
    <2>1. Channel!Change(v)
      BY <1>1 DEF Channel!Change, Sets, controlVars
    <2> QED
      BY <2>1 DEF Channel!Next
  <1>2. ASSUME NEW x \in Sids, TakesEvent(x)
        PROVE  [Channel!Next]_<<value, known>>
    <2>1. /\ UNCHANGED value
          /\ value \in [Variables -> 0..MaxSets] /\ known \in [Variables -> 0..MaxSets]
          /\ known' \in [Variables -> 0..MaxSets]
      BY <1>2, TakesEventControl DEF TakesEvent, deviceVars, ControlInv, ValuesTyped
    <2>2. DOMAIN post[x].body \in SUBSET Variables
      BY <1>2, TakesEventControl
    <2>3. Channel!Learn(DOMAIN post[x].body)
      <3>1. \A v \in Variables : known'[v] \in Nat /\ known[v] \in Int /\ value[v] \in Int
        BY <2>1, Numbers
      <3>2. known' \in [Variables -> Nat]
        BY <2>1, <3>1
      <3>3. \A v \in Variables : IF v \in DOMAIN post[x].body THEN known'[v] \in known[v]..value[v]
                                 ELSE known'[v] = known[v]
        BY <1>2, <3>1, TakesForward
      <3> QED
        BY <2>1, <3>2, <3>3 DEF Channel!Learn
    <2>4. CASE Variables = {}
      BY <2>1, <2>4
    <2>5. CASE Variables # {}
      BY <2>2, <2>3, <2>5 DEF Channel!Next
    <2> QED
      BY <2>4, <2>5
  <1>3. CASE NotifierStep
    BY <1>3 DEF NotifierStep, Posts, Delivered, Undelivered, Unlocks, controlVars
  <1>4. ASSUME NEW s \in Setters, NotifiesChange(s)
        PROVE  UNCHANGED <<value, known>>
    BY <1>4 DEF NotifiesChange, BeginsNotifying, controlVars
  <1>5. ASSUME NEW x \in Sids, WorkerStep(x)
        PROVE  UNCHANGED <<value, known>>
    BY <1>5 DEF WorkerStep, ListsSubscriber, AnswersSubscribe, NotifiesAll, BeginsNotifying,
                RenewsSubscriber, RemovesSubscriber, deviceVars, controlVars
  <1>6. ASSUME NEW x \in Sids, DropsEvent(x) \/ FindsGap(x)
        PROVE  UNCHANGED <<value, known>>
    BY <1>6 DEF DropsEvent, FindsGap, deviceVars, controlVars
  <1>7. CASE CallStep
    BY <1>7 DEF CallStep, SubscribesAs, RenewsOrEnds, LeavesCall, deviceVars
  <1>8. CASE UNCHANGED vars
    BY <1>8 DEF vars, deviceVars, controlVars
  <1> QED
    BY <1>1, <1>2, <1>3, <1>4, <1>5, <1>6, <1>7, <1>8, NextCases DEF HandlerStep

\* Eventing implements EventChannel: however NOTIFY requests are delayed past a
\* resubscription, the state table never goes back to an older value.
THEOREM ImplementsChannel == Spec => MovesForward
  <1>1. Init => Channel!Init
    BY DEF Init, Channel!Init
  <1>2. Spec => []ControlInv /\ []Fresh /\ Init /\ [][Next]_vars
    BY ControlIsInvariant, FreshIsInvariant DEF Spec
  <1>3. ControlInv /\ Fresh /\ [Next]_vars => [Channel!Next]_<<value, known>>
    BY StepMoves
  <1> QED
    BY <1>1, <1>2, <1>3, PTL DEF MovesForward, Channel!Spec

--------------------------------------------------------------------------------
\* The numbers: a subscription whose state is left alone stays in step.
LEMMA InStepKept ==
  ASSUME NEW x \in Sids, InStepAt(x), UNCHANGED key, Ours(x)' => Ours(x), ~dropped' => ~dropped,
         post'[x] = post[x], count'[x] = count[x], x = target' => x = target
  PROVE  InStepAt(x)'
  BY DEF InStepAt, Follows

\* Where nothing was sent and nothing counted, SEQ begins with 0.
LEMMA BeginsWithZero ==
  ASSUME ControlInv', NEW x \in Sids, post'[x].at = "none", count'[x] = 0
  PROVE  InStepAt(x)'
  <1>1. x # target'
    BY Numbers DEF ControlInv, Posted
  <1> QED
    BY <1>1, Numbers DEF InStepAt, Follows

\* When the list is cut, at the beginning of a notification or by an UNSUBSCRIBE, the
\* counters of those who are off it begin anew.
LEMMA CutInStep ==
  ASSUME ControlInv, ControlInv', InStep, target = NoSid, NEW x \in Sids,
         UNCHANGED <<key, sid, dropped, post, target>>,
         call'.kind = call.kind, call'.sid = call.sid,
         count'[x] = count[x] \/ x \notin subscribers'
  PROVE  InStepAt(x)'
  <1>1. Ours(x)' => Ours(x)
    BY DEF Ours, Awaited
  <1>2. CASE count'[x] = count[x]
    BY <1>1, <1>2, InStepKept DEF InStep
  <1>3. CASE count'[x] # count[x]
    <2>1. count'[x] = 0
      BY <1>3 DEF ControlInv, Listed
    <2>2. x # target
      BY Numbers
    <2>3. post[x].at # "answered"
      BY <2>2 DEF ControlInv, Posted
    <2>4. InStepAt(x)
      BY DEF InStep
    <2>5. CASE post[x].at = "none"
      BY <2>1, <2>5, BeginsWithZero
    <2>6. CASE post[x].at # "none"
      BY <1>1, <2>2, <2>3, <2>4, <2>6 DEF InStepAt, Follows
    <2> QED
      BY <2>5, <2>6
  <1> QED
    BY <1>2, <1>3

LEMMA PostsInStep ==
  ASSUME ControlInv, ControlInv', InStep, Posts, NEW x \in Sids
  PROVE  InStepAt(x)'
  <1>1. UNCHANGED <<key, sid, call, dropped, count>>
    BY DEF Posts, controlVars
  <1>2. Ours(x)' <=> Ours(x)
    BY <1>1 DEF Ours, Awaited
  <1>3. InStepAt(x)
    BY DEF InStep
  <1>4. CASE x = target'
    <2>1. post'[x] = [at |-> "sent", seq |-> count[x], body |-> [u \in event |-> value[u]]]
      BY <1>4, PostsControl
    <2>2. post'[x].at = "sent" /\ post'[x].seq = count[x]
      BY <2>1
    <2>3. post[x].at = "none"
      <3>1. x \in subscribers /\ x # target
        BY <1>4, PostsControl, Numbers DEF ControlInv, Listed
      <3> QED
        BY <3>1 DEF ControlInv, Posted
    <2> QED
      BY <1>1, <1>2, <1>3, <2>2, <2>3 DEF InStepAt, Follows
  <1>5. CASE x # target'
    <2>1. post'[x] = post[x]
      BY <1>5, PostsControl
    <2> QED
      BY <1>1, <1>2, <1>3, <1>5, <2>1, InStepKept
  <1> QED
    BY <1>4, <1>5

LEMMA DeliveredInStep ==
  ASSUME ControlInv, ControlInv', InStep, Delivered, NEW x \in Sids
  PROVE  InStepAt(x)'
  <1>1. UNCHANGED <<key, sid, call, dropped>> /\ target' = NoSid /\ post[target].at = "answered"
    BY DEF Delivered, controlVars
  <1>2. Ours(x)' <=> Ours(x)
    BY <1>1 DEF Ours, Awaited
  <1>3. InStepAt(x)
    BY DEF InStep
  <1>4. /\ x # target'
        /\ count'[x] = IF x = target THEN NextCount(count[x]) ELSE count[x]
        /\ post'[x] = IF x = target THEN NoPost ELSE post[x]
    BY <1>1, Numbers DEF Delivered, ControlInv, Listed, Posted
  <1>5. CASE x = target
    <2>1. post'[x].at = "none" /\ count'[x] = NextCount(count[x]) /\ count[x] \in Nat
      BY <1>4, <1>5, NoneYet, Numbers DEF ControlInv, Listed
    <2>2. Ours(x)' /\ ~dropped' => count[x] <= EventMaxSeq /\ key = KeyAfter(count[x])
      BY <1>1, <1>2, <1>3, <1>5 DEF InStepAt
    <2>3. count[x] <= EventMaxSeq => count'[x] = count[x] + 1 /\ count'[x] <= EventMaxSeq + 1
      BY <2>1, Numbers DEF NextCount
    <2>4. Ours(x)' /\ ~dropped' => Follows(count[x])'
      <3>1. SUFFICES ASSUME Ours(x)', ~dropped' PROVE Follows(count[x])'
        OBVIOUS
      <3>2. count'[x] = count[x] + 1 /\ count'[x] <= EventMaxSeq + 1 /\ key' = KeyAfter(count[x])
        BY <1>1, <2>2, <2>3, <3>1
      <3>3. count'[x] - 1 = count[x]
        BY <2>1, <3>2
      <3> QED
        BY <3>2, <3>3 DEF Follows, KeyAfter
    <2> QED
      BY <1>4, <2>1, <2>4 DEF InStepAt
  <1>6. CASE x # target
    BY <1>1, <1>2, <1>3, <1>4, <1>6, InStepKept
  <1> QED
    BY <1>5, <1>6

LEMMA UndeliveredInStep ==
  ASSUME ControlInv, ControlInv', InStep, Undelivered, NEW x \in Sids
  PROVE  InStepAt(x)'
  <1>1. /\ UNCHANGED <<key, sid, call, dropped>> /\ target' = NoSid
        /\ post[target].at # "answered" /\ Removes({target})
    BY DEF Undelivered, controlVars
  <1>2. Ours(x)' <=> Ours(x)
    BY <1>1 DEF Ours, Awaited
  <1>3. InStepAt(x) /\ x # target'
    BY <1>1, Numbers DEF InStep
  <1>4. count'[x] = IF x = target THEN 0 ELSE count[x]
    BY <1>1, RemovesFrom DEF ControlInv
  <1>5. post'[x] = post[x] \/ (x = target /\ post'[x] = NoPost)
    <2>1. \A y \in Sids : \/ post'[y] = post[y]
                          \/ y = target /\ post'[y] = NoPost /\ post[y].at = "sent"
      BY UndeliveredControl
    <2> QED
      BY <2>1
  <1>6. CASE x = target
    <2>1. CASE post'[x].at = "none"
      BY <1>4, <1>6, <2>1, BeginsWithZero
    <2>2. CASE post'[x].at # "none"
      <3>1. post'[x] = post[x] /\ post[x].at # "answered" /\ post[x].at # "none"
        BY <1>1, <1>5, <1>6, <2>2, NoneYet
      <3> QED
        BY <1>1, <1>2, <1>3, <3>1 DEF InStepAt, Follows
    <2> QED
      BY <2>1, <2>2
  <1>7. CASE x # target
    BY <1>1, <1>2, <1>3, <1>4, <1>5, <1>7, InStepKept
  <1> QED
    BY <1>6, <1>7

LEMMA DropsInStep ==
  ASSUME ControlInv, ControlInv', InStep, NEW y \in Sids, DropsEvent(y), NEW x \in Sids
  PROVE  InStepAt(x)'
  <1>1. /\ Answered(y) /\ post[y].at = "sent" /\ sid # y
        /\ UNCHANGED <<key, sid, call, count, target, made, subscribers, work>>
        /\ dropped' = (dropped \/ Awaited(y))
    BY DEF DropsEvent, Arrived, deviceVars, controlVars
  <1>2. Ours(x)' <=> Ours(x)
    BY <1>1 DEF Ours, Awaited
  <1>3. CASE x = y
    BY <1>1, <1>2, <1>3 DEF InStepAt, Ours
  <1>4. CASE x # y
    <2>1. call.by # y
      BY <1>1 DEF ControlInv, Posted
    <2>2. post'[x] = post[x]
      BY <1>1, <1>4, <2>1, AnsweredControl
    <2> QED
      BY <1>1, <1>2, <2>2, InStepKept DEF InStep
  <1> QED
    BY <1>3, <1>4

\* The event that is taken is not the second after the wrap.
LEMMA TakesInStep ==
  ASSUME ControlInv, ControlInv', InStep, NEW y \in Sids, TakesEvent(y), NEW x \in Sids
  PROVE  InStepAt(x)'
  <1>1. /\ Answered(y) /\ post[y].at = "sent" /\ sid = y
        /\ IsNext(post[y].seq) /\ key' = KeyAfter(post[y].seq)
        /\ UNCHANGED <<sid, call, count, target, made, subscribers, work, dropped>>
    BY DEF TakesEvent, Arrived, deviceVars
  <1>2. call.by # y /\ call.kind # "subscribe"
    BY <1>1, Numbers DEF ControlInv, Posted, Calling
  <1>3. CASE x # y
    BY <1>1, <1>2, <1>3 DEF InStepAt, Ours, Awaited
  <1>4. CASE x = y /\ x # target
    <2>1. post'[x] = NoPost
      BY <1>1, <1>2, <1>4, AnsweredControl
    <2>2. x \notin subscribers
      BY <1>1, <1>4 DEF ControlInv, Posted
    <2>3. count'[x] = 0
      BY <1>1, <2>2 DEF ControlInv, Listed
    <2> QED
      BY <2>1, <2>3, NoneYet, BeginsWithZero
  <1>5. CASE x = y /\ x = target /\ ~dropped
    <2>1. post'[x].at = "answered" /\ post'[x].seq = post[x].seq
      BY <1>1, <1>2, <1>5, AnsweredControl
    <2>2. InStepAt(x) /\ Ours(x)
      BY <1>1, <1>5 DEF InStep, Ours
    <2>3. Follows(post[x].seq) /\ post[x].seq = count[x]
      BY <1>1, <1>5, <2>2 DEF InStepAt
    <2>4. count[x] \in Nat
      BY Numbers DEF ControlInv, Listed
    <2>5. count[x] # EventMaxSeq + 1
      <3>1. SUFFICES ASSUME count[x] = EventMaxSeq + 1 PROVE FALSE
        OBVIOUS
      <3>2. count[x] # 0 /\ count[x] - 1 = EventMaxSeq
        BY <3>1, Numbers
      <3>3. key = 0
        BY <2>3, <3>2 DEF Follows, KeyAfter
      <3>4. post[x].seq = 0 \/ post[x].seq = 1
        BY <1>1, <1>5, <3>3 DEF IsNext
      <3> QED
        BY <2>3, <3>1, <3>4, Numbers
    <2>6. count[x] <= EventMaxSeq
      BY <2>3, <2>4, <2>5, Numbers DEF Follows
    <2> QED
      BY <1>1, <1>5, <2>1, <2>3, <2>6 DEF InStepAt, KeyAfter
  <1>6. CASE dropped
    BY <1>1, <1>6 DEF InStepAt
  <1> QED
    BY <1>3, <1>4, <1>5, <1>6

LEMMA FindsGapInStep ==
  ASSUME ControlInv, ControlInv', InStep, NEW y \in Sids, FindsGap(y), NEW x \in Sids
  PROVE  InStepAt(x)'
  <1>1. /\ UNCHANGED <<key, sid, count, target, dropped>>
        /\ call'.kind = "unsubscribe"
        /\ IF x = y THEN post'[x].at = "gap" /\ post'[x].seq = post[x].seq ELSE post'[x] = post[x]
        /\ sid = y /\ post[y].at = "sent"
    BY FindsGapControl DEF FindsGap, Arrived, deviceVars
  <1>2. Ours(x)' => Ours(x)
    BY <1>1 DEF Ours, Awaited
  <1>3. InStepAt(x)
    BY DEF InStep
  <1>4. CASE x = y
    BY <1>1, <1>2, <1>3, <1>4 DEF InStepAt
  <1>5. CASE x # y
    BY <1>1, <1>2, <1>3, <1>5, InStepKept
  <1> QED
    BY <1>4, <1>5

LEMMA CallsInStep ==
  ASSUME ControlInv, ControlInv', InStep, CallStep, NEW x \in Sids
  PROVE  InStepAt(x)'
  <1>1. CASE SubscribesAs(call.by)
    <2>1. /\ post' = post /\ count' = count /\ sid' = NoSid /\ call'.sid = made + 1
      BY <1>1 DEF SubscribesAs, Request, deviceVars
    <2>2. CASE x = made + 1
      <3>1. post'[x].at = "none" /\ count'[x] = 0
        BY <1>1, <2>1, <2>2, SubscribesAsControl
      <3> QED
        BY <3>1, BeginsWithZero
    <2>3. CASE x # made + 1
      BY <2>1, <2>3, Numbers DEF InStepAt, Ours, Awaited
    <2> QED
      BY <2>2, <2>3
  <1>2. CASE ~SubscribesAs(call.by) /\ Ours(x)'
    <2>1. UNCHANGED <<key, dropped, count, target>>
      BY <1>2 DEF CallStep, RenewsOrEnds, LeavesCall, deviceVars
    <2>2. Ours(x)
      <3>1. CASE x # made + 1
        BY <1>2, <3>1, OursKept
      <3>2. CASE x = made + 1
        \* A SID that is made only now is not the one of a call.
        <4>1. made \in Nat /\ sid \in 0..made /\ call.sid \in 0..made
          BY Numbers DEF ControlInv, Calling
        <4>2. x # sid /\ x # call.sid /\ x # NoSid
          BY <3>2, <4>1, Numbers
        <4>3. UNCHANGED sid \/ sid' \in {call.sid, NoSid}
          BY <1>2 DEF CallStep, RenewsOrEnds, LeavesCall
        <4>4. call'.kind # "subscribe"
          BY <1>2, NoneYet DEF CallStep, RenewsOrEnds, Request, LeavesCall
        <4> QED
          BY <1>2, <4>2, <4>3, <4>4 DEF Ours, Awaited
      <3> QED
        BY <3>1, <3>2
    <2>3. CASE RenewsOrEnds("renew") \/ RenewsOrEnds("unsubscribe")
      BY <2>1, <2>2, <2>3, InStepKept DEF InStep, RenewsOrEnds
    <2>4. ASSUME NEW success \in BOOLEAN, LeavesCall(success)
          PROVE  InStepAt(x)'
      <3>1. CASE post'[x] = post[x]
        BY <2>1, <2>2, <3>1, InStepKept DEF InStep
      <3>2. CASE post'[x] # post[x]
        \* The handler that found a gap ends a call for another SID.
        <4>1. x = call.by /\ x # NoSid
          BY <2>4, <3>2, LeavesCallControl, Numbers
        <4>2. call.kind \in {"subscribe", "unsubscribe"} /\ (call.kind = "subscribe" => x # call.sid)
          BY <4>1, Numbers DEF ControlInv, Calling
        <4>3. sid' # x /\ call'.kind # "subscribe"
          BY <2>4, <4>1, <4>2, NoneYet DEF LeavesCall
        <4> QED
          BY <1>2, <4>3 DEF Ours, Awaited
      <3> QED
        BY <3>1, <3>2
    <2> QED
      BY <1>2, <2>3, <2>4 DEF CallStep
  <1>3. CASE ~Ours(x)'
    BY <1>3 DEF InStepAt
  <1> QED
    BY <1>1, <1>2, <1>3

LEMMA InitInStep == Init => InStep
  <1> SUFFICES ASSUME Init PROVE InStep
    OBVIOUS
  <1>1. \A x \in Sids : ~Ours(x)
    BY NoneYet, Numbers DEF Init, Ours, Awaited
  <1> QED
    BY <1>1 DEF InStep, InStepAt

LEMMA StepInStep ==
  ASSUME ControlInv, ControlInv', InStep, [Next]_vars
  PROVE  InStep'
  <1> SUFFICES ASSUME NEW x \in Sids PROVE InStepAt(x)'
    BY DEF InStep
  <1>1. ASSUME UNCHANGED <<key, sid, dropped, post, target, count>>,
               call'.kind = call.kind, call'.sid = call.sid
        PROVE  InStepAt(x)'
    BY <1>1, InStepKept DEF InStep, Ours, Awaited
  <1>2. ASSUME NEW s \in Setters, NEW v \in Variables, Sets(s, v)
        PROVE  InStepAt(x)'
    BY <1>1, <1>2 DEF Sets, controlVars
  <1>3. ASSUME NEW n, NEW some \in SUBSET Variables, BeginsNotifying(n, some)
        PROVE  InStepAt(x)'
    BY <1>3, BeginsControl, CutInStep
  <1>4. ASSUME NEW s \in Setters, NotifiesChange(s)
        PROVE  InStepAt(x)'
    BY <1>3, <1>4 DEF NotifiesChange, ControlInv, ValuesTyped
  <1>5. CASE Unlocks
    BY <1>1, <1>5 DEF Unlocks, controlVars
  <1>6. ASSUME NEW y \in Sids, WorkerStep(y)
        PROVE  InStepAt(x)'
    <2>1. CASE ListsSubscriber(y)
      BY <1>1, <2>1 DEF ListsSubscriber, controlVars
    <2>2. CASE NotifiesAll(y)
      BY <1>3, <2>2 DEF NotifiesAll
    <2>3. CASE AnswersSubscribe(y)
      BY <1>1, <2>3, AnswersSubscribeControl DEF AnswersSubscribe, deviceVars
    <2>4. CASE RenewsSubscriber(y)
      BY <1>1, <2>4, RenewsSubscriberControl DEF RenewsSubscriber, deviceVars
    <2>5. CASE RemovesSubscriber(y)
      <3>1. /\ UNCHANGED <<key, sid, dropped, post, target>> /\ notifier = Nobody
            /\ Removes({y})
        BY <2>5 DEF RemovesSubscriber
      <3>2. target = NoSid
        BY <3>1 DEF ControlInv, Notifying
      <3>3. /\ call'.kind = call.kind /\ call'.sid = call.sid
            /\ count'[x] = IF x = y THEN 0 ELSE count[x]
        BY <2>5, RemovesSubscriberControl
      <3>4. count'[x] = count[x] \/ x \notin subscribers'
        BY <3>1, <3>3 DEF Removes
      <3> QED
        BY <3>1, <3>2, <3>3, <3>4, CutInStep
    <2> QED
      BY <1>6, <2>1, <2>2, <2>3, <2>4, <2>5 DEF WorkerStep
  <1>7. CASE UNCHANGED vars
    BY <1>1, <1>7 DEF vars, deviceVars, controlVars
  <1> QED
    BY <1>2, <1>4, <1>5, <1>6, <1>7, NextCases, PostsInStep, DeliveredInStep, UndeliveredInStep,
       DropsInStep, TakesInStep, FindsGapInStep, CallsInStep DEF NotifierStep, HandlerStep

\* A step that finds a gap finds one that is there.
LEMMA GapIsReal ==
  ASSUME ControlInv, ControlInv', InStep, [Next]_vars,
         NEW x \in Sids, post[x].at = "sent", post'[x].at = "gap"
  PROVE  dropped \/ post[x].seq > EventMaxSeq
  <1>1. call.by # x /\ call'.by = x /\ x # App
    BY Numbers DEF ControlInv, Posted
  <1>2. CASE FindsGap(x)
    <2>1. Ours(x) /\ ~IsNext(post[x].seq)
      BY <1>2 DEF FindsGap, Ours
    <2>2. post[x].seq \in Nat
      BY Numbers DEF ControlInv, Posted, PostState
    <2>3. SUFFICES ASSUME ~dropped, ~(post[x].seq > EventMaxSeq) PROVE FALSE
      OBVIOUS
    <2>4. Follows(post[x].seq)
      BY <2>1, <2>3 DEF InStep, InStepAt
    <2>5. post[x].seq # 0 /\ post[x].seq # key + 1
      BY <2>1 DEF IsNext
    <2>6. key = KeyAfter(post[x].seq - 1) /\ post[x].seq - 1 # EventMaxSeq
      BY <2>2, <2>3, <2>4, <2>5, Numbers DEF Follows
    <2> QED
      BY <2>2, <2>5, <2>6 DEF KeyAfter
  <1>3. ASSUME NEW y \in Sids, FindsGap(y), y # x
        PROVE  FALSE
    BY <1>1, <1>3 DEF FindsGap, Request
  <1>4. ASSUME call'.by = call.by
        PROVE  FALSE
    BY <1>1, <1>4
  <1>5. ASSUME NEW s \in Setters, NotifiesChange(s) \/ \E v \in Variables : Sets(s, v)
        PROVE  FALSE
    BY <1>4, <1>5 DEF NotifiesChange, BeginsNotifying, Sets, controlVars
  <1>6. CASE NotifierStep
    BY <1>4, <1>6 DEF NotifierStep, Posts, Delivered, Undelivered, Unlocks, controlVars
  <1>7. ASSUME NEW y \in Sids, WorkerStep(y)
        PROVE  FALSE
    <2>1. CASE ListsSubscriber(y) \/ NotifiesAll(y)
      BY <1>4, <2>1 DEF ListsSubscriber, NotifiesAll, BeginsNotifying, controlVars
    <2>2. CASE AnswersSubscribe(y) \/ RenewsSubscriber(y) \/ RemovesSubscriber(y)
      BY <1>4, <2>2, AnswersSubscribeControl, RenewsSubscriberControl, RemovesSubscriberControl
    <2> QED
      BY <1>7, <2>1, <2>2 DEF WorkerStep
  <1>8. ASSUME NEW y \in Sids, DropsEvent(y) \/ TakesEvent(y)
        PROVE  FALSE
    BY <1>4, <1>8 DEF DropsEvent, TakesEvent, controlVars
  <1>9. CASE CallStep
    <2>1. call'.by \in {call.by, App}
      BY <1>9, NoneYet, Numbers DEF CallStep, SubscribesAs, RenewsOrEnds, Request, LeavesCall
    <2> QED
      BY <1>1, <2>1
  <1>10. CASE UNCHANGED vars
    BY <1>4, <1>10 DEF vars, controlVars
  <1> QED
    BY <1>2, <1>3, <1>5, <1>6, <1>7, <1>8, <1>9, <1>10, NextCases DEF HandlerStep

\* A subscription is given up for a gap in SEQ only if an event was dropped before
\* the SID was known, or the key has passed MUPNP_EVENT_MAX_SEQ.
THEOREM GapsAreReal == Spec => NoFalseAlarm
  <1>1. Spec => []InStep
    BY InitControl, StepControl, InitInStep, StepInStep, PTL DEF Spec
  <1>2. ControlInv /\ ControlInv' /\ InStep /\ [Next]_vars =>
          [\A x \in Sids : post[x].at = "sent" /\ post'[x].at = "gap" =>
             dropped \/ post[x].seq > EventMaxSeq]_vars
    BY GapIsReal
  <1> QED
    BY <1>1, <1>2, ControlIsInvariant, PTL DEF Spec, NoFalseAlarm

--------------------------------------------------------------------------------
\* The changes: a step that leaves alone what is under way loses none.
LEMMA LostKept ==
  ASSUME NothingLost, NEW x \in Sids,
         UNCHANGED <<value, setting, notifier, event, todo, target, known>>,
         post'[x] = post[x], Initial(x) => Initial(x)',
         ~blind' /\ x \in subscribers' =>
           ~blind /\ x \in subscribers /\ (Awaited(x)' => Awaited(x)) /\ (sid' = x => sid = x)
  PROVE  Current(x)' /\ InReach(x)'
  <1>1. \A v : ToNotify(v) <=> ToNotify(v)'
    BY DEF ToNotify
  <1>2. Current(x) /\ InReach(x)
    BY DEF NothingLost
  <1>3. Current(x)'
    BY <1>1, <1>2 DEF Current
  <1>4. FirstUnderWay(x) => FirstUnderWay(x)'
    BY DEF FirstUnderWay
  <1>5. \A v \in Variables : Coming(x, v) => Coming(x, v)'
    BY <1>1 DEF Coming
  <1>6. InReach(x)'
    BY <1>2, <1>4, <1>5 DEF InReach
  <1> QED
    BY <1>3, <1>6

LEMMA SetsLost ==
  ASSUME ControlInv, ControlInv', NothingLost, NEW s \in Setters, NEW w \in Variables, Sets(s, w),
         NEW x \in Sids
  PROVE  Current(x)' /\ InReach(x)'
  <1>1. /\ setting[s] = {} /\ setting'[s] = {w} /\ \A t \in Setters \ {s} : setting'[t] = setting[t]
        /\ \A v \in Variables \ {w} : value'[v] = value[v]
        /\ UNCHANGED <<subscribers, notifier, event, todo, target, post, work, sid, key, known,
                       call, blind>>
    BY DEF Sets, controlVars, ControlInv, ValuesTyped
  <1>2. notifier # s
    BY <1>1 DEF ControlInv, Notifying
  <1>3. ToNotify(w)' /\ \A v : ToNotify(v) => ToNotify(v)'
    BY <1>1, <1>2 DEF ToNotify
  <1>4. Current(x) /\ InReach(x)
    BY DEF NothingLost
  <1>5. Current(x)'
    <2>1. SUFFICES ASSUME x = target, post[x].at = "sent", NEW v \in DOMAIN post[x].body
                   PROVE  post[x].body[v] = value'[v] \/ ToNotify(v)'
      BY <1>1 DEF Current
    <2>2. v \in Variables
      BY <2>1, BodyTyped
    <2> QED
      BY <1>1, <1>3, <1>4, <2>1, <2>2 DEF Current
  <1>6. FirstUnderWay(x) => FirstUnderWay(x)'
    BY <1>1 DEF FirstUnderWay
  <1>7. Initial(x) => Initial(x)'
    BY <1>1 DEF Initial
  <1>8. \A v \in Variables : known[v] = value[v] \/ Coming(x, v) => known'[v] = value'[v] \/ Coming(x, v)'
    <2> TAKE v \in Variables
    <2>1. CASE v = w
      BY <1>3, <2>1 DEF Coming
    <2>2. CASE v # w
      BY <1>1, <1>3, <1>7, <2>2 DEF Coming
    <2> QED
      BY <2>1, <2>2
  <1>9. InReach(x)'
    BY <1>1, <1>4, <1>6, <1>7, <1>8 DEF InReach, Awaited
  <1> QED
    BY <1>5, <1>9

LEMMA BeginsLost ==
  ASSUME ControlInv, ControlInv', NothingLost, NEW n, NEW some \in SUBSET Variables,
         BeginsNotifying(n, some), NEW x \in Sids, UNCHANGED setting,
         n \in Setters => some = setting[n],
         Initial(x) => Initial(x)' \/ (n = x /\ some = Variables)
  PROVE  Current(x)' /\ InReach(x)'
  <1>1. /\ notifier = Nobody /\ notifier' = n /\ event' = some /\ event = {}
        /\ target = NoSid /\ todo = {} /\ todo' = subscribers' /\ subscribers' \subseteq subscribers
        /\ UNCHANGED <<value, target, post, sid, known, call, blind>>
    BY BeginsControl
  <1>2. x # target /\ x # notifier
    BY <1>1, Numbers
  <1>3. Current(x)'
    BY <1>1, <1>2 DEF Current
  <1>4. SUFFICES ASSUME ~blind', x \in subscribers'
                 PROVE  /\ Awaited(x)' => Initial(x)' \/ FirstUnderWay(x)'
                        /\ sid' = x => \A v \in Variables : known'[v] = value'[v] \/ Coming(x, v)'
    BY <1>3 DEF InReach
  <1>5. InReach(x) /\ x \in subscribers /\ ~blind /\ x \in todo'
    BY <1>1, <1>4 DEF NothingLost
  <1>6. Awaited(x)' => Initial(x)' \/ FirstUnderWay(x)'
    <2>1. ~FirstUnderWay(x)
      BY <1>2 DEF FirstUnderWay
    <2>2. Awaited(x)' => Initial(x)
      BY <1>1, <1>4, <1>5, <2>1 DEF InReach, Awaited
    <2> QED
      BY <1>1, <1>5, <2>2 DEF FirstUnderWay
  <1>7. ASSUME NEW v \in Variables, Coming(x, v)
        PROVE  Coming(x, v)'
    <2>1. CASE ToNotify(v)
      <3>1. PICK t \in Setters : v \in setting[t]
        BY <2>1 DEF ToNotify
      <3>2. CASE t = n
        BY <1>1, <1>5, <3>1, <3>2 DEF Coming
      <3>3. CASE t # n
        BY <1>1, <3>1, <3>3 DEF Coming, ToNotify
      <3> QED
        BY <3>2, <3>3
    <2>2. CASE post[x].at = "gap"
      BY <1>1, <2>2 DEF Coming
    <2>3. CASE Initial(x)
      BY <1>1, <1>5, <2>3 DEF Coming
    <2> QED
      BY <1>1, <1>2, <1>7, <2>1, <2>2, <2>3 DEF Coming
  <1> QED
    BY <1>1, <1>4, <1>5, <1>6, <1>7 DEF InReach

LEMMA PostsLost ==
  ASSUME ControlInv, ControlInv', NothingLost, Posts, NEW x \in Sids
  PROVE  Current(x)' /\ InReach(x)'
  <1>1. /\ target' \in todo /\ target = NoSid /\ todo' = todo \ {target'}
        /\ UNCHANGED <<value, setting, subscribers, notifier, event, work, sid, known, call, blind>>
    BY PostsControl DEF Posts, controlVars
  <1>2. \A v : ToNotify(v) <=> ToNotify(v)'
    BY <1>1 DEF ToNotify
  <1>3. InReach(x) /\ x # target
    BY <1>1, Numbers DEF NothingLost
  <1>4. Initial(x) => Initial(x)'
    BY <1>1 DEF Initial
  <1>5. CASE x = target'
    <2>1. post'[x] = [at |-> "sent", seq |-> count[x], body |-> [v \in event |-> value[v]]]
      BY <1>5, PostsControl
    <2>2. /\ post'[x].at = "sent" /\ DOMAIN post'[x].body = event
          /\ \A v \in event : post'[x].body[v] = value'[v]
      <3>1. post'[x].at = "sent" /\ post'[x].body = [v \in event |-> value[v]]
        BY <2>1
      <3> QED
        BY <1>1, <3>1
    <2>3. Current(x)'
      BY <2>2 DEF Current
    <2>4. post[x].at # "gap"
      <3>1. x \in subscribers
        BY <1>1, <1>5 DEF ControlInv, Listed
      <3> QED
        BY <1>3, <3>1 DEF ControlInv, Posted
    <2>5. FirstUnderWay(x) => FirstUnderWay(x)'
      <3>1. FirstUnderWay(x) => event = Variables
        BY <1>3 DEF FirstUnderWay, ControlInv, Notifying
      <3> QED
        BY <1>5, <2>2, <3>1 DEF FirstUnderWay
    <2>6. \A v \in Variables : Coming(x, v) => Coming(x, v)'
      BY <1>2, <1>3, <1>4, <1>5, <2>2, <2>4 DEF Coming
    <2> QED
      BY <1>1, <1>3, <1>4, <2>3, <2>5, <2>6 DEF InReach, Awaited
  <1>6. CASE x # target'
    <2>1. post'[x] = post[x]
      BY <1>6, PostsControl
    <2>2. x \in todo => x \in todo'
      BY <1>1, <1>6
    <2>3. FirstUnderWay(x) => FirstUnderWay(x)'
      BY <1>1, <1>3, <2>2 DEF FirstUnderWay
    <2>4. \A v \in Variables : Coming(x, v) => Coming(x, v)'
      BY <1>1, <1>2, <1>3, <1>4, <2>1, <2>2 DEF Coming
    <2> QED
      BY <1>1, <1>3, <1>4, <1>6, <2>3, <2>4 DEF InReach, Awaited, Current
  <1> QED
    BY <1>5, <1>6

LEMMA DeliveredLost ==
  ASSUME ControlInv, ControlInv', NothingLost, Delivered \/ Undelivered, NEW x \in Sids
  PROVE  Current(x)' /\ InReach(x)'
  <1>1. /\ target' = NoSid
        /\ UNCHANGED <<value, setting, notifier, event, todo, work, sid, known, call, blind>>
    BY DEF Delivered, Undelivered, controlVars
  <1>2. x # target' /\ InReach(x)
    BY <1>1, Numbers DEF NothingLost
  <1>3. Current(x)'
    BY <1>2 DEF Current
  <1>4. /\ \A v : ToNotify(v) <=> ToNotify(v)'
        /\ Initial(x) => Initial(x)'
    BY <1>1 DEF ToNotify, Initial
  <1>5. CASE x \notin subscribers'
    BY <1>3, <1>5 DEF InReach
  <1>6. CASE x \in subscribers' /\ x \in subscribers /\ ~(x = target /\ post[x].at = "sent")
             /\ (post[x].at = "gap" => post'[x] = post[x])
    <2>1. FirstUnderWay(x) => FirstUnderWay(x)'
      BY <1>1, <1>6 DEF FirstUnderWay
    <2>2. \A v \in Variables : Coming(x, v) => Coming(x, v)'
      BY <1>1, <1>4, <1>6 DEF Coming
    <2> QED
      BY <1>1, <1>2, <1>3, <1>4, <1>6, <2>1, <2>2 DEF InReach, Awaited
  <1>7. CASE Delivered
    <2>1. subscribers' = subscribers /\ (x = target => post[x].at = "answered")
      BY <1>7 DEF Delivered
    <2>2. post[x].at = "gap" => post'[x] = post[x]
      BY <1>7, <2>1 DEF Delivered, ControlInv, Posted
    <2> QED
      BY <1>5, <1>6, <2>1, <2>2
  <1>8. CASE Undelivered
    <2>1. subscribers' = subscribers \ {target}
      BY <1>8, RemovesFrom DEF Undelivered, ControlInv
    <2>2. post[x].at = "gap" => post'[x] = post[x]
      <3>1. \A y \in Sids : \/ post'[y] = post[y]
                            \/ y = target /\ post'[y] = NoPost /\ post[y].at = "sent"
        BY <1>8, UndeliveredControl
      <3> QED
        BY <3>1
    <2> QED
      BY <1>5, <1>6, <2>1, <2>2
  <1> QED
    BY <1>7, <1>8

LEMMA UnlocksLost ==
  ASSUME ControlInv, ControlInv', NothingLost, Unlocks, NEW x \in Sids
  PROVE  Current(x)' /\ InReach(x)'
  <1>1. /\ notifier # Nobody /\ notifier' = Nobody /\ todo = {} /\ target = NoSid
        /\ UNCHANGED <<value, subscribers, todo, target, post, sid, known, call, blind>>
        /\ \A s \in Setters : setting'[s] = IF s = notifier THEN {} ELSE setting[s]
        /\ work'[<<"subscribe", x>>] = IF x = notifier THEN "none" ELSE work[<<"subscribe", x>>]
    BY UnlocksControl DEF Unlocks, EndsNotifying, controlVars
  <1>2. \A v : ToNotify(v) => ToNotify(v)'
    BY <1>1, Numbers DEF ToNotify
  <1>3. Initial(x) => Initial(x)'
    BY <1>1 DEF Initial, ControlInv, Working
  <1>4. InReach(x) /\ x # target
    BY <1>1, Numbers DEF NothingLost
  <1>5. ~FirstUnderWay(x)
    BY <1>1, <1>4 DEF FirstUnderWay
  <1>6. \A v \in Variables : Coming(x, v) => Coming(x, v)'
    BY <1>1, <1>2, <1>3, <1>4 DEF Coming
  <1> QED
    BY <1>1, <1>3, <1>4, <1>5, <1>6 DEF InReach, Awaited, Current

LEMMA WorkersLost ==
  ASSUME ControlInv, ControlInv', NothingLost, NEW y \in Sids, WorkerStep(y), NEW x \in Sids
  PROVE  Current(x)' /\ InReach(x)'
  <1>1. CASE ListsSubscriber(y)
    <2>1. /\ UNCHANGED <<value, setting, notifier, event, todo, target, known, post, sid, call, blind>>
          /\ subscribers' = subscribers \cup {y}
          /\ work'[<<"subscribe", x>>] = IF x = y THEN "listed" ELSE work[<<"subscribe", x>>]
      BY <1>1, ListsSubscriberControl DEF ListsSubscriber, controlVars
    <2>2. CASE x = y
      <3>1. Initial(x)' /\ x # target'
        BY <1>1, <2>1, <2>2, ListsSubscriberControl DEF Initial
      <3> QED
        BY <3>1 DEF InReach, Current, Coming
    <2>3. CASE x # y
      BY <2>1, <2>3, LostKept DEF Initial, Awaited
    <2> QED
      BY <2>2, <2>3
  <1>2. CASE NotifiesAll(y)
    <2>1. /\ BeginsNotifying(y, Variables) /\ y \notin Setters
          /\ work'[<<"subscribe", x>>] = IF x = y THEN "notifying" ELSE work[<<"subscribe", x>>]
      BY <1>2, NotifiesAllControl, Numbers DEF NotifiesAll
    <2>2. UNCHANGED setting /\ Variables \in SUBSET Variables
      BY <2>1 DEF BeginsNotifying
    <2>3. Initial(x) => Initial(x)' \/ (y = x /\ Variables = Variables)
      BY <2>1 DEF Initial
    <2> QED
      BY <2>1, <2>2, <2>3, BeginsLost
  <1>3. CASE AnswersSubscribe(y)
    <2>1. /\ UNCHANGED <<value, setting, notifier, event, todo, target, known, post, sid, blind,
                         subscribers>>
          /\ call'.kind = call.kind /\ call'.sid = call.sid
          /\ work'[<<"subscribe", x>>] = IF x = y THEN "answered" ELSE work[<<"subscribe", x>>]
      BY <1>3, AnswersSubscribeControl DEF AnswersSubscribe, deviceVars
    <2> QED
      BY <2>1, LostKept DEF Initial, Awaited
  <1>4. CASE RenewsSubscriber(y)
    <2>1. /\ UNCHANGED <<value, setting, notifier, event, todo, target, known, post, sid, blind,
                         subscribers, work>>
          /\ call'.kind = call.kind /\ call'.sid = call.sid
      BY <1>4, RenewsSubscriberControl DEF RenewsSubscriber, deviceVars
    <2> QED
      BY <2>1, LostKept DEF Initial, Awaited
  <1>5. CASE RemovesSubscriber(y)
    <2>1. /\ UNCHANGED <<value, setting, notifier, event, todo, target, known, post, sid, blind>>
          /\ call'.kind = call.kind /\ call'.sid = call.sid
          /\ work'[<<"subscribe", x>>] = work[<<"subscribe", x>>]
          /\ subscribers' \subseteq subscribers
      BY <1>5, RemovesSubscriberControl DEF RemovesSubscriber, Removes
    <2> QED
      BY <2>1, LostKept DEF Initial, Awaited
  <1> QED
    BY <1>1, <1>2, <1>3, <1>4, <1>5 DEF WorkerStep

LEMMA DropsLost ==
  ASSUME ControlInv, ControlInv', NothingLost, NEW y \in Sids, DropsEvent(y), NEW x \in Sids
  PROVE  Current(x)' /\ InReach(x)'
  <1>1. /\ Answered(y) /\ post[y].at = "sent" /\ sid # y
        /\ UNCHANGED <<value, setting, subscribers, notifier, event, todo, target, work, sid, key,
                       known, call, made>>
        /\ blind' = (blind \/ (Awaited(y) /\ DOMAIN post[y].body = Variables))
    BY DEF DropsEvent, Arrived, deviceVars, controlVars
  <1>2. call.by # y
    BY <1>1 DEF ControlInv, Posted
  <1>3. CASE x # y
    <2>1. post'[x] = post[x]
      BY <1>1, <1>2, <1>3, AnsweredControl
    <2> QED
      BY <1>1, <2>1, LostKept DEF Initial, Awaited
  <1>4. CASE x = y
    <2>1. post'[x].at # "sent"
      BY <1>1, <1>2, <1>4, AnsweredControl, NoneYet
    <2>2. Current(x)'
      BY <2>1 DEF Current
    <2>3. ~blind' /\ FirstUnderWay(x) /\ Awaited(x) => FirstUnderWay(x)'
      BY <1>1, <1>4 DEF FirstUnderWay
    <2>4. InReach(x)
      BY DEF NothingLost
    <2>5. InReach(x)'
      BY <1>1, <1>4, <2>3, <2>4 DEF InReach, Initial, Awaited
    <2> QED
      BY <2>2, <2>5
  <1> QED
    BY <1>3, <1>4

\* The event that is taken has the values of the moment, but for those that somebody
\* has still to notify.
LEMMA TakesLost ==
  ASSUME ControlInv, ControlInv', NothingLost, NEW y \in Sids, TakesEvent(y), NEW x \in Sids
  PROVE  Current(x)' /\ InReach(x)'
  <1>1. /\ Answered(y) /\ post[y].at = "sent" /\ sid = y
        /\ UNCHANGED <<value, setting, subscribers, notifier, event, todo, target, work, sid,
                       call, made, dropped, blind>>
    BY DEF TakesEvent, Arrived, deviceVars
  <1>2. call.by # y /\ call.kind # "subscribe"
    BY <1>1, Numbers DEF ControlInv, Posted, Calling
  <1>3. ~Awaited(x)'
    BY <1>1, <1>2 DEF Awaited
  <1>4. \A v : ToNotify(v) <=> ToNotify(v)'
    BY <1>1 DEF ToNotify
  <1>5. CASE x # y
    <2>1. post'[x] = post[x] /\ Current(x)
      BY <1>1, <1>2, <1>5, AnsweredControl DEF NothingLost
    <2>2. Current(x)'
      BY <1>1, <1>4, <2>1 DEF Current
    <2> QED
      BY <1>1, <1>3, <1>5, <2>2 DEF InReach
  <1>6. CASE x = y
    <2>1. post'[x].at # "sent"
      BY <1>1, <1>2, <1>6, AnsweredControl, NoneYet
    <2>2. Current(x)'
      BY <2>1 DEF Current
    <2>3. SUFFICES ASSUME ~blind, x \in subscribers, NEW v \in Variables
                   PROVE  known'[v] = value'[v] \/ Coming(x, v)'
      BY <1>1, <1>3, <2>2 DEF InReach
    <2>4. x = target
      BY <1>1, <1>6, <2>3 DEF ControlInv, Posted
    <2>5. known'[v] = IF v \in DOMAIN post[x].body THEN post[x].body[v] ELSE known[v]
      BY <1>6, TakesEventControl
    <2>6. Current(x) /\ InReach(x)
      BY DEF NothingLost
    <2>7. CASE v \in DOMAIN post[x].body
      <3>1. post[x].body[v] = value[v] \/ ToNotify(v)
        BY <1>1, <1>6, <2>4, <2>6, <2>7 DEF Current
      <3> QED
        BY <1>1, <1>4, <2>5, <2>7, <3>1 DEF Coming
    <2>8. CASE v \notin DOMAIN post[x].body
      <3>1. known[v] = value[v] \/ Coming(x, v)
        BY <1>1, <1>6, <2>3, <2>6 DEF InReach
      <3>2. Coming(x, v) => Coming(x, v)'
        BY <1>1, <1>4, <1>6, <2>8 DEF Coming, Initial
      <3> QED
        BY <1>1, <2>5, <2>8, <3>1, <3>2
    <2> QED
      BY <2>7, <2>8
  <1> QED
    BY <1>5, <1>6

LEMMA FindsGapLost ==
  ASSUME ControlInv, ControlInv', NothingLost, NEW y \in Sids, FindsGap(y), NEW x \in Sids
  PROVE  Current(x)' /\ InReach(x)'
  <1>1. /\ call'.kind = "unsubscribe" /\ sid = y
        /\ IF x = y THEN post'[x].at = "gap" ELSE post'[x] = post[x]
        /\ work'[<<"subscribe", x>>] = work[<<"subscribe", x>>]
        /\ UNCHANGED <<value, setting, subscribers, notifier, event, todo, target, sid, known,
                       blind>>
    BY FindsGapControl DEF FindsGap, deviceVars
  <1>2. CASE x = y
    BY <1>1, <1>2 DEF Current, InReach, Awaited, Coming
  <1>3. CASE x # y
    BY <1>1, <1>3, LostKept DEF Initial, Awaited
  <1> QED
    BY <1>2, <1>3

\* A SUBSCRIBE that succeeds while its first event has still to come misses no change.
LEMMA LeavesCallLost ==
  ASSUME ControlInv, ControlInv', NothingLost, NEW success \in BOOLEAN, LeavesCall(success),
         NEW x \in Sids
  PROVE  Current(x)' /\ InReach(x)'
  <1>1. /\ UNCHANGED <<value, setting, subscribers, notifier, event, todo, target, work, known,
                       blind>>
        /\ call' = NoCall
        /\ sid' = IF success /\ call.kind # "unsubscribe" THEN call.sid ELSE NoSid
    BY DEF LeavesCall, deviceVars
  <1>2. ~Awaited(x)' /\ x # NoSid
    BY <1>1, NoneYet, Numbers DEF Awaited
  <1>3. \/ post'[x] = post[x]
        \/ /\ post[x].at = "gap" /\ post'[x].at # "sent"
           /\ x = call.by
    BY LeavesCallControl, NoneYet
  <1>4. \A v : ToNotify(v) <=> ToNotify(v)'
    BY <1>1 DEF ToNotify
  <1>5. Current(x) /\ InReach(x)
    BY DEF NothingLost
  <1>6. Current(x)'
    BY <1>1, <1>3, <1>4, <1>5 DEF Current
  <1>7. SUFFICES ASSUME ~blind, x \in subscribers, sid' = x, NEW v \in Variables
                 PROVE  known'[v] = value'[v] \/ Coming(x, v)'
    BY <1>1, <1>2, <1>6 DEF InReach
  <1>8. call.sid = x /\ call.kind # "unsubscribe" /\ call.kind # "none"
    BY <1>1, <1>2, <1>7, NoneYet, Numbers DEF ControlInv, Calling
  <1>9. CASE call.kind = "subscribe"
    <2>1. Awaited(x)
      BY <1>8, <1>9 DEF Awaited
    <2>2. Initial(x) \/ FirstUnderWay(x)
      BY <1>5, <1>7, <2>1 DEF InReach
    <2>3. CASE Initial(x)
      BY <1>1, <2>3 DEF Coming, Initial
    <2>4. CASE notifier = x /\ x \in todo
      <3>1. event = Variables
        BY <2>4 DEF ControlInv, Notifying
      <3> QED
        BY <1>1, <2>4, <3>1 DEF Coming
    <2>5. CASE x = target /\ post[x].at = "sent" /\ DOMAIN post[x].body = Variables
      <3>1. post'[x] = post[x]
        BY <1>3, <2>5
      <3>2. post[x].body[v] = value[v] \/ ToNotify(v)
        BY <1>5, <2>5 DEF Current
      <3> QED
        BY <1>1, <1>4, <2>5, <3>1, <3>2 DEF Coming
    <2> QED
      BY <2>2, <2>3, <2>4, <2>5 DEF FirstUnderWay
  <1>10. CASE call.kind = "renew"
    <2>1. sid = x /\ call.by # x
      BY <1>2, <1>8, <1>10, Numbers DEF ControlInv, Calling
    <2>2. post'[x] = post[x]
      BY <1>3, <2>1
    <2>3. known[v] = value[v] \/ Coming(x, v)
      BY <1>5, <1>7, <2>1 DEF InReach
    <2> QED
      BY <1>1, <1>4, <2>2, <2>3 DEF Coming, Initial
  <1> QED
    BY <1>8, <1>9, <1>10 DEF ControlInv, Calling, CallState

LEMMA CallsLost ==
  ASSUME ControlInv, ControlInv', NothingLost, CallStep, NEW x \in Sids
  PROVE  Current(x)' /\ InReach(x)'
  <1>1. CASE SubscribesAs(call.by)
    <2>1. /\ UNCHANGED <<value, setting, subscribers, notifier, event, todo, target, known, post>>
          /\ sid' = NoSid /\ call'.sid = made + 1 /\ made + 1 \notin subscribers
      BY <1>1, SubscribesAsControl DEF SubscribesAs, Request, deviceVars
    <2>2. \A v : ToNotify(v) <=> ToNotify(v)'
      BY <2>1 DEF ToNotify
    <2>3. Current(x)'
      BY <2>1, <2>2 DEF NothingLost, Current
    <2>4. x \in subscribers' => ~Awaited(x)' /\ sid' # x
      BY <2>1, Numbers DEF Awaited
    <2> QED
      BY <2>3, <2>4 DEF InReach
  <1>2. ASSUME NEW kind \in {"renew", "unsubscribe"}, RenewsOrEnds(kind)
        PROVE  Current(x)' /\ InReach(x)'
    <2>1. /\ UNCHANGED <<value, setting, subscribers, notifier, event, todo, target, known, post,
                         sid, blind>>
          /\ call'.kind # "subscribe"
          /\ work'[<<"subscribe", x>>] = work[<<"subscribe", x>>]
      BY <1>2, RenewsOrEndsControl DEF RenewsOrEnds, deviceVars
    <2> QED
      BY <2>1, LostKept DEF Initial, Awaited
  <1> QED
    BY <1>1, <1>2, LeavesCallLost DEF CallStep

LEMMA InitLost == Init => NothingLost
  <1> SUFFICES ASSUME Init PROVE NothingLost
    OBVIOUS
  <1>1. subscribers = {} /\ target = NoSid
    BY DEF Init
  <1> QED
    BY <1>1, Numbers DEF NothingLost, Current, InReach

LEMMA StepLost ==
  ASSUME ControlInv, ControlInv', NothingLost, [Next]_vars
  PROVE  NothingLost'
  <1> SUFFICES ASSUME NEW x \in Sids PROVE Current(x)' /\ InReach(x)'
    BY DEF NothingLost
  <1>1. ASSUME NEW s \in Setters, NotifiesChange(s)
        PROVE  Current(x)' /\ InReach(x)'
    <2>1. /\ BeginsNotifying(s, setting[s]) /\ setting[s] \in SUBSET Variables
          /\ UNCHANGED <<setting, work>>
      BY <1>1 DEF NotifiesChange, BeginsNotifying, ControlInv, ValuesTyped
    <2>2. Initial(x) => Initial(x)'
      BY <2>1 DEF Initial
    <2> QED
      BY <2>1, <2>2, BeginsLost
  <1>2. CASE UNCHANGED vars
    <2>1. UNCHANGED <<value, setting, subscribers, notifier, event, todo, target, known, post, work,
                      sid, call, blind>>
      BY <1>2 DEF vars, deviceVars, controlVars
    <2> QED
      BY <2>1, LostKept DEF Initial, Awaited
  <1> QED
    BY <1>1, <1>2, NextCases, SetsLost, PostsLost, DeliveredLost, UnlocksLost, WorkersLost,
       DropsLost, TakesLost, FindsGapLost, CallsLost DEF NotifierStep, HandlerStep

\* What the control point lacks, of a subscription that it has or is about to have, is
\* under way, or its first event was dropped: NothingLost in every state.
THEOREM NothingIsLost == Spec => []NothingLost
  BY InitControl, StepControl, InitLost, StepLost, PTL DEF Spec

\* When nothing is under way and the device has the control point as a subscriber,
\* the control point has every value of the device, unless its first event came
\* before its SID.
THEOREM SubscriberIsInSync == Spec => []InSync
  <1>1. ASSUME ControlInv, NothingLost, Quiet, sid \in subscribers, ~blind
        PROVE  known = value
    <2>1. sid \in Sids
      BY <1>1, Numbers DEF ControlInv, Listed, Calling
    <2>2. todo = {} /\ target = NoSid /\ sid # target
      BY <1>1, <2>1, Numbers DEF ControlInv, Notifying, Quiet
    <2>3. \A v : ~ToNotify(v)
      BY <1>1 DEF ToNotify, Quiet
    <2>4. \A v : ~Coming(sid, v)
      BY <1>1, <2>1, <2>2, <2>3 DEF Coming, Initial, Quiet
    <2>5. \A v \in Variables : known[v] = value[v]
      BY <1>1, <2>1, <2>4 DEF NothingLost, InReach
    <2> QED
      BY <1>1, <2>5 DEF ControlInv, ValuesTyped
  <1>2. ControlInv /\ NothingLost => InSync
    BY <1>1 DEF InSync
  <1> QED
    BY <1>2, ControlIsInvariant, NothingIsLost, PTL
================================================================================
