---------------------------- MODULE Expiration_proofs ----------------------------
(***************************************************************************)
(* Safety of Expiration for every set of leases and of grants, every shape *)
(* of the device tree and every number of devices.                         *)
(***************************************************************************)
EXTENDS Expiration, Naturals_proofs

\* Where the handler has no pointer of its scan, and where it removes a device, which
\* is before the one that it goes on with.
ScanInv ==
  /\ pc["handler"] \in {"top", "locking", "scanned", "asleep", "done"} => cursor = NoObject
  /\ pc["handler"] = "scanning" => CursorExists
  /\ held # NoObject /\ cursor # NoObject => held < cursor
  /\ part # Root => pc["handler"] \in {"finding", "telling", "undefined"}
  /\ replaced => pc["handler"] \in {"telling", "undefined"}

\* Stop has got past its wait only with the action of the handler at its end, and is over
\* with the SSDP workers joined.
StopInv ==
  /\ pc["app"] \in {"joining", "stopped"} => pc["handler"] = "done"
  /\ pc["app"] = "stopped" => pc["worker"] = "idle"

HandlerInv == TypeOK /\ ScanInv /\ StopInv

\* A scan that nothing disturbed has in expirationTime a time that covers the devices
\* behind its cursor.
Scanned == \A o \in deviceList : cursor = NoObject \/ o < cursor => Covers(expirationTime, o)

SteadyInv ==
  steady =>
    /\ pc["handler"] \in {"top", "locking", "scanning", "scanned", "asleep", "done"}
    /\ pc["handler"] \in {"locking", "scanning", "scanned"} => now = currTime
    /\ pc["handler"] = "locking" => expirationTime = Never
    /\ pc["handler"] \in {"scanning", "scanned", "asleep"} => Scanned
    /\ pc["handler"] = "asleep" => deadline = IF expirationTime > currTime THEN expirationTime ELSE Never

--------------------------------------------------------------------------------
LEMMA Numbers ==
  /\ Objects \subseteq Nat /\ NoObject = 0 /\ 0 \notin Objects /\ Never = 0
  /\ MaxObjects \in Nat /\ MaxTime \in Nat /\ Objects = 1..MaxObjects
  /\ Leases \subseteq Nat /\ Grants \subseteq Nat
  /\ Embedded \in Nat /\ Parts = 0..Embedded /\ Root = 0
  /\ \A s \in Services : s[1] \in Parts
  <1>1. \A s \in Services : s[1] \in Parts
    BY ExpirationAssumption
  <1> QED
    BY <1>1, ExpirationAssumption DEF Objects, NoObject, Never, Parts, Root

\* mupnp_device_next goes to the next device of the list, and at its end to none.
LEMMA AfterIsNext ==
  ASSUME deviceList \subseteq Objects, NEW o \in Nat
  PROVE  /\ After(o) = NoObject => \A q \in deviceList : q <= o
         /\ After(o) # NoObject => /\ After(o) \in deviceList /\ o < After(o)
                                   /\ \A q \in deviceList : o < q => After(o) <= q
  <1> DEFINE rest == {q \in deviceList : q > o}
  <1>1. rest \in SUBSET Nat /\ 0 \notin rest
    BY Numbers
  <1>2. CASE rest = {}
    <2>1. After(o) = NoObject
      BY <1>2 DEF After
    <2>2. \A q \in deviceList : q <= o
      <3> TAKE q \in deviceList
      <3>1. q \in Nat /\ ~(q > o)
        BY <1>2, Numbers
      <3> QED
        BY <3>1
    <2> QED
      BY <2>1, <2>2
  <1>3. CASE rest # {}
    <2>1. After(o) = CHOOSE q \in rest : \A r \in rest : q <= r
      BY <1>3 DEF After
    <2>2. \E q \in rest : \A r \in rest : q <= r
      <3> HIDE DEF rest
      <3> QED
        BY <1>1, <1>3, LeastExists
    <2>3. After(o) \in rest /\ \A r \in rest : After(o) <= r
      <3> HIDE DEF rest
      <3> QED
        BY <2>1, <2>2
    <2>4. After(o) \in deviceList /\ After(o) > o /\ After(o) \in Nat /\ After(o) # NoObject
      BY <1>1, <2>3, Numbers
    <2>5. \A q \in deviceList : o < q => After(o) <= q
      <3> TAKE q \in deviceList
      <3>1. o < q => q \in rest
        BY Numbers
      <3> HIDE DEF rest
      <3> QED
        BY <2>3, <3>1
    <2> QED
      BY <2>4, <2>5
  <1> QED
    BY <1>2, <1>3

LEMMA EarliestIsFirst ==
  ASSUME NEW times \in SUBSET Nat, times # {}
  PROVE  Earliest(times) \in times /\ \A t \in times : Earliest(times) <= t
  <1>1. \E t \in times : \A u \in times : t <= u
    BY LeastExists
  <1> QED
    BY <1>1 DEF Earliest

\* Of the embedded devices that are found one is the last.
LEMMA LastExists ==
  ASSUME NEW found \in SUBSET (1..Embedded), found # {}
  PROVE  \E d \in found : \A e \in found : e <= d
  <1> DEFINE behind == {Embedded - d : d \in found}
  <1>1. behind \in SUBSET Nat /\ behind # {}
    <2>1. \A d \in found : d \in Nat /\ d <= Embedded /\ Embedded - d \in Nat
      BY Numbers
    <2> QED
      BY <2>1
  <1>2. PICK b \in behind : \A c \in behind : b <= c
    <2> HIDE DEF behind
    <2> QED
      BY <1>1, LeastExists
  <1>3. PICK d \in found : b = Embedded - d
    BY <1>2
  <1>4. ASSUME NEW e \in found
        PROVE  e <= d
    <2>1. b <= Embedded - e
      BY <1>2
    <2>2. d \in Nat /\ e \in Nat /\ Embedded \in Nat
      BY Numbers
    <2> QED
      BY <1>3, <2>1, <2>2
  <1> QED
    BY <1>4

\* What mupnp_device_getfirstexpiratedservice finds: no time without one to compare with;
\* else one that is not after it, nor after the renewal of any service but those of
\* embedded devices that a later one hides.
LEMMA FirstOfIsFirst ==
  ASSUME NEW r \in [Services -> Nat], NEW first \in Nat
  PROVE  /\ FirstOf(r, first) \in Nat
         /\ first = Never => FirstOf(r, first) = Never
         /\ first # Never =>
              /\ FirstOf(r, first) # Never /\ FirstOf(r, first) <= first
              /\ \A s \in Services :
                   r[s] # Never /\ ~(s[1] # Root /\ \E t \in Services : t[1] > s[1] /\ r[t] # Never) =>
                     FirstOf(r, first) <= r[s]
  <1> USE Numbers
  <1> DEFINE time == OwnFirst(r, first)
             found == Found(r, time)
             last == CHOOSE d \in found : \A e \in found : e <= d
  <1>1. \A d \in Parts : /\ Upcoming(r, d) \in SUBSET Nat /\ 0 \notin Upcoming(r, d)
                         /\ \A s \in Services : s[1] = d /\ r[s] # Never => r[s] \in Upcoming(r, d)
                         /\ \A t \in Upcoming(r, d) : \E s \in Services : s[1] = d /\ r[s] = t
    BY DEF Upcoming
  <1>2. /\ time \in Nat /\ time <= first
        /\ time = first \/ time \in Upcoming(r, Root)
        /\ \A t \in Upcoming(r, Root) : t < first => time <= t
    <2> DEFINE times == {first} \cup {t \in Upcoming(r, Root) : t < first}
    <2>1. times \in SUBSET Nat /\ times # {} /\ first \in times
      BY <1>1
    <2>2. time = Earliest(times)
      BY DEF OwnFirst
    <2>3. time \in times /\ \A t \in times : time <= t
      <3> HIDE DEF times, time
      <3> QED
        BY <2>1, <2>2, EarliestIsFirst
    <2> HIDE DEF time
    <2> QED
      BY <1>1, <2>1, <2>3
  <1>3. found \in SUBSET (1..Embedded) /\ 1..Embedded \subseteq Parts
    BY DEF Found
  <1>4. /\ first = Never => time = Never
        /\ first # Never => time # Never
    <2> HIDE DEF time
    <2> QED
      BY <1>1, <1>2
  <1>5. CASE found = {}
    <2>1. FirstOf(r, first) = time
      BY <1>5 DEF FirstOf
    <2>2. ASSUME NEW s \in Services, r[s] # Never, first # Never
          PROVE  time <= r[s]
      <3>1. CASE s[1] = Root
        <4>1. r[s] \in Upcoming(r, Root) /\ r[s] \in Nat
          BY <1>1, <2>2, <3>1
        <4> HIDE DEF time
        <4> QED
          BY <1>2, <4>1
      <3>2. CASE s[1] # Root
        <4>1. s[1] \in 1..Embedded /\ r[s] \in Upcoming(r, s[1]) /\ r[s] \in Nat
          BY <1>1, <2>2, <3>2
        <4>2. ~(r[s] < time)
          BY <1>5, <4>1 DEF Found
        <4> HIDE DEF time
        <4> QED
          BY <1>2, <4>1, <4>2
      <3> QED
        BY <3>1, <3>2
    <2> HIDE DEF time
    <2> QED
      BY <1>2, <1>4, <2>1, <2>2
  <1>6. CASE found # {}
    <2>1. FirstOf(r, first) = Earliest(Upcoming(r, last))
      BY <1>6 DEF FirstOf
    <2>2. last \in found /\ \A e \in found : e <= last
      <3>1. \E d \in found : \A e \in found : e <= d
        <4> HIDE DEF found
        <4> QED
          BY <1>3, <1>6, LastExists
      <3> QED
        BY <3>1
    <2>3. last \in 1..Embedded /\ last \in Parts /\ last # Root
      <3> HIDE DEF last, found
      <3> QED
        BY <1>3, <2>2
    <2>4. PICK early \in Upcoming(r, last) : early < time
      <3> HIDE DEF last, time
      <3> QED
        BY <2>2 DEF Found
    <2>5. /\ FirstOf(r, first) \in Upcoming(r, last)
          /\ \A t \in Upcoming(r, last) : FirstOf(r, first) <= t
      <3>1. Upcoming(r, last) \in SUBSET Nat /\ Upcoming(r, last) # {}
        <4> HIDE DEF last
        <4> QED
          BY <1>1, <2>3, <2>4
      <3> HIDE DEF last
      <3> QED
        BY <2>1, <3>1, EarliestIsFirst
    <2>6. FirstOf(r, first) \in Nat /\ FirstOf(r, first) # Never /\ FirstOf(r, first) < time
      <3> HIDE DEF last, time
      <3>1. early \in Nat /\ FirstOf(r, first) \in Nat /\ FirstOf(r, first) <= early /\ FirstOf(r, first) # 0
        BY <1>1, <2>3, <2>4, <2>5
      <3> QED
        BY <1>2, <2>4, <3>1
    <2>7. ASSUME NEW s \in Services, r[s] # Never, first # Never,
                 ~(s[1] # Root /\ \E t \in Services : t[1] > s[1] /\ r[t] # Never)
          PROVE  FirstOf(r, first) <= r[s]
      <3>1. CASE s[1] = Root
        <4>1. r[s] \in Upcoming(r, Root) /\ r[s] \in Nat
          BY <1>1, <2>7, <3>1
        <4> HIDE DEF time, last
        <4> QED
          BY <1>2, <2>6, <4>1
      <3>2. CASE s[1] # Root
        <4>1. s[1] \in 1..Embedded /\ r[s] \in Upcoming(r, s[1]) /\ r[s] \in Nat
          BY <1>1, <2>7, <3>2
        <4>2. CASE s[1] = last
          <5> HIDE DEF last, time
          <5> QED
            BY <2>5, <4>1, <4>2
        <4>3. CASE s[1] # last
          <5>1. PICK t \in Services : t[1] = last /\ r[t] = early
            <6> HIDE DEF last, time
            <6> QED
              BY <1>1, <2>3, <2>4
          <5>2. r[t] # Never
            <6> HIDE DEF last, time
            <6> QED
              BY <1>1, <2>3, <2>4, <5>1
          <5>3. ~(t[1] > s[1])
            BY <2>7, <3>2, <5>2
          <5>4. last < s[1] /\ s[1] \notin found
            <6> HIDE DEF last, found
            <6> QED
              BY <2>2, <2>3, <4>1, <4>3, <5>1, <5>3
          <5>5. ~(r[s] < time)
            BY <4>1, <5>4 DEF Found
          <5> HIDE DEF last, time, found
          <5> QED
            BY <1>2, <2>6, <4>1, <5>5
        <4> QED
          BY <4>2, <4>3
      <3> QED
        BY <3>1, <3>2
    <2> HIDE DEF last, time, found
    <2> QED
      BY <1>2, <1>4, <2>6, <2>7
  <1> QED
    BY <1>5, <1>6

\* What looking at the services of the device of the cursor does: the renewals of this
\* device are planned, and the first of them is found.
LEMMA ChecksOne ==
  ASSUME TypeOK, cursor \in Objects, NEW first \in Nat, ChecksServices(first)
  PROVE  /\ renewal' \in [Objects -> [Services -> Nat]]
         /\ \A o \in Objects \ {cursor} : renewal'[o] = renewal[o]
         /\ expirationTime' = FirstOf(renewal'[cursor], first)
         /\ expirationTime' \in Nat
  <1>1. PICK at \in [Due(cursor) -> {Never} \cup {now + g : g \in Grants}] :
          LET renewals == [s \in Services |-> IF s \in Due(cursor) THEN at[s] ELSE renewal[cursor][s]]
          IN  /\ renewal' = [renewal EXCEPT ![cursor] = renewals]
              /\ expirationTime' = FirstOf(renewals, first)
    BY DEF ChecksServices
  <1> DEFINE renewals == [s \in Services |-> IF s \in Due(cursor) THEN at[s] ELSE renewal[cursor][s]]
  <1>2. renewals \in [Services -> Nat]
    <2>1. now \in Nat /\ renewal[cursor] \in [Services -> Nat]
      BY Numbers DEF TypeOK, Times
    <2>a. \A s \in Services : renewal[cursor][s] \in Nat
      BY <2>1
    <2>2. \A g \in Grants : now + g \in Nat
      <3>1. now \in Nat
        BY <2>1
      <3>2. \A g \in Grants : g \in Nat
        BY Numbers
      <3> QED
        BY <3>1, <3>2
    <2>3. \A s \in Due(cursor) : at[s] \in Nat
      <3> TAKE s \in Due(cursor)
      <3>1. at[s] \in {Never} \cup {now + g : g \in Grants}
        OBVIOUS
      <3> QED
        BY <2>2, <3>1, Numbers
    <2> QED
      BY <2>a, <2>3
  <1>3. renewal \in [Objects -> [Services -> Nat]] /\ renewal' = [renewal EXCEPT ![cursor] = renewals]
    BY <1>1 DEF TypeOK, Times
  <1>4. /\ renewal' \in [Objects -> [Services -> Nat]] /\ renewal'[cursor] = renewals
        /\ \A o \in Objects \ {cursor} : renewal'[o] = renewal[o]
    <2> HIDE DEF renewals
    <2> QED
      BY <1>2, <1>3
  <1>5. expirationTime' = FirstOf(renewals, first)
    BY <1>1
  <1> HIDE DEF renewals
  <1> QED
    BY <1>2, <1>4, <1>5, FirstOfIsFirst

\* A device is deleted with its packet and its subscriptions; the others keep theirs.
LEMMA DeletesOne ==
  ASSUME TypeOK, NEW o \in Objects, NEW d \in Parts, Deletes(o, d)
  PROVE  /\ deviceList' = IF d = Root THEN deviceList \ {o} ELSE deviceList
         /\ embedded' \in [Objects -> SUBSET (1..Embedded)]
         /\ renewal' \in [Objects -> [Services -> Nat]]
         /\ expiry' \in [Objects -> Nat] /\ named' \in [Objects -> Parts]
         /\ \A q \in Objects \ {o} : renewal'[q] = renewal[q] /\ expiry'[q] = expiry[q]
  <1> DEFINE kept == [s \in Services |-> IF d \in {Root, s[1]} THEN Never ELSE renewal[o][s]]
             left == IF d = Root THEN {} ELSE embedded[o] \ {d}
  <1>1. renewal[o] \in [Services -> Nat] /\ renewal \in [Objects -> [Services -> Nat]]
    BY DEF TypeOK, Times
  <1>2. kept \in [Services -> Nat] /\ renewal' = [renewal EXCEPT ![o] = kept]
    BY <1>1, Numbers DEF Deletes
  <1>3. /\ embedded' = [embedded EXCEPT ![o] = left] /\ left \subseteq 1..Embedded
        /\ embedded \in [Objects -> SUBSET (1..Embedded)]
    BY DEF Deletes, TypeOK
  <1>5. /\ expiry' \in [Objects -> Nat] /\ named' \in [Objects -> Parts]
        /\ \A q \in Objects \ {o} : expiry'[q] = expiry[q]
    <2>1. Root \in Parts
      <3>1. 0 \in 0..Embedded
        BY Numbers
      <3> QED
        BY <3>1, Numbers
    <2> QED
      BY <2>1, Numbers DEF Deletes, TypeOK, Times
  <1>4. deviceList' = IF d = Root THEN deviceList \ {o} ELSE deviceList
    BY DEF Deletes
  <1> HIDE DEF kept, left
  <1> QED
    BY <1>1, <1>2, <1>3, <1>4, <1>5

\* A thread goes from where it is to where it goes, and the others stay.
PcState == [handler : HandlerPc, worker : WorkerPc, app : AppPc]

LEMMA HandlerMoves ==
  ASSUME pc \in PcState, NEW to \in HandlerPc, pc' = [pc EXCEPT !["handler"] = to]
  PROVE  pc' \in PcState /\ pc'["handler"] = to /\ pc'["app"] = pc["app"] /\ pc'["worker"] = pc["worker"]
  BY DEF PcState

LEMMA WorkerMoves ==
  ASSUME pc \in PcState, NEW to \in WorkerPc, pc' = [pc EXCEPT !["worker"] = to]
  PROVE  pc' \in PcState /\ pc'["worker"] = to /\ pc'["app"] = pc["app"] /\ pc'["handler"] = pc["handler"]
  BY DEF PcState

LEMMA AppMoves ==
  ASSUME pc \in PcState, NEW to \in AppPc, pc' = [pc EXCEPT !["app"] = to]
  PROVE  pc' \in PcState /\ pc'["app"] = to /\ pc'["handler"] = pc["handler"] /\ pc'["worker"] = pc["worker"]
  BY DEF PcState

\* A signal moves the handler out of its wait, and does nothing else.
LEMMA SignalMoves ==
  ASSUME pc \in PcState, SignalsHandler
  PROVE  /\ pc' \in PcState /\ pc'["app"] = pc["app"] /\ pc'["worker"] = pc["worker"]
         /\ pc'["handler"] = IF pc["handler"] = "asleep" THEN "top" ELSE pc["handler"]
         /\ steady' = FALSE
  <1>1. CASE pc["handler"] = "asleep"
    <2>1. pc' = [pc EXCEPT !["handler"] = "top"] /\ "top" \in HandlerPc /\ steady' = FALSE
      BY <1>1 DEF SignalsHandler, HandlerPc
    <2> QED
      BY <1>1, <2>1, HandlerMoves
  <1>2. CASE pc["handler"] # "asleep"
    BY <1>2 DEF SignalsHandler
  <1> QED
    BY <1>1, <1>2

--------------------------------------------------------------------------------
LEMMA InitHandler == Init => HandlerInv /\ SteadyInv
  <1> SUFFICES ASSUME Init PROVE HandlerInv /\ SteadyInv
    OBVIOUS
  <1> USE ExpirationAssumption, Numbers DEF Init
  <1>1. pc["handler"] = "top" /\ pc["app"] = "idle" /\ pc["worker"] = "idle"
    OBVIOUS
  <1>2. TypeOK
    <2>1. /\ now \in 1..MaxTime /\ currTime \in 0..MaxTime
          /\ made \in 0..MaxObjects /\ deviceList \subseteq 1..made
      OBVIOUS
    <2>2. /\ expiry \in [Objects -> Times] /\ named \in [Objects -> Parts]
          /\ embedded \in [Objects -> SUBSET (1..Embedded)]
      BY DEF Times
    <2>3. renewal \in [Objects -> [Services -> Times]]
      <3>1. [s \in Services |-> Never] \in [Services -> Times]
        BY DEF Times
      <3> QED
        BY <3>1
    <2>a. part \in Parts
      <3>1. part = 0 /\ 0 \in 0..Embedded
        OBVIOUS
      <3> QED
        BY <3>1
    <2>4. /\ runnable \in BOOLEAN /\ steady \in BOOLEAN /\ replaced \in BOOLEAN
          /\ cursor = NoObject /\ held = NoObject /\ target = NoObject /\ part \in Parts
          /\ expirationTime \in Times /\ deadline \in Times
      BY <2>a DEF Times
    <2>5. pc \in [handler : HandlerPc, worker : WorkerPc, app : AppPc]
      BY DEF HandlerPc, WorkerPc, AppPc
    <2> HIDE DEF Init
    <2> QED
      BY <1>1, <2>1, <2>2, <2>3, <2>4, <2>5 DEF TypeOK
  <1>3. ScanInv /\ StopInv
    BY <1>1 DEF ScanInv, StopInv
  <1>4. SteadyInv
    BY DEF SteadyInv
  <1> QED
    BY <1>2, <1>3, <1>4 DEF HandlerInv

\* The steps of the handler.
LEMMA HandlerStepHandler ==
  ASSUME HandlerInv, HandlerStep
  PROVE  HandlerInv'
  <1> USE Numbers DEF HandlerInv
  <1>a. /\ pc \in PcState /\ deviceList \subseteq Objects /\ made \in Nat
        /\ now \in Nat /\ expirationTime \in Nat /\ currTime \in Nat
        /\ \A o \in Objects : expiry[o] \in Nat
    BY DEF TypeOK, PcState, Times
  <1>b. /\ pc["handler"] \in {"removing", "finding", "telling"} => held \in Objects
        /\ pc["handler"] \notin {"removing", "finding", "telling", "undefined"} => held = NoObject
    BY DEF TypeOK
  <1>1. CASE Begins
    <2>1. /\ pc["handler"] = "top" /\ pc'["handler"] \in {"locking", "done"}
          /\ pc' \in PcState /\ pc'["app"] = pc["app"] /\ pc'["worker"] = pc["worker"]
      <3>1. "locking" \in HandlerPc /\ "done" \in HandlerPc
        BY DEF HandlerPc
      <3> QED
        BY <1>1, <1>a, <3>1, HandlerMoves DEF Begins
    <2>2. /\ currTime' \in {now, currTime} /\ expirationTime' \in {Never, expirationTime}
          /\ deadline' \in {Never, deadline} /\ steady' \in BOOLEAN
          /\ UNCHANGED <<now, made, deviceList, expiry, named, embedded, renewal, runnable, cursor,
                         held, part, replaced, target>>
      BY <1>1 DEF Begins, deviceVars, foundVars, TypeOK
    <2>3. currTime' \in 0..MaxTime /\ expirationTime' \in Times /\ deadline' \in Times
      BY <2>2 DEF TypeOK, Times
    <2>4. TypeOK'
      BY <1>b, <2>1, <2>2, <2>3 DEF TypeOK, PcState
    <2> QED
      BY <2>1, <2>2, <2>4 DEF ScanInv, StopInv
  <1>2. CASE Locks
    <2>1. /\ pc["handler"] = "locking" /\ pc'["handler"] = "scanning"
          /\ pc' \in PcState /\ pc'["app"] = pc["app"] /\ pc'["worker"] = pc["worker"]
      <3>1. "scanning" \in HandlerPc
        BY DEF HandlerPc
      <3> QED
        BY <1>2, <1>a, <3>1, HandlerMoves DEF Locks, Goto
    <2>2. /\ cursor' = After(NoObject)
          /\ UNCHANGED <<now, made, deviceList, expiry, named, embedded, renewal, runnable, currTime,
                         expirationTime, deadline, held, part, replaced, target, steady>>
      BY <1>2 DEF Locks, deviceVars, foundVars
    <2>3. cursor' # NoObject => cursor' \in deviceList
      BY <1>a, <2>2, AfterIsNext
    <2>4. TypeOK'
      BY <1>a, <1>b, <2>1, <2>2, <2>3 DEF TypeOK, PcState
    <2> QED
      BY <1>b, <2>1, <2>2, <2>3, <2>4 DEF ScanInv, StopInv, CursorExists
  <1>3. CASE MeetsExpired
    <2>1. /\ pc["handler"] = "scanning" /\ pc'["handler"] = "removing"
          /\ pc' \in PcState /\ pc'["app"] = pc["app"] /\ pc'["worker"] = pc["worker"]
      <3>1. "removing" \in HandlerPc
        BY DEF HandlerPc
      <3> QED
        BY <1>3, <1>a, <3>1, HandlerMoves DEF MeetsExpired, Goto
    <2>2. /\ cursor' = After(cursor) /\ held' = cursor /\ cursor # NoObject /\ steady' = FALSE
          /\ UNCHANGED <<now, made, deviceList, expiry, named, embedded, renewal, runnable, currTime,
                         expirationTime, deadline, part, replaced, target>>
      BY <1>3 DEF MeetsExpired, deviceVars
    <2>3. cursor \in deviceList /\ cursor \in Objects
      BY <1>a, <2>1, <2>2 DEF ScanInv, CursorExists
    <2>4. cursor' # NoObject => cursor' \in deviceList /\ cursor < cursor'
      BY <1>a, <2>2, <2>3, AfterIsNext
    <2>5. TypeOK'
      BY <1>a, <2>1, <2>2, <2>3, <2>4 DEF TypeOK, PcState
    <2> QED
      BY <2>1, <2>2, <2>3, <2>4, <2>5 DEF ScanInv, StopInv
  <1>4. CASE MeetsLive
    <2>1. /\ pc["handler"] = "scanning" /\ cursor # NoObject /\ cursor' = After(cursor)
          /\ ChecksServices(FirstExpiry(expiry[cursor]))
          /\ UNCHANGED <<now, made, deviceList, expiry, named, embedded, runnable, pc, currTime,
                         deadline, held, part, replaced, target, steady>>
      BY <1>4 DEF MeetsLive, foundVars
    <2>2. cursor \in deviceList /\ cursor \in Objects
      BY <1>a, <2>1 DEF ScanInv, CursorExists
    <2>3. FirstExpiry(expiry[cursor]) \in Nat
      BY <1>a, <2>2 DEF FirstExpiry
    <2>4. renewal' \in [Objects -> [Services -> Nat]] /\ expirationTime' \in Nat
      BY <2>1, <2>2, <2>3, ChecksOne
    <2>5. cursor' # NoObject => cursor' \in deviceList
      BY <1>a, <2>1, <2>2, AfterIsNext
    <2>6. TypeOK'
      BY <1>a, <2>1, <2>4, <2>5 DEF TypeOK, PcState, Times
    <2> QED
      BY <1>b, <2>1, <2>5, <2>6 DEF ScanInv, StopInv, CursorExists
  <1>5. CASE EndsScan
    <2>1. /\ pc["handler"] = "scanning" /\ pc'["handler"] = "scanned"
          /\ pc' \in PcState /\ pc'["app"] = pc["app"] /\ pc'["worker"] = pc["worker"]
      <3>1. "scanned" \in HandlerPc
        BY DEF HandlerPc
      <3> QED
        BY <1>5, <1>a, <3>1, HandlerMoves DEF EndsScan, Goto
    <2>2. /\ cursor = NoObject
          /\ UNCHANGED <<now, made, deviceList, expiry, named, embedded, renewal, runnable, cursor,
                         currTime, expirationTime, deadline, held, part, replaced, target, steady>>
      BY <1>5 DEF EndsScan, deviceVars, scanVars, foundVars
    <2>3. TypeOK'
      BY <1>b, <2>1, <2>2 DEF TypeOK, PcState
    <2> QED
      BY <2>1, <2>2, <2>3 DEF ScanInv, StopInv
  <1>6. CASE ReadsUsn
    <2>1. /\ pc["handler"] = "removing" /\ pc'["handler"] = "finding"
          /\ pc' \in PcState /\ pc'["app"] = pc["app"] /\ pc'["worker"] = pc["worker"]
      <3>1. "finding" \in HandlerPc
        BY DEF HandlerPc
      <3> QED
        BY <1>6, <1>a, <3>1, HandlerMoves DEF ReadsUsn, Goto
    <2>2. /\ part' = named[held]
          /\ UNCHANGED <<now, made, deviceList, expiry, named, embedded, renewal, runnable, cursor,
                         currTime, expirationTime, deadline, held, replaced, target, steady>>
      BY <1>6 DEF ReadsUsn, deviceVars, scanVars
    <2>3. part' \in Parts
      BY <1>b, <2>1, <2>2 DEF TypeOK
    <2>4. TypeOK'
      BY <1>b, <2>1, <2>2, <2>3 DEF TypeOK, PcState
    <2> QED
      BY <2>1, <2>2, <2>4 DEF ScanInv, StopInv
  <1>7. CASE FindsDevice
    <2>1. /\ pc["handler"] = "finding" /\ pc' \in PcState
          /\ pc'["app"] = pc["app"] /\ pc'["worker"] = pc["worker"]
          /\ \/ pc'["handler"] = "telling" /\ UNCHANGED <<held, part>>
             \/ pc'["handler"] = "relocking" /\ held' = NoObject /\ part' = Root
      <3>1. "telling" \in HandlerPc /\ "relocking" \in HandlerPc
        BY DEF HandlerPc
      <3> QED
        BY <1>7, <1>a, <3>1, HandlerMoves DEF FindsDevice, Goto
    <2>2. UNCHANGED <<now, made, deviceList, expiry, named, embedded, renewal, runnable, cursor,
                      currTime, expirationTime, deadline, replaced, target, steady>>
      BY <1>7 DEF FindsDevice, deviceVars, scanVars
    <2>3. TypeOK'
      BY <1>b, <2>1, <2>2 DEF TypeOK, PcState
    <2> QED
      BY <2>1, <2>2, <2>3 DEF ScanInv, StopInv
  <1>8. CASE DeletesDevice
    <2>1. /\ pc["handler"] = "telling" /\ pc'["handler"] = "relocking"
          /\ pc' \in PcState /\ pc'["app"] = pc["app"] /\ pc'["worker"] = pc["worker"]
      <3>1. "relocking" \in HandlerPc
        BY DEF HandlerPc
      <3> QED
        BY <1>8, <1>a, <3>1, HandlerMoves DEF DeletesDevice, Goto
    <2>2. /\ held' = NoObject /\ part' = Root /\ Deletes(held, part)
          /\ UNCHANGED <<now, made, runnable, cursor, currTime, expirationTime, deadline, replaced,
                         target, steady>>
      BY <1>8 DEF DeletesDevice, scanVars
    <2>3. held \in Objects /\ part \in Parts
      BY <1>b, <2>1 DEF TypeOK
    <2>4. /\ deviceList' \subseteq deviceList
          /\ embedded' \in [Objects -> SUBSET (1..Embedded)]
          /\ renewal' \in [Objects -> [Services -> Nat]]
          /\ expiry' \in [Objects -> Nat] /\ named' \in [Objects -> Parts]
      BY <2>2, <2>3, DeletesOne
    <2>a. part' \in Parts
      <3>1. 0 \in 0..Embedded
        OBVIOUS
      <3> QED
        BY <2>2, <3>1
    <2>b. deviceList' \subseteq 1..made'
      BY <2>2, <2>4 DEF TypeOK
    <2>5. TypeOK'
      BY <2>1, <2>2, <2>4, <2>a, <2>b DEF TypeOK, PcState, Times
    <2>6. ~replaced
      BY <1>8, <2>1 DEF DeletesDevice, FoundExists
    <2> QED
      BY <2>1, <2>2, <2>5, <2>6 DEF ScanInv, StopInv
  <1>9. CASE Continues
    <2> DEFINE to == IF cursor = NoObject THEN "scanned" ELSE "scanning"
    <2>1. /\ pc["handler"] = "relocking" /\ pc'["handler"] = to
          /\ pc' \in PcState /\ pc'["app"] = pc["app"] /\ pc'["worker"] = pc["worker"]
      <3>1. to \in HandlerPc
        BY DEF HandlerPc
      <3>2. pc["handler"] = "relocking" /\ pc' = [pc EXCEPT !["handler"] = to]
        BY <1>9 DEF Continues, Goto
      <3> HIDE DEF to
      <3> QED
        BY <1>a, <3>1, <3>2, HandlerMoves
    <2>2. /\ UNCHANGED <<now, made, deviceList, expiry, named, embedded, runnable, currTime, deadline,
                         held, part, replaced, target, steady>>
          /\ held = NoObject
      BY <1>9, <1>b, <2>1 DEF Continues, foundVars
    <2>3. /\ renewal' \in [Objects -> [Services -> Nat]] /\ expirationTime' \in Nat
          /\ cursor = NoObject => cursor' = NoObject
          /\ cursor' # NoObject => cursor' \in deviceList
      <3>1. CASE cursor = NoObject
        BY <1>9, <3>1 DEF Continues, TypeOK, Times
      <3>2. CASE cursor # NoObject
        <4>1. cursor \in Objects /\ ChecksServices(expirationTime) /\ cursor' = After(cursor)
          BY <1>9, <3>2 DEF Continues, TypeOK
        <4>2. renewal' \in [Objects -> [Services -> Nat]] /\ expirationTime' \in Nat
          BY <1>a, <4>1, ChecksOne
        <4>3. cursor' # NoObject => cursor' \in deviceList
          BY <1>a, <4>1, AfterIsNext
        <4> QED
          BY <3>2, <4>2, <4>3
      <3> QED
        BY <3>1, <3>2
    <2>4. TypeOK'
      <3>1. pc'["handler"] \in {"scanned", "scanning"}
        BY <2>1
      <3>2. cursor' \in Objects \cup {NoObject}
        BY <1>a, <2>3
      <3> HIDE DEF to
      <3> QED
        BY <2>1, <2>2, <2>3, <3>1, <3>2 DEF TypeOK, PcState, Times
    <2> QED
      BY <2>1, <2>2, <2>3, <2>4 DEF ScanInv, StopInv, CursorExists
  <1>10. CASE UsesFreed
    <2>1. /\ pc["handler"] \in {"removing", "telling", "relocking"} /\ pc'["handler"] = "undefined"
          /\ pc' \in PcState /\ pc'["app"] = pc["app"] /\ pc'["worker"] = pc["worker"]
      <3>1. "undefined" \in HandlerPc
        BY DEF HandlerPc
      <3> QED
        BY <1>10, <1>a, <3>1, HandlerMoves DEF UsesFreed
    <2>2. UNCHANGED <<now, made, deviceList, expiry, named, embedded, renewal, runnable, cursor,
                      currTime, expirationTime, deadline, held, part, replaced, target, steady>>
      BY <1>10 DEF UsesFreed, deviceVars, scanVars, foundVars
    <2>3. TypeOK'
      BY <2>1, <2>2 DEF TypeOK, PcState
    <2> QED
      BY <2>1, <2>2, <2>3 DEF ScanInv, StopInv
  <1>11. CASE FallsAsleep
    <2> DEFINE to == IF runnable THEN "asleep" ELSE "done"
    <2>1. /\ pc["handler"] = "scanned" /\ pc'["handler"] \in {"asleep", "done"}
          /\ pc' \in PcState /\ pc'["app"] = pc["app"] /\ pc'["worker"] = pc["worker"]
      <3>1. to \in HandlerPc /\ to \in {"asleep", "done"}
        BY DEF HandlerPc
      <3>2. pc["handler"] = "scanned" /\ pc' = [pc EXCEPT !["handler"] = to]
        BY <1>11 DEF FallsAsleep, Goto
      <3> HIDE DEF to
      <3> QED
        BY <1>a, <3>1, <3>2, HandlerMoves
    <2>2. /\ currTime' \in {now, currTime}
          /\ UNCHANGED <<now, made, deviceList, expiry, named, embedded, renewal, runnable, cursor,
                         expirationTime, held, part, replaced, target, steady>>
      BY <1>11 DEF FallsAsleep, deviceVars, foundVars
    <2>3. deadline' \in Nat /\ currTime' \in 0..MaxTime
      <3>1. deadline' = IF Timeout = 0 THEN Never ELSE now + Timeout
        BY <1>11 DEF FallsAsleep
      <3>2. Timeout # 0 => now + Timeout = expirationTime
        BY <1>a DEF Timeout
      <3>3. currTime' \in 0..MaxTime
        BY <2>2 DEF TypeOK
      <3> QED
        BY <1>a, <3>1, <3>2, <3>3
    <2>4. TypeOK'
      BY <1>b, <2>1, <2>2, <2>3 DEF TypeOK, PcState, Times
    <2> QED
      BY <2>1, <2>2, <2>4 DEF ScanInv, StopInv
  <1>12. CASE TimesOut
    <2>1. /\ pc["handler"] = "asleep" /\ pc'["handler"] = "top"
          /\ pc' \in PcState /\ pc'["app"] = pc["app"] /\ pc'["worker"] = pc["worker"]
      <3>1. "top" \in HandlerPc
        BY DEF HandlerPc
      <3> QED
        BY <1>12, <1>a, <3>1, HandlerMoves DEF TimesOut, Goto
    <2>2. UNCHANGED <<now, made, deviceList, expiry, named, embedded, renewal, runnable, cursor,
                      currTime, expirationTime, deadline, held, part, replaced, target, steady>>
      BY <1>12 DEF TimesOut, deviceVars, scanVars, foundVars
    <2>3. TypeOK'
      BY <1>b, <2>1, <2>2 DEF TypeOK, PcState
    <2> QED
      BY <2>1, <2>2, <2>3 DEF ScanInv, StopInv
  <1> QED
    BY <1>1, <1>2, <1>3, <1>4, <1>5, <1>6, <1>7, <1>8, <1>9, <1>10, <1>11, <1>12 DEF HandlerStep

LEMMA StoresOne ==
  ASSUME TypeOK, NEW o \in Objects, NEW d \in Parts, NEW lease \in Leases, Stores(o, d, lease)
  PROVE  expiry' \in [Objects -> Times] /\ named' \in [Objects -> Parts]
  <1>1. now \in Nat /\ lease \in Nat
    BY Numbers DEF TypeOK
  <1>2. (IF lease = 0 THEN Never ELSE now + lease) \in Times
    BY <1>1, Numbers DEF Times
  <1> QED
    BY <1>2 DEF Stores, TypeOK

\* The steps of the others.
Others ==
  \/ Tick
  \/ \E lease \in Leases, d \in Parts :
       Adds(d, lease) \/ \E o \in Objects : Refreshes(o, d, lease) \/ Describes(o, d, lease)
  \/ FailsToFetch
  \/ \E o \in Objects : HearsByebye(o) \/ \E s \in Services : Subscribes(o, s)
  \/ DeletesTarget
  \/ CallsStop \/ WakesHandler \/ ClearsDevices

LEMMA OtherStepHandler ==
  ASSUME HandlerInv, Others
  PROVE  HandlerInv'
  <1> USE Numbers DEF HandlerInv
  <1>a. /\ pc \in PcState /\ deviceList \subseteq Objects /\ made \in Nat /\ now \in Nat
        /\ embedded \in [Objects -> SUBSET (1..Embedded)]
        /\ renewal \in [Objects -> [Services -> Nat]]
    BY DEF TypeOK, PcState, Times
  <1>b. ASSUME SignalsHandler, Unlocked, TypeOK', UNCHANGED <<cursor, held, part>>,
               replaced' => replaced \/ pc["handler"] = "telling"
        PROVE  HandlerInv'
    <2>1. /\ pc' \in PcState /\ pc'["app"] = pc["app"] /\ pc'["worker"] = pc["worker"]
          /\ pc'["handler"] = IF pc["handler"] = "asleep" THEN "top" ELSE pc["handler"]
      BY <1>a, <1>b, SignalMoves
    <2> QED
      BY <1>b, <2>1 DEF ScanInv, StopInv, Unlocked
  <1>c. ASSUME SignalsHandler
        PROVE  /\ steady' \in BOOLEAN
               /\ pc' \in [handler : HandlerPc, worker : WorkerPc, app : AppPc]
               /\ pc'["handler"] \in {"removing", "finding", "telling"} => held # NoObject
               /\ held # NoObject => pc'["handler"] \in {"removing", "finding", "telling", "undefined"}
               /\ target # NoObject <=> pc'["worker"] \in {"telling", "undefined"}
    <2>1. /\ pc' \in PcState /\ pc'["app"] = pc["app"] /\ pc'["worker"] = pc["worker"]
          /\ pc'["handler"] = IF pc["handler"] = "asleep" THEN "top" ELSE pc["handler"]
          /\ steady' = FALSE
      BY <1>a, <1>c, SignalMoves
    <2> QED
      BY <2>1 DEF TypeOK, PcState
  <1>1. CASE Tick
    <2>1. /\ now' \in 1..MaxTime /\ steady' \in BOOLEAN
          /\ UNCHANGED <<made, deviceList, expiry, named, embedded, renewal, runnable, pc, cursor,
                         currTime, expirationTime, deadline, held, part, replaced, target>>
      BY <1>1 DEF Tick, TypeOK, deviceVars, scanVars, foundVars
    <2>2. TypeOK'
      BY <2>1 DEF TypeOK
    <2> QED
      BY <2>1, <2>2 DEF ScanInv, StopInv, CursorExists
  <1>2. ASSUME NEW lease \in Leases, NEW d \in Parts, Adds(d, lease)
        PROVE  HandlerInv'
    <2>1. /\ made' = made + 1 /\ deviceList' = deviceList \cup {made + 1} /\ made < MaxObjects
          /\ Stores(made + 1, d, lease) /\ SignalsHandler /\ Unlocked
          /\ embedded' = [embedded EXCEPT ![made + 1] = 1..Embedded]
          /\ UNCHANGED <<now, renewal, runnable, cursor, currTime, expirationTime, deadline, held,
                         part, replaced, target>>
      BY <1>2 DEF Adds, scanVars, foundVars
    <2>2. made' \in 0..MaxObjects /\ deviceList' \subseteq 1..made' /\ made + 1 \in Objects
      BY <1>a, <2>1 DEF TypeOK
    <2>3. expiry' \in [Objects -> Times] /\ named' \in [Objects -> Parts]
      BY <2>1, <2>2, StoresOne
    <2>4. embedded' \in [Objects -> SUBSET (1..Embedded)]
      BY <1>a, <2>1
    <2>5. TypeOK'
      BY <1>c, <2>1, <2>2, <2>3, <2>4 DEF TypeOK
    <2> QED
      BY <1>b, <2>1, <2>5
  <1>3. ASSUME NEW lease \in Leases, NEW d \in Parts, NEW o \in Objects, Refreshes(o, d, lease)
        PROVE  HandlerInv'
    <2>1. /\ Stores(o, d, lease) /\ SignalsHandler /\ Unlocked
          /\ UNCHANGED <<now, made, deviceList, embedded, renewal, runnable, cursor, currTime,
                         expirationTime, deadline, held, part, replaced, target>>
      BY <1>3 DEF Refreshes, scanVars, foundVars
    <2>2. expiry' \in [Objects -> Times] /\ named' \in [Objects -> Parts]
      BY <2>1, StoresOne
    <2>3. TypeOK'
      BY <1>c, <2>1, <2>2 DEF TypeOK
    <2> QED
      BY <1>b, <2>1, <2>3
  <1>4. ASSUME NEW lease \in Leases, NEW d \in Parts, NEW o \in Objects, Describes(o, d, lease)
        PROVE  HandlerInv'
    <2>1. /\ Stores(o, d, lease) /\ SignalsHandler /\ Unlocked
          /\ embedded' = [embedded EXCEPT ![o] = 1..Embedded]
          /\ replaced' = (replaced \/ (pc["handler"] = "telling" /\ held = o /\ part # Root))
          /\ UNCHANGED <<now, made, deviceList, renewal, runnable, cursor, currTime,
                         expirationTime, deadline, held, part, target>>
      BY <1>4 DEF Describes, scanVars
    <2>2. expiry' \in [Objects -> Times] /\ named' \in [Objects -> Parts]
      BY <2>1, StoresOne
    <2>3. embedded' \in [Objects -> SUBSET (1..Embedded)] /\ replaced' \in BOOLEAN
      BY <1>a, <2>1 DEF TypeOK
    <2>4. TypeOK'
      BY <1>c, <2>1, <2>2, <2>3 DEF TypeOK
    <2> QED
      BY <1>b, <2>1, <2>4
  <1>5. CASE FailsToFetch
    <2>1. /\ SignalsHandler /\ Unlocked
          /\ UNCHANGED <<now, made, deviceList, expiry, named, embedded, renewal, runnable, cursor,
                         currTime, expirationTime, deadline, held, part, replaced, target>>
      BY <1>5 DEF FailsToFetch, deviceVars, scanVars, foundVars
    <2>2. TypeOK'
      BY <1>c, <2>1 DEF TypeOK
    <2> QED
      BY <1>b, <2>1, <2>2
  <1>6. ASSUME NEW o \in Objects, HearsByebye(o)
        PROVE  HandlerInv'
    <2>1. /\ pc["worker"] = "idle" /\ pc'["worker"] = "telling" /\ pc["app"] # "stopped"
          /\ pc' \in PcState /\ pc'["app"] = pc["app"] /\ pc'["handler"] = pc["handler"]
      <3>1. "telling" \in WorkerPc
        BY DEF WorkerPc
      <3> QED
        BY <1>6, <1>a, <3>1, WorkerMoves DEF HearsByebye, Goto
    <2>2. /\ target' = o
          /\ UNCHANGED <<now, made, deviceList, expiry, named, embedded, renewal, runnable, cursor,
                         currTime, expirationTime, deadline, held, part, replaced, steady>>
      BY <1>6 DEF HearsByebye, deviceVars, scanVars, foundVars
    <2>3. TypeOK'
      BY <2>1, <2>2 DEF TypeOK, PcState
    <2> QED
      BY <2>1, <2>2, <2>3 DEF ScanInv, StopInv, CursorExists
  <1>7. ASSUME NEW o \in Objects, NEW s \in Services, Subscribes(o, s)
        PROVE  HandlerInv'
    <2>1. /\ Unlocked
          /\ SignalsHandler \/ (steady' = FALSE /\ UNCHANGED pc)
          /\ UNCHANGED <<now, made, deviceList, expiry, named, embedded, runnable, cursor, currTime,
                         expirationTime, deadline, held, part, replaced, target>>
      BY <1>7 DEF Subscribes, scanVars, foundVars
    <2>2. renewal' \in [Objects -> [Services -> Nat]]
      <3>1. \A g \in Grants : now + g \in Nat
        <4>1. \A g \in Grants : g \in Nat
          OBVIOUS
        <4> QED
          BY <1>a, <4>1
      <3>2. PICK at \in {Never} \cup {now + g : g \in Grants} :
              renewal' = [renewal EXCEPT ![o] = [@ EXCEPT ![s] = at]]
        BY <1>7 DEF Subscribes
      <3>3. at \in Nat /\ renewal[o] \in [Services -> Nat]
        BY <1>a, <3>1, <3>2
      <3>4. [renewal[o] EXCEPT ![s] = at] \in [Services -> Nat]
        BY <3>3
      <3> QED
        BY <1>a, <3>2, <3>4
    <2>3. CASE SignalsHandler
      <3>1. TypeOK'
        BY <1>c, <2>1, <2>2, <2>3 DEF TypeOK, Times
      <3> QED
        BY <1>b, <2>1, <2>3, <3>1
    <2>4. CASE steady' = FALSE /\ UNCHANGED pc
      <3>1. TypeOK'
        BY <2>1, <2>2, <2>4 DEF TypeOK, Times
      <3> QED
        BY <2>1, <2>4, <3>1 DEF ScanInv, StopInv, CursorExists
    <2> QED
      BY <2>1, <2>3, <2>4
  <1>8. CASE DeletesTarget
    <2>1. /\ pc["worker"] = "telling" /\ Unlocked
          /\ pc' \in PcState /\ pc'["app"] = pc["app"] /\ pc'["handler"] = pc["handler"]
          /\ \/ pc'["worker"] = "idle" /\ Deletes(target, Root) /\ target' = NoObject
             \/ /\ pc'["worker"] = "undefined"
                /\ UNCHANGED <<deviceList, expiry, named, embedded, renewal, target>>
      <3>1. "idle" \in WorkerPc /\ "undefined" \in WorkerPc
        BY DEF WorkerPc
      <3> QED
        BY <1>8, <1>a, <3>1, WorkerMoves DEF DeletesTarget, Goto, deviceVars
    <2>2. UNCHANGED <<now, made, runnable, cursor, currTime, expirationTime, deadline, held, part,
                      replaced, steady>>
      BY <1>8 DEF DeletesTarget, scanVars, foundVars
    <2>3. /\ deviceList' \subseteq deviceList
          /\ embedded' \in [Objects -> SUBSET (1..Embedded)]
          /\ renewal' \in [Objects -> [Services -> Nat]]
          /\ expiry' \in [Objects -> Nat] /\ named' \in [Objects -> Parts]
      <3>1. target \in Objects /\ Root \in Parts
        BY <2>1 DEF TypeOK
      <3>2. expiry \in [Objects -> Nat] /\ named \in [Objects -> Parts]
        BY DEF TypeOK, Times
      <3> QED
        BY <1>a, <2>1, <3>1, <3>2, DeletesOne
    <2>4. target' # NoObject <=> pc'["worker"] \in {"telling", "undefined"}
      BY <2>1 DEF TypeOK
    <2>5. target' \in Objects \cup {NoObject}
      BY <2>1 DEF TypeOK
    <2>6. TypeOK'
      BY <2>1, <2>2, <2>3, <2>4, <2>5 DEF TypeOK, PcState, Times
    <2> QED
      BY <2>1, <2>2, <2>6 DEF ScanInv, StopInv, Unlocked
  <1>9. CASE CallsStop
    <2>1. /\ pc["app"] = "idle" /\ pc'["app"] = "stopping" /\ pc'["handler"] = pc["handler"]
          /\ pc'["worker"] = pc["worker"] /\ pc' \in PcState
      <3>1. "stopping" \in AppPc
        BY DEF AppPc
      <3> QED
        BY <1>9, <1>a, <3>1, AppMoves DEF CallsStop, Goto
    <2>2. /\ runnable' = FALSE
          /\ UNCHANGED <<now, made, deviceList, expiry, named, embedded, renewal, cursor, currTime,
                         expirationTime, deadline, held, part, replaced, target, steady>>
      BY <1>9 DEF CallsStop, deviceVars, scanVars, foundVars
    <2>3. TypeOK'
      BY <2>1, <2>2 DEF TypeOK, PcState
    <2> QED
      BY <2>1, <2>2, <2>3 DEF ScanInv, StopInv, CursorExists
  <1>10. CASE WakesHandler
    <2>1. /\ pc["app"] = "stopping" /\ pc' \in PcState /\ pc'["worker"] = pc["worker"]
          /\ \/ /\ pc["handler"] = "done" /\ pc'["handler"] = "done" /\ pc'["app"] = "joining"
             \/ /\ pc["handler"] = "asleep" /\ pc'["handler"] = "top" /\ pc'["app"] = "stopping"
      <3>1. "joining" \in AppPc /\ "top" \in HandlerPc
        BY DEF AppPc, HandlerPc
      <3> QED
        BY <1>10, <1>a, <3>1, AppMoves, HandlerMoves DEF WakesHandler
    <2>2. UNCHANGED <<now, made, deviceList, expiry, named, embedded, renewal, runnable, cursor,
                      currTime, expirationTime, deadline, held, part, replaced, target, steady>>
      BY <1>10 DEF WakesHandler, deviceVars, scanVars, foundVars
    <2>3. TypeOK'
      BY <2>1, <2>2 DEF TypeOK, PcState
    <2> QED
      BY <2>1, <2>2, <2>3 DEF ScanInv, StopInv
  <1>11. CASE ClearsDevices
    <2>1. /\ pc["app"] = "joining" /\ pc'["app"] = "stopped" /\ pc'["handler"] = pc["handler"]
          /\ pc["worker"] = "idle" /\ pc'["worker"] = "idle" /\ pc' \in PcState
      <3>1. "stopped" \in AppPc
        BY DEF AppPc
      <3> QED
        BY <1>11, <1>a, <3>1, AppMoves DEF ClearsDevices, Goto
    <2>2. /\ deviceList' = {}
          /\ UNCHANGED <<now, made, expiry, named, embedded, renewal, runnable, cursor, currTime,
                         expirationTime, deadline, held, part, replaced, target, steady>>
      BY <1>11 DEF ClearsDevices, scanVars, foundVars
    <2>3. pc["handler"] = "done"
      BY <2>1 DEF StopInv
    <2>4. TypeOK'
      BY <2>1, <2>2, <2>3 DEF TypeOK, PcState
    <2> QED
      BY <2>1, <2>2, <2>3, <2>4 DEF ScanInv, StopInv
  <1> QED
    BY <1>1, <1>2, <1>3, <1>4, <1>5, <1>6, <1>7, <1>8, <1>9, <1>10, <1>11 DEF Others

LEMMA StepHandler == HandlerInv /\ [Next]_vars => HandlerInv'
  <1> SUFFICES ASSUME HandlerInv, [Next]_vars PROVE HandlerInv'
    OBVIOUS
  <1>1. CASE UNCHANGED vars
    BY <1>1 DEF vars, deviceVars, scanVars, foundVars, HandlerInv, TypeOK, ScanInv, StopInv, CursorExists
  <1>2. CASE HandlerStep
    BY <1>2, HandlerStepHandler
  <1>3. CASE Others
    BY <1>3, OtherStepHandler
  <1> QED
    BY <1>1, <1>2, <1>3 DEF Next, Others

\* Every state has the invariant of the handler: where its cursor and the device that it
\* removes are, and that stop waits for it and for the SSDP workers.
THEOREM HandlerIsInvariant == Spec => []HandlerInv
  BY InitHandler, StepHandler, PTL DEF Spec

\* The types, and that only who removes a device keeps one.
THEOREM TypesHold == Spec => []TypeOK
  <1>1. HandlerInv => TypeOK
    BY DEF HandlerInv
  <1> QED
    BY <1>1, HandlerIsInvariant, PTL


--------------------------------------------------------------------------------
\* The pointers that are kept are not lost by their own thread, nor by the other steps.
LEMMA StepPointers ==
  ASSUME HandlerInv, [Next]_vars
  PROVE  /\ CursorExists /\ HeldExists /\ FoundExists
              /\ ~(CursorExists' /\ HeldExists' /\ FoundExists') =>
                \/ pc["worker"] = "telling" /\ pc'["worker"] = "idle"
                \/ CursorExists' /\ part # Root /\ held \in deviceList'
         /\ TargetExists /\ ~TargetExists' =>
              pc["handler"] = "telling" /\ pc'["handler"] = "relocking" /\ part = Root
  <1> USE Numbers DEF HandlerInv, CursorExists, HeldExists, FoundExists, TargetExists, Present
  <1> DEFINE Kept == CursorExists /\ HeldExists /\ FoundExists =>
                       CursorExists' /\ HeldExists' /\ FoundExists'
             TargetKept == TargetExists => TargetExists'
  <1>a. /\ pc \in PcState /\ deviceList \subseteq Objects
        /\ embedded \in [Objects -> SUBSET (1..Embedded)]
        /\ pc["handler"] \in {"removing", "finding", "telling"} => held \in Objects
        /\ held # NoObject => pc["handler"] \in {"removing", "finding", "telling", "undefined"}
        /\ pc["worker"] = "telling" <=> pc["worker"] \in {"telling", "undefined"} /\ pc["worker"] # "undefined"
        /\ part \in Parts
    BY DEF TypeOK, PcState
  <1>b. ASSUME SignalsHandler
        PROVE  /\ pc'["worker"] = pc["worker"]
               /\ pc'["handler"] \in {"removing", "telling"} => pc'["handler"] = pc["handler"]
               /\ pc["handler"] # "asleep" => pc'["handler"] = pc["handler"]
    BY <1>a, <1>b, SignalMoves
  <1>1. CASE \/ Tick \/ Begins \/ EndsScan \/ FallsAsleep \/ TimesOut \/ UsesFreed
             \/ CallsStop \/ WakesHandler \/ UNCHANGED vars
    <2>1. /\ UNCHANGED <<deviceList, embedded, cursor, held, part, replaced, target>>
          /\ pc'["worker"] = pc["worker"]
          /\ pc'["handler"] \in {"removing", "telling"} => pc'["handler"] = pc["handler"]
      BY <1>1, <1>a DEF Tick, Begins, EndsScan, FallsAsleep, TimesOut, UsesFreed, CallsStop,
         WakesHandler, Goto, PcState, vars, deviceVars, scanVars, foundVars
    <2>2. Kept /\ TargetKept
      BY <2>1
    <2> QED
      BY <2>2
  <1>2. CASE Locks
    <2>1. /\ UNCHANGED <<deviceList, target>> /\ pc'["worker"] = pc["worker"]
          /\ pc'["handler"] = "scanning" /\ cursor' = After(NoObject)
      BY <1>2, <1>a DEF Locks, Goto, PcState, deviceVars
    <2>2. cursor' # NoObject => cursor' \in deviceList
      BY <1>a, <2>1, AfterIsNext
    <2>3. Kept /\ TargetKept
      BY <2>1, <2>2
    <2> QED
      BY <2>3
  <1>3. CASE MeetsExpired
    <2>1. /\ UNCHANGED <<deviceList, target>> /\ pc'["worker"] = pc["worker"]
          /\ pc["handler"] = "scanning" /\ pc'["handler"] = "removing"
          /\ cursor # NoObject /\ cursor' = After(cursor) /\ held' = cursor
      BY <1>3, <1>a DEF MeetsExpired, Goto, PcState, deviceVars
    <2>2. cursor \in deviceList /\ cursor \in Nat
      BY <1>a, <2>1 DEF ScanInv
    <2>3. cursor' # NoObject => cursor' \in deviceList
      BY <1>a, <2>1, <2>2, AfterIsNext
    <2>4. Kept /\ TargetKept
      BY <2>1, <2>2, <2>3
    <2> QED
      BY <2>4
  <1>4. CASE MeetsLive
    <2>1. /\ UNCHANGED <<deviceList, pc, target>> /\ pc["handler"] = "scanning"
          /\ cursor # NoObject /\ cursor' = After(cursor)
      BY <1>4 DEF MeetsLive
    <2>2. cursor \in deviceList /\ cursor \in Nat
      BY <1>a, <2>1 DEF ScanInv
    <2>3. cursor' # NoObject => cursor' \in deviceList
      BY <1>a, <2>1, <2>2, AfterIsNext
    <2>4. Kept /\ TargetKept
      BY <2>1, <2>3
    <2> QED
      BY <2>4
  <1>5. CASE ReadsUsn
    <2>1. /\ UNCHANGED <<deviceList, cursor, target>> /\ pc'["worker"] = pc["worker"]
          /\ pc'["handler"] = "finding"
      BY <1>5, <1>a DEF ReadsUsn, Goto, PcState, deviceVars, scanVars
    <2>2. Kept /\ TargetKept
      BY <2>1
    <2> QED
      BY <2>2
  <1>6. CASE FindsDevice
    <2>1. /\ UNCHANGED <<deviceList, embedded, cursor, replaced, target>>
          /\ pc'["worker"] = pc["worker"] /\ pc["handler"] = "finding"
          /\ \/ pc'["handler"] = "telling" /\ Present(held, part) /\ UNCHANGED <<held, part>>
             \/ pc'["handler"] = "relocking"
      BY <1>6, <1>a DEF FindsDevice, Goto, PcState, deviceVars, scanVars
    <2>2. ~replaced
      BY <2>1 DEF ScanInv
    <2>3. Kept /\ TargetKept
      BY <2>1, <2>2
    <2> QED
      BY <2>3
  <1>7. CASE DeletesDevice
    <2>1. /\ UNCHANGED <<cursor, target>> /\ pc'["worker"] = pc["worker"]
          /\ pc["handler"] = "telling" /\ pc'["handler"] = "relocking"
          /\ deviceList' = IF part = Root THEN deviceList \ {held} ELSE deviceList
      BY <1>7, <1>a DEF DeletesDevice, Deletes, Goto, PcState, scanVars
    <2>2. cursor # NoObject => cursor # held
      <3>1. held \in Nat /\ held # 0 /\ cursor \in Nat
        BY <1>a, <2>1 DEF TypeOK
      <3> QED
        BY <3>1 DEF ScanInv
    <2>3. Kept /\ (part # Root => TargetKept)
      BY <2>1, <2>2
    <2> QED
      BY <2>1, <2>3
  <1>8. CASE Continues
    <2>1. /\ UNCHANGED <<deviceList, target>> /\ pc'["worker"] = pc["worker"]
          /\ pc'["handler"] \in {"scanned", "scanning"}
      BY <1>8, <1>a DEF Continues, Goto, PcState
    <2>2. cursor' # NoObject => cursor' \in deviceList
      <3>1. CASE cursor = NoObject
        BY <1>8, <3>1 DEF Continues
      <3>2. CASE cursor # NoObject
        <4>1. cursor' = After(cursor) /\ cursor \in Nat
          BY <1>8, <3>2 DEF Continues, TypeOK
        <4> QED
          BY <1>a, <4>1, AfterIsNext
      <3> QED
        BY <3>1, <3>2
    <2>3. Kept /\ TargetKept
      BY <2>1, <2>2
    <2> QED
      BY <2>3
  <1>9. ASSUME NEW lease \in Leases, NEW d \in Parts, Adds(d, lease)
        PROVE  Kept /\ TargetKept
    <2>1. /\ deviceList' = deviceList \cup {made + 1} /\ SignalsHandler
          /\ embedded' = [embedded EXCEPT ![made + 1] = 1..Embedded]
          /\ UNCHANGED <<cursor, held, part, replaced, target>>
      BY <1>9 DEF Adds, scanVars, foundVars
    <2>2. held \in Objects => embedded[held] \subseteq embedded'[held]
      BY <1>a, <2>1
    <2> QED
      BY <1>a, <1>b, <2>1, <2>2
  <1>10. ASSUME NEW lease \in Leases, NEW d \in Parts, NEW o \in Objects, Refreshes(o, d, lease)
         PROVE  Kept /\ TargetKept
    BY <1>10, <1>b DEF Refreshes, scanVars, foundVars
  <1>11. ASSUME NEW lease \in Leases, NEW d \in Parts, NEW o \in Objects, Describes(o, d, lease)
         PROVE  (part = Root \/ pc["handler"] # "telling" => Kept) /\ TargetKept /\ CursorExists' = CursorExists
                /\ UNCHANGED <<deviceList, part>>
    <2>1. /\ SignalsHandler /\ UNCHANGED <<deviceList, cursor, held, part, target>>
          /\ replaced' = (replaced \/ (pc["handler"] = "telling" /\ held = o /\ part # Root))
      BY <1>11 DEF Describes, scanVars
    <2> QED
      BY <1>b, <2>1
  <1>12. CASE FailsToFetch
    <2>1. Kept /\ TargetKept
      BY <1>12, <1>b DEF FailsToFetch, deviceVars, scanVars, foundVars
    <2> QED
      BY <2>1
  <1>13. ASSUME NEW o \in Objects, HearsByebye(o)
         PROVE  Kept /\ TargetKept
    <2>1. /\ UNCHANGED <<deviceList, embedded, cursor, held, part, replaced>>
          /\ pc'["handler"] = pc["handler"] /\ target' = o /\ o \in deviceList
      BY <1>13, <1>a DEF HearsByebye, Goto, PcState, deviceVars, scanVars, foundVars
    <2> QED
      BY <2>1
  <1>14. CASE DeletesTarget
    <2>1. CASE TargetExists
      <3>1. pc["worker"] = "telling" /\ pc'["worker"] = "idle"
        BY <1>14, <1>a, <2>1 DEF DeletesTarget, Goto, PcState
      <3> QED
        BY <3>1
    <2>2. CASE ~TargetExists
      <3>1. /\ UNCHANGED <<deviceList, embedded, cursor, held, part, replaced>>
            /\ pc'["handler"] = pc["handler"]
        BY <1>14, <1>a, <2>2 DEF DeletesTarget, Goto, PcState, deviceVars, scanVars, foundVars
      <3>2. Kept
        BY <3>1
      <3> QED
        BY <2>2, <3>2
    <2> QED
      BY <2>1, <2>2
  <1>15. ASSUME NEW o \in Objects, NEW s \in Services, Subscribes(o, s)
         PROVE  Kept /\ TargetKept
    <2>1. /\ UNCHANGED <<deviceList, embedded, cursor, held, part, replaced, target>>
          /\ \/ SignalsHandler
             \/ UNCHANGED pc
      BY <1>15 DEF Subscribes, scanVars, foundVars
    <2> QED
      BY <1>b, <2>1
  <1>16. CASE ClearsDevices
    <2>1. /\ UNCHANGED cursor /\ pc'["handler"] = "done" /\ pc'["worker"] = "idle" /\ cursor = NoObject
      BY <1>16, <1>a DEF ClearsDevices, Goto, PcState, StopInv, ScanInv, scanVars
    <2>2. Kept /\ TargetKept
      BY <2>1
    <2> QED
      BY <2>2
  <1> HIDE DEF CursorExists, HeldExists, FoundExists, TargetExists
  <1>17. ASSUME Kept /\ TargetKept
         PROVE  /\ CursorExists /\ HeldExists /\ FoundExists
                     /\ ~(CursorExists' /\ HeldExists' /\ FoundExists') =>
                       \/ pc["worker"] = "telling" /\ pc'["worker"] = "idle"
                       \/ CursorExists' /\ part # Root /\ held \in deviceList'
                /\ TargetExists /\ ~TargetExists' =>
                     pc["handler"] = "telling" /\ pc'["handler"] = "relocking" /\ part = Root
    BY <1>17
  <1>18. ASSUME NEW lease \in Leases, NEW d \in Parts, NEW o \in Objects, Describes(o, d, lease),
                CursorExists, FoundExists
         PROVE  Kept \/ (CursorExists' /\ part # Root /\ held \in deviceList')
    BY <1>11, <1>18 DEF FoundExists
  <1> QED
    BY <1>1, <1>2, <1>3, <1>4, <1>5, <1>6, <1>7, <1>8, <1>9, <1>10, <1>11, <1>12, <1>13, <1>14,
       <1>15, <1>16, <1>17, <1>18 DEF Next, HandlerStep

\* A pointer that the handler or a worker keeps without the lock is lost to a removal by
\* the other one, or to a new description if it is that of an embedded device, and to
\* nothing else.
THEOREM PointersLostToAnother == Spec => LostToAnotherOnly
  BY StepPointers, HandlerIsInvariant, PTL DEF Spec, LostToAnotherOnly

--------------------------------------------------------------------------------
\* What a time covers of a device it covers until the device changes, also when others
\* leave.
LEMMA CoversKept ==
  ASSUME NEW o \in deviceList', deviceList' \subseteq deviceList, UNCHANGED expirationTime,
         \A q \in deviceList' : expiry'[q] = expiry[q] /\ renewal'[q] = renewal[q],
         Covers(expirationTime, o)
  PROVE  Covers(expirationTime, o)'
  BY DEF Covers, CoversLease, CoversService, Overlooked, LeasedUpTo

\* A live device that the scan passes is covered, and those before it stay so.
LEMMA ScansOne ==
  ASSUME HandlerInv, MeetsLive, Scanned
  PROVE  Scanned'
  <1> USE Numbers
  <1>1. /\ pc["handler"] = "scanning"
        /\ cursor # NoObject /\ cursor' = After(cursor) /\ ~Expired(expiry[cursor])
        /\ ChecksServices(FirstExpiry(expiry[cursor]))
        /\ UNCHANGED <<now, deviceList, expiry, currTime>>
    BY DEF MeetsLive
  <1>2. /\ cursor \in deviceList /\ deviceList \subseteq Objects
        /\ expirationTime \in Nat /\ \A o \in Objects : expiry[o] \in Nat
    BY <1>1 DEF HandlerInv, ScanInv, CursorExists, TypeOK, Times
  <1>3. cursor \in Objects /\ TypeOK
    BY <1>2 DEF HandlerInv
  <1> DEFINE first == FirstExpiry(expiry[cursor])
  <1>4. /\ first \in Nat
        /\ first = Never => expirationTime = Never /\ expiry[cursor] = Never
        /\ first # Never /\ expirationTime # Never => first <= expirationTime
        /\ first # Never /\ expiry[cursor] # Never => first <= expiry[cursor]
    BY <1>2, <1>3 DEF FirstExpiry
  <1> HIDE DEF first
  <1>5. /\ renewal' \in [Objects -> [Services -> Nat]]
        /\ \A o \in Objects \ {cursor} : renewal'[o] = renewal[o]
        /\ expirationTime' = FirstOf(renewal'[cursor], first)
        /\ expirationTime' \in Nat
    BY <1>1, <1>3, <1>4, ChecksOne DEF first
  <1>6. renewal'[cursor] \in [Services -> Nat]
    BY <1>3, <1>5
  <1>7. /\ first = Never => expirationTime' = Never
        /\ first # Never =>
             /\ expirationTime' # Never /\ expirationTime' <= first
             /\ \A s \in Services :
                  renewal'[cursor][s] # Never
                  /\ ~(s[1] # Root /\ \E t \in Services : t[1] > s[1] /\ renewal'[cursor][t] # Never) =>
                    expirationTime' <= renewal'[cursor][s]
    BY <1>4, <1>5, <1>6, FirstOfIsFirst
  <1>8. expirationTime # Never => expirationTime' # Never /\ expirationTime' <= expirationTime
    BY <1>2, <1>4, <1>5, <1>7
  <1>9. ASSUME NEW o \in deviceList, o < cursor
        PROVE  Covers(expirationTime, o)'
    <2>1. Covers(expirationTime, o)
      BY <1>9 DEF Scanned
    <2>2. /\ o \in Objects /\ renewal'[o] = renewal[o] /\ expiry[o] \in Nat
          /\ \A s \in Services : renewal'[o][s] \in Nat
      BY <1>2, <1>5, <1>9
    <2>3. \A t \in Nat : expirationTime # Never /\ expirationTime <= t =>
            expirationTime' # Never /\ expirationTime' <= t
      BY <1>2, <1>5, <1>8
    <2>4. CoversLease(expirationTime, o)'
      BY <1>1, <2>1, <2>2, <2>3 DEF Covers, CoversLease
    <2>5. ASSUME NEW s \in Services, ~Overlooked(o, s)'
          PROVE  CoversService(expirationTime, o, s)'
      <3>1. ~Overlooked(o, s) /\ (LeasedUpTo(o)' => LeasedUpTo(o))
        BY <1>1, <2>2, <2>5 DEF Overlooked, LeasedUpTo
      <3>2. CoversService(expirationTime, o, s)
        BY <2>1, <3>1 DEF Covers
      <3> QED
        BY <2>2, <2>3, <3>1, <3>2 DEF CoversService
    <2> QED
      BY <2>4, <2>5 DEF Covers
  <1>10. ASSUME NEW o \in deviceList, o = cursor
         PROVE  Covers(expirationTime, o)'
    <2>1. CoversLease(expirationTime, o)'
      <3>1. expiry'[o] # Never => expirationTime' # Never /\ expirationTime' <= expiry[o]
        BY <1>1, <1>2, <1>3, <1>4, <1>5, <1>7, <1>10
      <3> QED
        BY <1>1, <3>1 DEF CoversLease
    <2>2. ASSUME NEW q \in deviceList, q <= o, expiry[q] # Never
          PROVE  first # Never
      <3>1. CASE q = cursor
        BY <1>4, <2>2, <3>1
      <3>2. CASE q # cursor
        <4>1. q < cursor
          BY <1>2, <1>3, <1>10, <2>2, <3>2
        <4>2. CoversLease(expirationTime, q)
          BY <4>1 DEF Scanned, Covers
        <4> QED
          BY <1>4, <2>2, <4>2 DEF CoversLease
      <3> QED
        BY <3>1, <3>2
    <2>3. LeasedUpTo(o)' => first # Never
      BY <1>1, <2>2 DEF LeasedUpTo
    <2>4. ASSUME NEW s \in Services, ~Overlooked(o, s)'
          PROVE  CoversService(expirationTime, o, s)'
      <3>1. ~(s[1] # Root /\ \E t \in Services : t[1] > s[1] /\ renewal'[cursor][t] # Never)
        BY <1>10, <2>4 DEF Overlooked
      <3> QED
        BY <1>7, <1>10, <2>3, <3>1 DEF CoversService
    <2> QED
      BY <2>1, <2>4 DEF Covers
  <1>11. ASSUME NEW o \in deviceList', cursor' = NoObject \/ o < cursor'
         PROVE  Covers(expirationTime, o)'
    <2>1. o \in deviceList /\ o \in Nat /\ cursor \in Nat
      BY <1>1, <1>2, <1>3
    <2>2. cursor' = NoObject => o <= cursor
      BY <1>1, <1>2, <2>1, AfterIsNext
    <2>3. cursor' # NoObject => cursor' \in Nat /\ (cursor < o => cursor' <= o)
      BY <1>1, <1>2, <2>1, AfterIsNext
    <2>4. o < cursor \/ o = cursor
      BY <1>11, <2>1, <2>2, <2>3
    <2> QED
      BY <1>9, <1>10, <2>1, <2>4
  <1> QED
    BY <1>11 DEF Scanned

\* Every step of the handler, and of those around it.
LEMMA StepSteady ==
  ASSUME HandlerInv, HandlerInv', SteadyInv, [Next]_vars
  PROVE  SteadyInv'
  <1> USE Numbers
  <1>a. /\ pc \in PcState /\ deviceList \subseteq Objects /\ now \in Nat
        /\ expirationTime \in Nat /\ currTime \in Nat
    BY DEF HandlerInv, TypeOK, PcState, Times
  <1>b. CASE steady' = FALSE
    BY <1>b DEF SteadyInv
  <1>c. ASSUME SignalsHandler PROVE steady' = FALSE
    BY <1>c DEF SignalsHandler
  <1>d. ASSUME Scanned, UNCHANGED <<deviceList, expiry, renewal, cursor, expirationTime>>
        PROVE  Scanned'
    BY <1>d DEF Scanned, Covers, CoversLease, CoversService, Overlooked, LeasedUpTo
  <1>1. CASE Tick
    <2>1. CASE steady /\ pc["handler"] = "asleep"
      BY <1>1, <1>d, <2>1 DEF Tick, SteadyInv, deviceVars, scanVars
    <2>2. CASE ~(steady /\ pc["handler"] = "asleep")
      BY <1>1, <1>b, <2>2 DEF Tick
    <2> QED
      BY <2>1, <2>2
  <1>2. CASE Begins
    <2>1. CASE runnable
      <3>1. pc'["handler"] = "locking" /\ currTime' = now /\ now' = now /\ expirationTime' = Never
        BY <1>2, <1>a, <2>1 DEF Begins, PcState
      <3> QED
        BY <3>1 DEF SteadyInv
    <2>2. CASE ~runnable
      <3>1. pc'["handler"] = "done"
        BY <1>2, <1>a, <2>2 DEF Begins, PcState
      <3> QED
        BY <3>1 DEF SteadyInv
    <2> QED
      BY <2>1, <2>2
  <1>3. CASE Locks
    <2>1. /\ pc["handler"] = "locking" /\ pc'["handler"] = "scanning" /\ cursor' = After(NoObject)
          /\ UNCHANGED <<now, deviceList, currTime, expirationTime, steady>>
      BY <1>3, <1>a DEF Locks, Goto, PcState, deviceVars
    <2>2. steady' => now' = currTime'
      BY <2>1 DEF SteadyInv
    <2>3. ASSUME NEW o \in deviceList'
          PROVE  ~(cursor' = NoObject \/ o < cursor')
      <3>1. o \in deviceList /\ o \in Nat /\ o # 0
        BY <1>a, <2>1
      <3>2. cursor' # NoObject
        BY <1>a, <2>1, <3>1, AfterIsNext
      <3>3. NoObject \in Nat /\ NoObject < o /\ After(NoObject) # NoObject
        BY <2>1, <3>1, <3>2
      <3>4. After(NoObject) \in deviceList /\ \A q \in deviceList : NoObject < q => After(NoObject) <= q
        BY <1>a, <3>3, AfterIsNext
      <3>5. cursor' \in deviceList /\ cursor' <= o
        BY <2>1, <3>1, <3>3, <3>4
      <3>6. cursor' \in Nat
        BY <1>a, <3>5
      <3> QED
        BY <3>1, <3>2, <3>5, <3>6
    <2>4. Scanned'
      BY <2>3 DEF Scanned
    <2> QED
      BY <2>1, <2>2, <2>4 DEF SteadyInv
  <1>4. CASE MeetsExpired
    BY <1>4, <1>b DEF MeetsExpired
  <1>5. CASE MeetsLive
    <2>1. /\ pc["handler"] = "scanning" /\ UNCHANGED <<now, pc, currTime, steady>>
      BY <1>5 DEF MeetsLive
    <2>2. SUFFICES ASSUME steady PROVE SteadyInv'
      BY <2>1 DEF SteadyInv
    <2>3. Scanned /\ now = currTime
      BY <2>1, <2>2 DEF SteadyInv
    <2>4. Scanned'
      BY <1>5, <2>3, ScansOne
    <2> QED
      BY <2>1, <2>3, <2>4 DEF SteadyInv
  <1>6. CASE EndsScan
    <2>1. /\ pc["handler"] = "scanning" /\ pc'["handler"] = "scanned"
          /\ UNCHANGED <<now, deviceList, expiry, renewal, cursor, currTime, expirationTime, steady>>
      BY <1>6, <1>a DEF EndsScan, Goto, PcState, deviceVars, scanVars
    <2> QED
      BY <1>d, <2>1 DEF SteadyInv
  <1>7. CASE ReadsUsn \/ FindsDevice \/ DeletesDevice \/ Continues \/ UsesFreed
    <2>1. pc["handler"] \in {"removing", "finding", "telling", "relocking"} /\ steady' = steady
      BY <1>7 DEF ReadsUsn, FindsDevice, DeletesDevice, Continues, UsesFreed, Goto
    <2> QED
      BY <2>1 DEF SteadyInv
  <1>8. CASE FallsAsleep
    <2>1. /\ pc["handler"] = "scanned" /\ pc'["handler"] = IF runnable THEN "asleep" ELSE "done"
          /\ deadline' = IF Timeout = 0 THEN Never ELSE now + Timeout
          /\ currTime' = IF expirationTime > currTime THEN now ELSE currTime
          /\ UNCHANGED <<now, deviceList, expiry, renewal, cursor, expirationTime, steady>>
      BY <1>8, <1>a DEF FallsAsleep, Goto, PcState, deviceVars
    <2>2. SUFFICES ASSUME steady PROVE SteadyInv'
      BY <2>1 DEF SteadyInv
    <2>3. Scanned /\ now = currTime
      BY <2>1, <2>2 DEF SteadyInv
    <2>4. deadline' = IF expirationTime > currTime THEN expirationTime ELSE Never
      BY <1>a, <2>1, <2>3 DEF Timeout
    <2>5. Scanned'
      BY <1>d, <2>1, <2>3
    <2> QED
      BY <2>1, <2>3, <2>4, <2>5 DEF SteadyInv
  <1>9. CASE TimesOut \/ WakesHandler
    <2>1. /\ pc["handler"] \in {"asleep", "done"} /\ pc'["handler"] \in {"top", "done"}
      BY <1>9, <1>a DEF TimesOut, WakesHandler, Goto, PcState
    <2> QED
      BY <2>1 DEF SteadyInv
  <1>10. ASSUME NEW lease \in Leases, NEW d \in Parts,
                Adds(d, lease) \/ \E o \in Objects : Refreshes(o, d, lease) \/ Describes(o, d, lease)
         PROVE  SteadyInv'
    BY <1>10, <1>b, <1>c DEF Adds, Refreshes, Describes
  <1>11. ASSUME FailsToFetch \/ \E o \in Objects, s \in Services : Subscribes(o, s)
         PROVE  SteadyInv'
    BY <1>11, <1>b, <1>c DEF FailsToFetch, Subscribes
  <1>12. ASSUME CallsStop \/ \E o \in Objects : HearsByebye(o)
         PROVE  SteadyInv'
    <2>1. /\ pc'["handler"] = pc["handler"]
          /\ UNCHANGED <<now, deviceList, expiry, renewal, cursor, currTime, expirationTime, deadline,
                         steady>>
      BY <1>12, <1>a DEF CallsStop, HearsByebye, Goto, PcState, deviceVars, scanVars
    <2> QED
      BY <1>d, <2>1 DEF SteadyInv
  <1>13. CASE DeletesTarget
    <2>1. /\ pc["handler"] # "scanning" /\ pc'["handler"] = pc["handler"] /\ pc["worker"] = "telling"
          /\ UNCHANGED <<now, cursor, currTime, expirationTime, deadline, steady>>
          /\ \/ Deletes(target, Root)
             \/ UNCHANGED <<deviceList, expiry, renewal>>
      BY <1>13, <1>a DEF DeletesTarget, Unlocked, Goto, PcState, deviceVars, scanVars
    <2>2. ASSUME Scanned PROVE Scanned'
      <3>1. CASE UNCHANGED <<deviceList, expiry, renewal>>
        BY <1>d, <2>1, <2>2, <3>1
      <3>2. CASE Deletes(target, Root)
        <4>a. /\ TypeOK /\ target \in Objects \cup {NoObject}
              /\ target # NoObject <=> pc["worker"] \in {"telling", "undefined"}
          BY DEF HandlerInv, TypeOK
        <4>b. Root \in Parts
          <5>1. 0 \in 0..Embedded
            OBVIOUS
          <5> QED
            BY <5>1
        <4>1. target \in Objects /\ TypeOK /\ Root \in Parts
          BY <2>1, <4>a, <4>b
        <4>2. /\ deviceList' = deviceList \ {target}
              /\ \A q \in Objects \ {target} : renewal'[q] = renewal[q] /\ expiry'[q] = expiry[q]
          BY <3>2, <4>1, DeletesOne
        <4>3. ASSUME NEW o \in deviceList', cursor' = NoObject \/ o < cursor'
              PROVE  Covers(expirationTime, o)'
          <5>1. /\ o \in deviceList /\ deviceList' \subseteq deviceList
                /\ \A q \in deviceList' : expiry'[q] = expiry[q] /\ renewal'[q] = renewal[q]
            BY <1>a, <4>2
          <5>2. Covers(expirationTime, o)
            BY <2>1, <2>2, <4>3, <5>1 DEF Scanned
          <5> QED
            BY <2>1, <5>1, <5>2, CoversKept
        <4> QED
          BY <4>3 DEF Scanned
      <3> QED
        BY <2>1, <3>1, <3>2
    <2> QED
      BY <2>1, <2>2 DEF SteadyInv
  <1>14. CASE ClearsDevices
    <2>1. pc'["handler"] = pc["handler"] /\ pc["app"] = "joining"
      BY <1>14, <1>a DEF ClearsDevices, Goto, PcState
    <2>2. pc["handler"] = "done"
      BY <2>1 DEF HandlerInv, StopInv
    <2> QED
      BY <2>1, <2>2 DEF SteadyInv
  <1>15. CASE UNCHANGED vars
    BY <1>15, <1>d DEF vars, deviceVars, scanVars, SteadyInv
  <1> QED
    BY <1>1, <1>2, <1>3, <1>4, <1>5, <1>6, <1>7, <1>8, <1>9, <1>10, <1>11, <1>12, <1>13, <1>14, <1>15
       DEF Next, HandlerStep

\* A sleep that nothing disturbed ends no later than the first lease, and no later than
\* the first renewal among the services from the first leased device on that no later
\* embedded device hides, for every description and whatever grants the devices give.
THEOREM SleepIsCovered == Spec => []SleepCovers
  <1>1. HandlerInv /\ HandlerInv' /\ SteadyInv /\ [Next]_vars => SteadyInv'
    BY StepSteady
  <1>2. HandlerInv /\ SteadyInv => SleepCovers
    <2> SUFFICES ASSUME HandlerInv, SteadyInv, UndisturbedSleep, NEW o \in deviceList
                 PROVE  Covers(deadline, o)
      BY DEF SleepCovers
    <2>1. /\ Scanned /\ cursor = NoObject
          /\ deadline = IF expirationTime > currTime THEN expirationTime ELSE Never
      BY DEF UndisturbedSleep, SteadyInv, HandlerInv, ScanInv
    <2>2. deadline = expirationTime
      BY <2>1, Numbers DEF UndisturbedSleep, HandlerInv, TypeOK, Times
    <2> QED
      BY <2>1, <2>2 DEF Scanned
  <1> QED
    BY <1>1, <1>2, InitHandler, HandlerIsInvariant, PTL DEF Spec
================================================================================
