------------------------------- MODULE Expiration -------------------------------
(***************************************************************************)
(* The expiration thread of a control point (controlpoint_event.c): it     *)
(* scans the device list under ctrlPoint->mutex for leases and             *)
(* subscriptions that run out, and sleeps on expCond until the first of    *)
(* them, or until it is signalled.                                         *)
(*                                                                         *)
(* Around it are the SSDP workers that add, refresh and remove devices,    *)
(* the application that subscribes and at last stops the control point,    *)
(* and the clock in seconds.  The list is that of Discovery, without the   *)
(* fetches: a device is a tree of one root and its embedded devices, with  *)
(* its SSDP packet and the subscriptions to its services.  The packet has  *)
(* an expiry, and its USN names the root or an embedded device.            *)
(*                                                                         *)
(* Trees have two levels and all the same devices and services; no device  *)
(* returns under its UDN once it was deleted with its root; the clock      *)
(* stands still while one tree is checked.  A thread that follows a        *)
(* pointer to a freed device does nothing defined from there on.           *)
(***************************************************************************)
EXTENDS Integers

CONSTANTS
  Leases,      \* the max-ages that are announced; 0 without CACHE-CONTROL
  Grants,      \* the seconds from a granted subscription to its renewal; 0 for a
               \* timeout of at most MUPNP_SUBSCRIPTION_DELAY, and for an infinite one
  Embedded,    \* the number of embedded devices of a description
  Services,    \* the services of a description: pairs of a device of it and a number
  MaxObjects,  \* bound: devices added to the list
  MaxTime      \* bound: seconds of the clock, which starts at 1

Objects == 1..MaxObjects
NoObject == 0
Never == 0

\* The devices of a tree, in the order of the description.
Root == 0
Parts == Root..Embedded

ASSUME ExpirationAssumption ==
  /\ Leases \subseteq Nat /\ Grants \subseteq Nat
  /\ Embedded \in Nat /\ Services \subseteq Parts \X Nat
  /\ MaxObjects \in Nat /\ MaxTime \in Nat \ {0}

VARIABLES
  now,             \* mupnp_getcurrentsystemtime
  made,            \* how many root devices were ever on the list
  deviceList,      \* the objects on ctrlPoint->deviceList, in their order
  expiry,          \* expiry[o]: mupnp_ssdp_packet_getexpiration, or Never
  named,           \* named[o]: the device that the USN of the packet names
  embedded,        \* embedded[o]: the embedded devices that have not been deleted
  renewal,         \* renewal[o][s]: mupnp_service_getsubscriptionexpiration, or Never
                   \* for a service that is not subscribed to
  runnable,        \* runnableFlag of expThread
  pc,              \* pc[p]: where process p is
  cursor,          \* dev of the scan
  currTime,        \* the locals of that name of the handler
  expirationTime,
  deadline,        \* when the wait on expCond ends by itself, or Never
  held,            \* the expired root device, tmpDev, then the root of what is found
  part,            \* which device of its tree the handler looks for and deletes
  replaced,        \* a new description has freed the embedded device that was found
  target,          \* the root device that a worker found for a byebye
  steady           \* history: since the clock was read the handler met no expired device,
                   \* no signal was lost on it, and the time did not change

scanVars == <<cursor, currTime, expirationTime, deadline>>
deviceVars == <<made, deviceList, expiry, named, embedded, renewal>>
foundVars == <<held, part, replaced>>
vars == <<now, deviceVars, runnable, pc, scanVars, foundVars, target, steady>>

Init ==
  /\ now = 1 /\ made = 0 /\ deviceList = {} /\ runnable = TRUE
  /\ expiry = [o \in Objects |-> Never] /\ named = [o \in Objects |-> Root]
  /\ embedded = [o \in Objects |-> {}]
  /\ renewal = [o \in Objects |-> [s \in Services |-> Never]]
  /\ pc = [handler |-> "top", worker |-> "idle", app |-> "idle"]
  /\ cursor = NoObject /\ currTime = 0 /\ expirationTime = Never /\ deadline = Never
  /\ held = NoObject /\ part = Root /\ replaced = FALSE /\ target = NoObject
  /\ steady = FALSE

Goto(p, from, to) == pc[p] = from /\ pc' = [pc EXCEPT ![p] = to]

\* ctrlPoint->mutex is free: the handler keeps it from device to device.
Unlocked == pc["handler"] # "scanning"

\* mupnp_controlpoint_getdevices and mupnp_device_next.
After(o) ==
  LET rest == {q \in deviceList : q > o}
  IN  IF rest = {} THEN NoObject ELSE CHOOSE q \in rest : \A r \in rest : q <= r

\* mupnp_controlpoint_getdevicebyudn finds device d of the tree of o.
Present(o, d) == o \in deviceList /\ (d = Root \/ d \in embedded[o])

\* The devices that threads still use while they do not have the lock.
CursorExists == cursor # NoObject => cursor \in deviceList
HeldExists == pc["handler"] = "removing" => held \in deviceList
FoundExists == pc["handler"] = "telling" => Present(held, part) /\ ~replaced
TargetExists == pc["worker"] = "telling" => target \in deviceList

\* The clock, which nothing stops.
Tick ==
  /\ now < MaxTime
  /\ now' = now + 1
  /\ steady' = (steady /\ pc["handler"] = "asleep")
  /\ UNCHANGED <<deviceVars, runnable, pc, scanVars, foundVars, target>>

--------------------------------------------------------------------------------
(* mupnp_device_getfirstexpiratedservice on the tree of a device, which      *)
(* reads the clock itself.                                                   *)

Due(o) == {s \in Services : renewal[o][s] \in 1..now}

\* The renewals to come of the services of device d.
Upcoming(renewals, d) == {renewals[s] : s \in {t \in Services : t[1] = d}} \ {Never}

Earliest(times) == CHOOSE t \in times : \A u \in times : t <= u

\* The services of the root: a renewal counts when it comes before the time so far,
\* which it never does before 0.
OwnFirst(renewals, first) ==
  Earliest({first} \cup {t \in Upcoming(renewals, Root) : t < first})

\* Every embedded device is checked against that same time.
Found(renewals, time) == {d \in 1..Embedded : \E t \in Upcoming(renewals, d) : t < time}

\* The last embedded device that is found is kept, whatever the others have.
FirstOf(renewals, first) ==
  LET time == OwnFirst(renewals, first)
      found == Found(renewals, time)
      last == CHOOSE d \in found : \A e \in found : e <= d
  IN  IF found = {} THEN time ELSE Earliest(Upcoming(renewals, last))

\* A renewal that leaves the SID when it fails.
KeepsSid(first) ==
  \E at \in [Due(cursor) -> {now + g : g \in Grants}] \cup {[s \in Due(cursor) |-> renewal[cursor][s]]} :
    LET renewals == [s \in Services |-> IF s \in Due(cursor) THEN at[s] ELSE renewal[cursor][s]]
    IN  /\ renewal' = [renewal EXCEPT ![cursor] = renewals]
        /\ expirationTime' = FirstOf(renewals, first)

\* Services that are due are subscribed to again, over HTTP and under the lock; when
\* that fails the SID is cleared.
ChecksServices(first) ==
  \E at \in [Due(cursor) -> {Never} \cup {now + g : g \in Grants}] :
    LET renewals == [s \in Services |-> IF s \in Due(cursor) THEN at[s] ELSE renewal[cursor][s]]
    IN  /\ renewal' = [renewal EXCEPT ![cursor] = renewals]
        /\ expirationTime' = FirstOf(renewals, first)

--------------------------------------------------------------------------------
(* mupnp_controlpoint_expirationhandler.                                     *)

Begins ==
  /\ pc["handler"] = "top"
  /\ IF runnable
     THEN /\ pc' = [pc EXCEPT !["handler"] = "locking"]
          /\ currTime' = now /\ expirationTime' = Never /\ deadline' = Never /\ steady' = TRUE
     ELSE /\ pc' = [pc EXCEPT !["handler"] = "done"]
          /\ UNCHANGED <<currTime, expirationTime, deadline, steady>>
  /\ UNCHANGED <<now, deviceVars, runnable, cursor, foundVars, target>>

Locks ==
  /\ Goto("handler", "locking", "scanning")
  /\ cursor' = After(NoObject)
  /\ UNCHANGED <<now, deviceVars, runnable, currTime, expirationTime, deadline, foundVars,
                 target, steady>>

\* A lease that is over only when its last second is.
OverLater(time) == time > Never /\ time < currTime

Expired(time) == time > Never /\ time <= currTime

\* The expired device and the next one are kept, the lock is not.
MeetsExpired ==
  /\ cursor # NoObject /\ Expired(expiry[cursor])
  /\ Goto("handler", "scanning", "removing")
  /\ held' = cursor
  /\ cursor' = After(cursor)
  /\ steady' = FALSE
  /\ UNCHANGED <<now, deviceVars, runnable, currTime, expirationTime, deadline, part, replaced,
                 target>>

\* The last expiry of the list instead of the first.
LastExpiry(time) == IF time > expirationTime THEN time ELSE expirationTime

\* The expiry of a device that is still alive, against the first so far.
FirstExpiry(time) ==
  IF time > Never /\ (time < expirationTime \/ expirationTime = Never) THEN time
  ELSE expirationTime

MeetsLive ==
  /\ pc["handler"] = "scanning"
  /\ cursor # NoObject /\ ~Expired(expiry[cursor])
  /\ ChecksServices(FirstExpiry(expiry[cursor]))
  /\ cursor' = After(cursor)
  /\ UNCHANGED <<now, made, deviceList, expiry, named, embedded, runnable, pc, currTime, deadline,
                 foundVars, target, steady>>

EndsScan ==
  /\ cursor = NoObject
  /\ Goto("handler", "scanning", "scanned")
  /\ UNCHANGED <<now, deviceVars, runnable, scanVars, foundVars, target, steady>>

\* mupnp_controlpoint_removedevicebyssdppacket: the UDN is taken from the packet without
\* the lock, its device is looked up under it, the listener told without it again, and
\* what was found is deleted: an embedded device if the packet names one.
ReadsUsn ==
  /\ HeldExists
  /\ Goto("handler", "removing", "finding")
  /\ part' = named[held]
  /\ UNCHANGED <<now, deviceVars, runnable, scanVars, held, replaced, target, steady>>

FindsDevice ==
  /\ IF Present(held, part)
     THEN Goto("handler", "finding", "telling") /\ UNCHANGED <<held, part>>
     ELSE Goto("handler", "finding", "relocking") /\ held' = NoObject /\ part' = Root
  /\ UNCHANGED <<now, deviceVars, runnable, scanVars, replaced, target, steady>>

\* mupnp_device_delete, with the packet, the embedded devices, and the services with
\* their subscriptions.
Deletes(o, d) ==
  /\ deviceList' = IF d = Root THEN deviceList \ {o} ELSE deviceList
  /\ expiry' = IF d = Root THEN [expiry EXCEPT ![o] = Never] ELSE expiry
  /\ named' = IF d = Root THEN [named EXCEPT ![o] = Root] ELSE named
  /\ embedded' = [embedded EXCEPT ![o] = IF d = Root THEN {} ELSE @ \ {d}]
  /\ renewal' = [renewal EXCEPT ![o] =
       [s \in Services |-> IF d \in {Root, s[1]} THEN Never ELSE renewal[o][s]]]

\* A removal that keeps its pointer.
DeletesOnly ==
  /\ FoundExists
  /\ Goto("handler", "telling", "relocking")
  /\ Deletes(held, part)
  /\ UNCHANGED <<now, made, runnable, scanVars, foundVars, target, steady>>

DeletesDevice ==
  /\ FoundExists
  /\ Goto("handler", "telling", "relocking")
  /\ Deletes(held, part)
  /\ held' = NoObject /\ part' = Root
  /\ UNCHANGED <<now, made, runnable, scanVars, replaced, target, steady>>

\* Back from the removal: of the device saved as the next one only the services
\* are looked at, then the loop moves on from it.
Continues ==
  /\ CursorExists
  /\ Goto("handler", "relocking", IF cursor = NoObject THEN "scanned" ELSE "scanning")
  /\ IF cursor = NoObject THEN UNCHANGED <<renewal, expirationTime, cursor>>
     ELSE ChecksServices(expirationTime) /\ cursor' = After(cursor)
  /\ UNCHANGED <<now, made, deviceList, expiry, named, embedded, runnable, currTime, deadline,
                 foundVars, target, steady>>

\* The packet, the device that was found, or the next one is gone when it is used.
UsesFreed ==
  /\ \/ pc["handler"] \in {"removing", "telling"} /\ ~(HeldExists /\ FoundExists)
     \/ pc["handler"] = "relocking" /\ ~CursorExists
  /\ pc' = [pc EXCEPT !["handler"] = "undefined"]
  /\ UNCHANGED <<now, deviceVars, runnable, scanVars, foundVars, target, steady>>

\* mupnp_cond_wait takes a timeout of 0 for none; a negative one, converted to
\* unsigned long and added to the time, ends in the past.
Timeout == IF expirationTime > currTime THEN expirationTime - now ELSE 0

FallsAsleep ==
  /\ Goto("handler", "scanned", IF runnable THEN "asleep" ELSE "done")
  /\ deadline' = IF Timeout = 0 THEN Never ELSE now + Timeout
  /\ currTime' = IF expirationTime > currTime THEN now ELSE currTime
  /\ UNCHANGED <<now, deviceVars, runnable, cursor, expirationTime, foundVars, target, steady>>

TimesOut ==
  /\ deadline # Never /\ deadline <= now
  /\ Goto("handler", "asleep", "top")
  /\ UNCHANGED <<now, deviceVars, runnable, scanVars, foundVars, target, steady>>

HandlerStep ==
  \/ Begins \/ Locks \/ MeetsExpired \/ MeetsLive \/ EndsScan
  \/ ReadsUsn \/ FindsDevice \/ DeletesDevice \/ Continues \/ UsesFreed
  \/ FallsAsleep \/ TimesOut

--------------------------------------------------------------------------------
(* The SSDP workers.                                                         *)

\* mupnp_cond_signal(expCond): lost unless the handler waits.
SignalsHandler ==
  /\ pc' = IF pc["handler"] = "asleep" THEN [pc EXCEPT !["handler"] = "top"] ELSE pc
  /\ steady' = FALSE

\* mupnp_device_setssdppacket with a packet that names d.
Stores(o, d, lease) ==
  /\ expiry' = [expiry EXCEPT ![o] = IF lease = 0 THEN Never ELSE now + lease]
  /\ named' = [named EXCEPT ![o] = d]

\* mupnp_controlpoint_fetchdevice, while the control point is not stopping.  A search
\* response may be for any device of a tree, also the one that a new tree is known by.
Adds(d, lease) ==
  /\ Unlocked /\ runnable
  /\ made < MaxObjects
  /\ made' = made + 1
  /\ deviceList' = deviceList \cup {made + 1}
  /\ Stores(made + 1, d, lease)
  /\ embedded' = [embedded EXCEPT ![made + 1] = 1..Embedded]
  /\ SignalsHandler
  /\ UNCHANGED <<now, renewal, runnable, scanVars, foundVars, target>>

\* A device of the cache is announced at the LOCATION that is known, or at another one
\* with the same description: its root has a new packet.
Refreshes(o, d, lease) ==
  /\ Unlocked /\ runnable
  /\ Present(o, d)
  /\ Stores(o, d, lease)
  /\ SignalsHandler
  /\ UNCHANGED <<now, made, deviceList, embedded, renewal, runnable, scanVars, foundVars, target>>

\* Or at another LOCATION with another description: all embedded devices are replaced,
\* subscriptions kept.
Describes(o, d, lease) ==
  /\ Unlocked /\ runnable
  /\ Present(o, d)
  /\ Stores(o, d, lease)
  /\ embedded' = [embedded EXCEPT ![o] = 1..Embedded]
  /\ replaced' = (replaced \/ (pc["handler"] = "telling" /\ held = o /\ part # Root))
  /\ SignalsHandler
  /\ UNCHANGED <<now, made, deviceList, renewal, runnable, scanVars, held, part, target>>

\* Or at one that has no description: the cache stays as it is.
FailsToFetch ==
  /\ Unlocked /\ runnable
  /\ deviceList # {}
  /\ SignalsHandler
  /\ UNCHANGED <<now, deviceVars, runnable, scanVars, foundVars, target>>

\* A byebye is only heeded from a root device; between the lookup and the deletion the
\* listener is called without the lock.
HearsByebye(o) ==
  /\ Unlocked /\ pc["app"] # "stopped"
  /\ o \in deviceList
  /\ Goto("worker", "idle", "telling")
  /\ target' = o
  /\ UNCHANGED <<now, deviceVars, runnable, scanVars, foundVars, steady>>

DeletesTarget ==
  /\ Unlocked
  /\ IF TargetExists
     THEN Goto("worker", "telling", "idle") /\ Deletes(target, Root) /\ target' = NoObject
     ELSE Goto("worker", "telling", "undefined") /\ UNCHANGED <<deviceVars, target>>
  /\ UNCHANGED <<now, made, runnable, scanVars, foundVars, steady>>

--------------------------------------------------------------------------------
(* The application.                                                          *)

\* mupnp_controlpoint_subscribe, and unsubscribe, with the lock.  Only a new
\* subscription signals; one that exists is renewed or given up.  Requests may fail.
Subscribes(o, s) ==
  /\ Unlocked /\ pc["app"] = "idle"
  /\ Present(o, s[1])
  /\ \E at \in {Never} \cup {now + g : g \in Grants} :
       /\ renewal' = [renewal EXCEPT ![o] = [@ EXCEPT ![s] = at]]
       /\ IF renewal[o][s] = Never /\ at # Never THEN SignalsHandler
          ELSE steady' = FALSE /\ UNCHANGED pc
  /\ UNCHANGED <<now, made, deviceList, expiry, named, embedded, runnable, scanVars, foundVars, target>>

\* mupnp_controlpoint_stop: runnableFlag of the handler is cleared.
CallsStop ==
  /\ Goto("app", "idle", "stopping")
  /\ runnable' = FALSE
  /\ UNCHANGED <<now, deviceVars, scanVars, foundVars, target, steady>>

\* A stop that signals and does not wait, and one that waits and does not signal.
SignalsOnce ==
  /\ pc["app"] = "stopping"
  /\ pc' = [pc EXCEPT !["app"] = "joining",
                      !["handler"] = IF @ = "asleep" THEN "top" ELSE @]
  /\ UNCHANGED <<now, deviceVars, runnable, scanVars, foundVars, target, steady>>

AwaitsHandler ==
  /\ pc["handler"] = "done"
  /\ Goto("app", "stopping", "joining")
  /\ UNCHANGED <<now, deviceVars, runnable, scanVars, foundVars, target, steady>>

\* A signal every 100ms until the action of the thread has returned.
WakesHandler ==
  /\ pc["app"] = "stopping"
  /\ IF pc["handler"] = "done" THEN pc' = [pc EXCEPT !["app"] = "joining"]
     ELSE pc["handler"] = "asleep" /\ pc' = [pc EXCEPT !["handler"] = "top"]
  /\ UNCHANGED <<now, deviceVars, runnable, scanVars, foundVars, target, steady>>

\* With the SSDP workers joined the list is cleared.
ClearsDevices ==
  /\ Unlocked
  /\ pc["worker"] = "idle"
  /\ Goto("app", "joining", "stopped")
  /\ deviceList' = {}
  /\ UNCHANGED <<now, made, expiry, named, embedded, renewal, runnable, scanVars, foundVars,
                 target, steady>>

Next ==
  \/ Tick \/ HandlerStep
  \/ \E lease \in Leases, d \in Parts :
       Adds(d, lease) \/ \E o \in Objects : Refreshes(o, d, lease) \/ Describes(o, d, lease)
  \/ FailsToFetch
  \/ \E o \in Objects : HearsByebye(o) \/ \E s \in Services : Subscribes(o, s)
  \/ DeletesTarget
  \/ CallsStop \/ WakesHandler \/ ClearsDevices

\* The clock runs, and so does a thread that can; requests of the handler end by
\* their timeouts, and the device listener returns.  Nothing makes a packet arrive or
\* the application call.
Fairness ==
  /\ WF_vars(Tick) /\ WF_vars(HandlerStep) /\ WF_vars(DeletesTarget)
  /\ WF_vars(WakesHandler) /\ WF_vars(ClearsDevices)

Spec == Init /\ [][Next]_vars /\ Fairness

--------------------------------------------------------------------------------
HandlerPc == {"top", "locking", "scanning", "removing", "finding", "telling", "relocking",
              "scanned", "asleep", "done", "undefined"}
WorkerPc == {"idle", "telling", "undefined"}
AppPc == {"idle", "stopping", "joining", "stopped"}
Times == Nat

\* The types, and that only who removes a device keeps one.
TypeOK ==
  /\ now \in 1..MaxTime /\ currTime \in 0..MaxTime
  /\ made \in 0..MaxObjects /\ deviceList \subseteq 1..made
  /\ expiry \in [Objects -> Times] /\ named \in [Objects -> Parts]
  /\ embedded \in [Objects -> SUBSET (1..Embedded)]
  /\ renewal \in [Objects -> [Services -> Times]]
  /\ runnable \in BOOLEAN /\ steady \in BOOLEAN /\ replaced \in BOOLEAN
  /\ cursor \in Objects \cup {NoObject}
  /\ expirationTime \in Times /\ deadline \in Times
  /\ pc \in [handler : HandlerPc, worker : WorkerPc, app : AppPc]
  /\ held \in Objects \cup {NoObject} /\ target \in Objects \cup {NoObject} /\ part \in Parts
  /\ pc["handler"] \in {"removing", "finding", "telling"} => held # NoObject
  /\ held # NoObject => pc["handler"] \in {"removing", "finding", "telling", "undefined"}
  /\ target # NoObject <=> pc["worker"] \in {"telling", "undefined"}

\* A pointer that is kept without the lock is lost to another removal, or if it is that
\* of an embedded device to a new description, and to nothing else: the handler steps
\* past what it deletes, no announcement frees a root device, and a stop frees the list
\* when nobody has pointers.
LostToAnotherOnly ==
  [][/\ CursorExists /\ HeldExists /\ FoundExists
        /\ ~(CursorExists' /\ HeldExists' /\ FoundExists') =>
          \/ pc["worker"] = "telling" /\ pc'["worker"] = "idle"
          \/ CursorExists' /\ part # Root /\ held \in deviceList'
     /\ TargetExists /\ ~TargetExists' =>
          pc["handler"] = "telling" /\ pc'["handler"] = "relocking" /\ part = Root]_vars

\* There is a leased device up to o: the scan has a time to compare renewals with.
LeasedUpTo(o) == \E q \in deviceList : q <= o /\ expiry[q] # Never

\* A later embedded device of o is subscribed to, and may be found instead of s.
Overlooked(o, s) ==
  /\ s[1] # Root
  /\ \E t \in Services : t[1] > s[1] /\ renewal[o][t] # Never

\* The time lets no lease run out, and no subscription that the scan can see.
CoversLease(time, o) == expiry[o] # Never => time # Never /\ time <= expiry[o]
CoversService(time, o, s) ==
  renewal[o][s] # Never /\ LeasedUpTo(o) => time # Never /\ time <= renewal[o][s]

\* The scan ended with a time to come, or with none; one that is over already is the
\* renewal of a subscription granted for no more than MUPNP_SUBSCRIPTION_DELAY.
UndisturbedSleep == pc["handler"] = "asleep" /\ steady /\ expirationTime \notin 1..currTime

\* Of the services of embedded devices only those of the last one that is subscribed to
\* are sure.
Covers(time, o) ==
  /\ CoversLease(time, o)
  /\ \A s \in Services : ~Overlooked(o, s) => CoversService(time, o, s)

\* A sleep that nothing disturbed, after a scan that did not come to a time that is over,
\* ends no later than the first lease, and no later than the first renewal among the
\* services from the first leased device on that no later embedded device hides.
SleepCovers == UndisturbedSleep => \A o \in deviceList : Covers(deadline, o)

Woken == pc["handler"] = "asleep" /\ pc'["handler"] = "top"

LeasesEnd ==
  \A o \in Objects : o \in deviceList /\ expiry[o] \in 1..now ~>
    o \notin deviceList \/ expiry[o] \notin 1..now

\* As long as announcements keep waking the handler, and are those of root devices, no
\* expired device stays, those it steps over in one scan included: it is removed or
\* announced again.
LeavesIfWoken ==
  []<><<Woken>>_vars /\ <>[](\A o \in deviceList : named[o] = Root) => LeasesEnd

\* Likewise every subscription that is due is renewed, or given up when the device
\* refuses, also those of a device that is stepped over, and of embedded devices; but
\* not those of an expired device that its packet keeps from being removed.
RenewedIfWoken ==
  []<><<Woken>>_vars =>
    \A o \in Objects, s \in Services : Present(o, s[1]) /\ renewal[o][s] \in 1..now ~>
      \/ ~Present(o, s[1]) \/ renewal[o][s] \notin 1..now
      \/ expiry[o] \in 1..now /\ named[o] # Root

\* What the handler is for: a device whose lease is up leaves, whoever else wakes.
ExpiredLeave == LeasesEnd

\* mupnp_controlpoint_stop gets the handler out of its wait and returns, unless a freed
\* device was used.
StopReturns ==
  pc["app"] = "stopping" ~> pc["app"] = "stopped" \/ \E p \in DOMAIN pc : pc[p] = "undefined"
================================================================================
