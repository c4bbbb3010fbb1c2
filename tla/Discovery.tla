-------------------------------- MODULE Discovery --------------------------------
(***************************************************************************)
(* The device cache of one mUpnpControlPoint (controlpoint.c): SSDP        *)
(* workers and direct callers that fetch descriptions and publish them,    *)
(* byebyes that remove devices, and the application thread that stops and  *)
(* starts the control point.                                               *)
(*                                                                         *)
(* Every section under ctrlPoint->mutex is one action.  HTTP and calls of  *)
(* the application's device listener, which is set, happen between         *)
(* sections.  A description is abstracted to the set of UDNs of its device *)
(* tree, a cached mUpnpDevice to that set and to its LOCATION; the         *)
(* expiration thread is left to a module of its own.                       *)
(***************************************************************************)
EXTENDS Naturals

CONSTANTS
  Workers,       \* SSDP server threads, which the control point starts and joins
  Callers,       \* other threads that call adddevicebyssdppacket themselves
  Removers,      \* the workers that receive NOTIFY, and so byebyes
  Roots,         \* the UDNs of root devices
  Descriptions,  \* the device trees that can be served, each a set of UDNs
  Locations,     \* the LOCATIONs that are announced
  MaxFetches,    \* bound: reservations made
  MaxObjects,    \* bound: devices added to the list
  MaxEpoch       \* bound: byebyes and stops

Procs == Workers \cup Callers
Udns == UNION Descriptions
Objects == 1..MaxObjects
NoObject == 0

ASSUME DiscoveryAssumption ==
  /\ Removers \subseteq Workers
  /\ "app" \notin Procs /\ "none" \notin Locations /\ "none" \notin Udns
  /\ \A d \in Descriptions : \E r \in Roots : d \cap Roots = {r}
  /\ \A d, e \in Descriptions : d \cap e # {} => d \cap Roots = e \cap Roots
  /\ MaxFetches \in Nat /\ MaxObjects \in Nat /\ MaxEpoch \in Nat

VARIABLES
  stopping,        \* ctrlPoint->stopping
  discoveryEpoch,  \* ctrlPoint->discoveryEpoch
  pendingFetches,  \* the processes whose mUpnpControlPointFetch is on the list
  fetch,           \* fetch[p]: that record, with the locals of fetchdevice
  fetches,         \* how many reservations were made
  deviceList,      \* the objects on ctrlPoint->deviceList
  device,          \* device[o]: the contents of mUpnpDevice o
  made,            \* how many objects were ever on the list
  listening,       \* the SSDP servers are open and their threads runnable
  restarting,      \* the stop in progress is that of mupnp_controlpoint_start
  pc,              \* pc[p]: where process p is
  held,            \* held[p]: the device pointer p keeps while it calls the listener
  outdated,        \* history: the pending fetches that a byebye or a stop came after
  shared           \* history: the pending fetches that another announcement shares

cacheVars == <<deviceList, device, made>>
fetchVars == <<pendingFetches, fetch, fetches, outdated, shared>>
controlVars == <<stopping, discoveryEpoch, listening, restarting>>
vars == <<controlVars, fetchVars, cacheVars, pc, held>>

NoFetch == [udn |-> "none", rootUdn |-> "none", location |-> "none", superseded |-> FALSE,
            epoch |-> 0, cachedLocation |-> "none", candidate |-> {}, number |-> 0, known |-> 0]
NoDevice == [udns |-> {}, location |-> "none", number |-> 0]

Init ==
  /\ stopping = FALSE /\ listening = FALSE
  /\ restarting = FALSE
  /\ discoveryEpoch = 0
  /\ pendingFetches = {} /\ fetches = 0 /\ outdated = {} /\ shared = {}
  /\ fetch = [p \in Procs |-> NoFetch]
  /\ deviceList = {} /\ made = 0
  /\ device = [o \in Objects |-> NoDevice]
  /\ pc = [p \in Procs \cup {"app"} |-> "idle"]
  /\ held = [p \in Procs \cup {"app"} |-> NoObject]

Goto(p, from, to) == pc[p] = from /\ pc' = [pc EXCEPT ![p] = to]

\* Devices are added at the end of the list: the first is the oldest.
First(objects) == CHOOSE o \in objects : \A q \in objects : o <= q

\* mupnp_controlpoint_getdevicebyudn and the root of what it finds: the first
\* device of the list with u in its tree.
DeviceByUdn(u) ==
  LET found == {o \in deviceList : u \in device[o].udns}
  IN  IF found = {} THEN NoObject ELSE First(found)

RootUdn(udns) == CHOOSE u \in udns : u \in Roots

\* A byebye or a stop: what is being fetched is not to be published any more.
NextEpoch ==
  /\ discoveryEpoch < MaxEpoch
  /\ discoveryEpoch' = discoveryEpoch + 1
  /\ outdated' = pendingFetches

--------------------------------------------------------------------------------
(* mupnp_controlpoint_fetchdevice: the section that reserves.                *)

\* Process p has an alive or a response for the target u.  An SSDP worker takes
\* packets while its server runs; of NOTIFY only those for root devices count.
Announced(p, u) ==
  /\ pc[p] = "idle"
  /\ p \in Workers => listening
  /\ p \in Removers => u \in Roots

\* The pending fetches that an announcement of u at l, with root r, supersedes.
\* The scan goes from the newest and ends at one for the same LOCATION.
Sharing(l) == {p \in pendingFetches : fetch[p].location = l}
Scanned(l) == {p \in pendingFetches : \A q \in Sharing(l) : fetch[p].number > fetch[q].number}
Superseding(u, r, l) ==
  {p \in Scanned(l) : fetch[p].udn = u \/ fetch[p].rootUdn = r}
Supersede(u, r, l) ==
  [p \in Procs |-> IF p \in Superseding(u, r, l) THEN [fetch[p] EXCEPT !.superseded = TRUE]
                   ELSE fetch[p]]

\* The cached LOCATION announced again: the SSDP data is refreshed, no request.
Refreshes(p, u, l) ==
  /\ Announced(p, u)
  /\ ~stopping
  /\ DeviceByUdn(u) # NoObject /\ device[DeviceByUdn(u)].location = l
  /\ pc' = [pc EXCEPT ![p] = "notify"]
  /\ UNCHANGED <<controlVars, fetchVars, cacheVars, held>>

\* The UDN a reservation has for the root of u, and the LOCATION it remembers.
KnownRoot(u) == IF DeviceByUdn(u) = NoObject THEN u ELSE RootUdn(device[DeviceByUdn(u)].udns)
KnownLocation(u) == IF DeviceByUdn(u) = NoObject THEN "none" ELSE device[DeviceByUdn(u)].location

\* The description is being fetched: that fetch will do.
Shares(p, u, l) ==
  /\ Announced(p, u)
  /\ ~stopping
  /\ KnownLocation(u) # l
  /\ Sharing(l) # {}
  /\ fetch' = Supersede(u, KnownRoot(u), l)
  /\ shared' = shared \cup Sharing(l)
  /\ UNCHANGED <<controlVars, pendingFetches, fetches, outdated, cacheVars, pc, held>>

\* The reservation goes to the head of the list.
Reservation(p, u, l) ==
  /\ Announced(p, u)
  /\ KnownLocation(u) # l
  /\ Sharing(l) = {}
  /\ fetches < MaxFetches
  /\ fetches' = fetches + 1
  /\ fetch' = [Supersede(u, KnownRoot(u), l) EXCEPT ![p] =
       [udn |-> u, rootUdn |-> KnownRoot(u), location |-> l, superseded |-> FALSE,
        epoch |-> discoveryEpoch, cachedLocation |-> KnownLocation(u), candidate |-> {},
        number |-> fetches + 1, known |-> made]]
  /\ pendingFetches' = pendingFetches \cup {p}
  /\ pc' = [pc EXCEPT ![p] = "fetching"]
  /\ UNCHANGED <<controlVars, outdated, shared, cacheVars, held>>

\* Nobody reserves once the control point is stopping.
Reserves(p, u, l) == ~stopping /\ Reservation(p, u, l)

\* HTTP, XML and the descriptions of services: a tree that holds the target, or
\* none when any part fails or the tree is unrelated.
Fetched(p) ==
  /\ Goto(p, "fetching", "commit")
  /\ \E tree \in {{}} \cup {d \in Descriptions : fetch[p].udn \in d} :
       fetch' = [fetch EXCEPT ![p].candidate = tree]
  /\ UNCHANGED <<controlVars, pendingFetches, fetches, outdated, shared, cacheVars, held>>

--------------------------------------------------------------------------------
(* mupnp_controlpoint_fetchdevice: the section that publishes.               *)

Valid(p) == ~stopping /\ ~fetch[p].superseded /\ fetch[p].epoch = discoveryEpoch

\* The end of every such section: the reservation leaves the list and
\* fetchCond is signalled.
SignalsAlways(p, to) ==
  pc' = [q \in DOMAIN pc |-> IF q = p THEN to
                             ELSE IF q = "app" /\ pc[q] = "asleep" THEN "waiting" ELSE pc[q]]

EndsFetch(p, to) ==
  /\ pc[p] = "commit"
  /\ pendingFetches' = pendingFetches \ {p}
  /\ outdated' = outdated \ {p}
  /\ shared' = shared \ {p}
  /\ fetch' = [fetch EXCEPT ![p] = NoFetch]
  /\ SignalsAlways(p, to)
  /\ UNCHANGED <<controlVars, fetches, held>>

\* The cached device has got another LOCATION meanwhile, or the root was added
\* for another target.
Overtaken(p) ==
  LET o == DeviceByUdn(fetch[p].udn) IN
  \/ o # NoObject /\ device[o].location # fetch[p].cachedLocation
  \/ /\ o = NoObject /\ fetch[p].candidate # {}
     /\ DeviceByUdn(RootUdn(fetch[p].candidate)) # NoObject

\* A section that leaves its reservation on the list when it discards.
DiscardsOnly(p) ==
  /\ pc[p] = "commit"
  /\ ~Valid(p) \/ Overtaken(p)
  /\ pc' = [pc EXCEPT ![p] = "idle"]
  /\ UNCHANGED <<controlVars, fetchVars, cacheVars, held>>

\* A section that signals fetchCond only for what it publishes.
DiscardsSilently(p) ==
  /\ ~Valid(p) \/ Overtaken(p)
  /\ Goto(p, "commit", "idle")
  /\ pendingFetches' = pendingFetches \ {p}
  /\ outdated' = outdated \ {p}
  /\ shared' = shared \ {p}
  /\ fetch' = [fetch EXCEPT ![p] = NoFetch]
  /\ UNCHANGED <<controlVars, fetches, cacheVars, held>>

Discards(p) ==
  /\ ~Valid(p) \/ Overtaken(p)
  /\ EndsFetch(p, "idle")
  /\ UNCHANGED cacheVars

\* mupnp_device_updatefromdevice on the cached device, which stays the object
\* it was; a failed fetch leaves it alone but is reported too.
Update(p) ==
  LET o == DeviceByUdn(fetch[p].udn) IN
  /\ Valid(p)
  /\ o # NoObject
  /\ device' = IF fetch[p].candidate = {} THEN device
               ELSE [device EXCEPT ![o] = [udns |-> fetch[p].candidate,
                                           location |-> fetch[p].location,
                                           number |-> fetch[p].number]]
  /\ EndsFetch(p, "notify")
  /\ UNCHANGED <<deviceList, made>>

Updates(p) == ~Overtaken(p) /\ Update(p)

\* mupnp_controlpoint_adddevice.
Add(p) ==
  /\ Valid(p)
  /\ DeviceByUdn(fetch[p].udn) = NoObject
  /\ fetch[p].candidate # {}
  /\ made < MaxObjects
  /\ made' = made + 1
  /\ deviceList' = deviceList \cup {made + 1}
  /\ device' = [device EXCEPT ![made + 1] = [udns |-> fetch[p].candidate,
                                             location |-> fetch[p].location,
                                             number |-> fetch[p].number]]
  /\ EndsFetch(p, "notify")

Adds(p) == ~Overtaken(p) /\ Add(p)

\* Nothing was cached and nothing was fetched: reported as invalid.
Fails(p) ==
  /\ Valid(p)
  /\ DeviceByUdn(fetch[p].udn) = NoObject
  /\ fetch[p].candidate = {}
  /\ EndsFetch(p, "notify")
  /\ UNCHANGED cacheVars

\* The call of the device listener, after the section.
Notifies(p) ==
  /\ Goto(p, "notify", "idle")
  /\ UNCHANGED <<controlVars, fetchVars, cacheVars, held>>

--------------------------------------------------------------------------------
(* mupnp_controlpoint_removedevicebyssdppacket.                              *)

\* A byebye that ends what is pending only for a device that is cached.
ByebyeKeepsEpoch(p, r) ==
  LET o == DeviceByUdn(r) IN
  /\ pc[p] = "idle" /\ listening
  /\ discoveryEpoch < MaxEpoch
  /\ discoveryEpoch' = IF o = NoObject THEN discoveryEpoch ELSE discoveryEpoch + 1
  /\ outdated' = pendingFetches
  /\ held' = [held EXCEPT ![p] = o]
  /\ pc' = [pc EXCEPT ![p] = IF o = NoObject THEN "idle" ELSE "removing"]
  /\ UNCHANGED <<stopping, listening, restarting, pendingFetches, fetch, fetches, shared, cacheVars>>

\* The first section; the listener is told Removed after it.
Byebye(p, r) ==
  LET o == DeviceByUdn(r) IN
  /\ pc[p] = "idle" /\ listening
  /\ NextEpoch
  /\ held' = [held EXCEPT ![p] = o]
  /\ pc' = [pc EXCEPT ![p] = IF o = NoObject THEN "idle" ELSE "removing"]
  /\ UNCHANGED <<stopping, listening, restarting, pendingFetches, fetch, fetches, shared, cacheVars>>

\* The second section: mupnp_device_delete on the pointer of the first.
Removes(p) ==
  /\ Goto(p, "removing", "idle")
  /\ deviceList' = deviceList \ {held[p]}
  /\ held' = [held EXCEPT ![p] = NoObject]
  /\ UNCHANGED <<controlVars, fetchVars, device, made>>

--------------------------------------------------------------------------------
(* mupnp_controlpoint_stop and mupnp_controlpoint_start.                     *)

\* By the application, first of all in mupnp_controlpoint_start, or by a start
\* that finds no interface.
CallsStop ==
  /\ \/ Goto("app", "idle", "closing") /\ restarting' \in BOOLEAN
     \/ Goto("app", "opening", "closing") /\ restarting' = FALSE
  /\ stopping' = TRUE
  /\ NextEpoch
  /\ UNCHANGED <<listening, pendingFetches, fetch, fetches, shared, cacheVars, held>>

\* The SSDP threads are asked to stop.  A packet received before is handled as
\* if before this section: it changes nothing that a packet is decided by.
ClosesServers ==
  /\ Goto("app", "closing", "joining")
  /\ listening' = FALSE
  /\ UNCHANGED <<stopping, discoveryEpoch, restarting, fetchVars, cacheVars, held>>

\* A stop that leaves its workers to themselves.
ForgetsToJoin ==
  /\ Goto("app", "joining", "waiting")
  /\ UNCHANGED <<controlVars, fetchVars, cacheVars, held>>

JoinsWorkers ==
  /\ Goto("app", "joining", "waiting")
  /\ \A w \in Workers : pc[w] = "idle"
  /\ UNCHANGED <<controlVars, fetchVars, cacheVars, held>>

\* In the section: with a fetch pending wait on fetchCond, else begin to tell
\* the listener of the devices or, without any, be done.
Done == IF restarting THEN "starting" ELSE "idle"

AwaitsFetches ==
  /\ pc["app"] = "waiting"
  /\ \/ /\ pendingFetches # {}
        /\ pc' = [pc EXCEPT !["app"] = "asleep"]
        /\ held' = held
     \/ /\ pendingFetches = {} /\ deviceList # {}
        /\ pc' = [pc EXCEPT !["app"] = "telling"]
        /\ held' = [held EXCEPT !["app"] = First(deviceList)]
     \/ /\ pendingFetches = {} /\ deviceList = {}
        /\ pc' = [pc EXCEPT !["app"] = Done]
        /\ held' = held
  /\ UNCHANGED <<controlVars, fetchVars, cacheVars>>

\* Back from the listener: on to the next device, or clear the list.
Tells ==
  LET rest == {o \in deviceList : o > held["app"]} IN
  /\ pc["app"] = "telling"
  /\ \/ /\ rest # {}
        /\ held' = [held EXCEPT !["app"] = First(rest)]
        /\ UNCHANGED <<deviceList, pc>>
     \/ /\ rest = {}
        /\ held' = [held EXCEPT !["app"] = NoObject]
        /\ deviceList' = {}
        /\ pc' = [pc EXCEPT !["app"] = Done]
  /\ UNCHANGED <<controlVars, fetchVars, device, made>>

\* mupnp_controlpoint_start once its stop is done.
Restarts ==
  /\ Goto("app", "starting", "opening")
  /\ stopping' = FALSE
  /\ UNCHANGED <<discoveryEpoch, listening, restarting, fetchVars, cacheVars, held>>

\* The servers are opened and started; without an SSDP server start fails.
OpensServers ==
  /\ Goto("app", "opening", "idle")
  /\ listening' \in BOOLEAN
  /\ restarting' = FALSE
  /\ UNCHANGED <<stopping, discoveryEpoch, fetchVars, cacheVars, held>>

--------------------------------------------------------------------------------
Commits(p) == Discards(p) \/ Updates(p) \/ Adds(p) \/ Fails(p)
ProcStep(p) == Fetched(p) \/ Commits(p) \/ Notifies(p) \/ Removes(p)
AppStep ==
  ClosesServers \/ JoinsWorkers \/ AwaitsFetches \/ Tells \/ Restarts \/ OpensServers

Next ==
  \/ \E p \in Procs, u \in Udns, l \in Locations :
       Refreshes(p, u, l) \/ Shares(p, u, l) \/ Reserves(p, u, l)
  \/ \E p \in Procs : ProcStep(p)
  \/ \E p \in Removers, r \in Roots : Byebye(p, r)
  \/ CallsStop \/ AppStep

\* Threads run, HTTP ends or times out and a listener returns; nothing makes
\* a packet arrive or the application call.
Fairness == WF_vars(AppStep) /\ \A p \in Procs : WF_vars(ProcStep(p))

Spec == Init /\ [][Next]_vars /\ Fairness

--------------------------------------------------------------------------------
FetchState ==
  [udn : Udns \cup {"none"}, rootUdn : Udns \cup {"none"},
   location : Locations \cup {"none"}, superseded : BOOLEAN, epoch : 0..MaxEpoch,
   cachedLocation : Locations \cup {"none"}, candidate : {{}} \cup Descriptions,
   number : 0..MaxFetches, known : 0..MaxObjects]
DeviceState ==
  [udns : {{}} \cup Descriptions, location : Locations \cup {"none"}, number : 0..MaxFetches]

ProcPc == {"idle", "fetching", "commit", "notify", "removing"}
AppPc == {"idle", "closing", "joining", "waiting", "asleep", "telling", "starting", "opening"}

\* The types, and that a reservation, which lives on the stack of its caller,
\* is on the list exactly while that caller is inside the fetch.
TypeOK ==
  /\ stopping \in BOOLEAN /\ listening \in BOOLEAN /\ restarting \in BOOLEAN
  /\ discoveryEpoch \in 0..MaxEpoch
  /\ fetches \in 0..MaxFetches
  /\ fetch \in [Procs -> FetchState]
  /\ pendingFetches = {p \in Procs : pc[p] \in {"fetching", "commit"}}
  /\ outdated \subseteq pendingFetches /\ shared \subseteq pendingFetches
  /\ made \in 0..MaxObjects
  /\ deviceList \subseteq 1..made
  /\ device \in [Objects -> DeviceState]
  /\ held \in [Procs \cup {"app"} -> Objects \cup {NoObject}]
  /\ pc \in [Procs \cup {"app"} -> ProcPc \cup AppPc]
  /\ pc["app"] \in AppPc
  /\ \A p \in Procs : pc[p] \in ProcPc

\* The cache never holds two objects for one root, however the announcements of
\* the root and of its embedded devices interleave with their fetches.
UniqueRoots ==
  \A o, q \in deviceList : RootUdn(device[o].udns) = RootUdn(device[q].udns) => o = q

\* A description whose fetch began before a byebye or a stop is not published:
\* it neither changes the cache nor reaches the listener.
ByebyeInvalidates ==
  [][\A p \in Procs : p \in outdated /\ pc[p] = "commit" /\ pc[p]' # "commit" =>
       pc[p]' = "idle" /\ UNCHANGED cacheVars]_vars

\* An older response does not replace a newer one: once a device was on the list
\* when both fetches began, what the later of them publishes on it stays.
NewestStays ==
  [][\A p \in pendingFetches, o \in deviceList \cap deviceList' :
       pc[p]' = "notify" /\ o <= fetch[p].known => device[o].number <= device[o].number']_vars

\* No thread comes back from the listener to a device that was freed.
DevicesOutliveUse == \A p \in Procs \cup {"app"} : held[p] # NoObject => held[p] \in deviceList

\* Once mupnp_controlpoint_stop has returned the SSDP threads are done, no fetch
\* is pending and no device is cached, until the control point is started.
StoppedIsQuiet ==
  stopping /\ pc["app"] \in {"idle", "starting"} =>
    /\ \A w \in Workers : pc[w] = "idle"
    /\ pendingFetches = {}
    /\ deviceList = {}

\* mupnp_controlpoint_stop returns: it does not miss the last signal of fetchCond.
StopReturns == pc["app"] = "closing" ~> pc["app"] \in {"idle", "starting"}

\* An announcement that is answered by the operation in flight for its LOCATION
\* is not lost: that operation can still be published when it is shared.
AnnouncementsCount == [][\A p \in shared' \ shared : Valid(p)]_vars
================================================================================
