# mUPnP in TLA+

A model of [mUPnP for C](../src/README.md), the UPnP control point and device
library, as it is in `src/`.  The modules follow the native POSIX build; the
branches for ESP-IDF, Windows and the RTOSes in the same files are other programs
and are named here only where a comment of theirs states what all of them want.

TLC checks each model on a small instance, and TLAPS proves every safety property that
the passing runs check for every value of the constants.  `PROJECT.json` says which
definition stands for which lines of code.

## 1. The system and its parts

| Part | State | Operations | What is hard |
|---|---|---|---|
| Worker threads, `util/thread.c`, `util/cond.c` | four flags of a `mUpnpThread`, under `stateMutex` | new, start, stop, restart, delete, delete of itself | who frees the object; a stop as a join of a detached pthread; wake-ups that get lost |
| HTTP server, `http/http_server.c` | accept thread, list of client threads, `deletePending`, a mark per client | start, stop, delete, the accept and client threads | ownership of client threads; a listener that deletes the server it runs on |
| Discovery of a control point, `controlpoint.c` | device list, list of pending fetches, `discoveryEpoch`, `stopping` | alive and response, byebye, stop, start | HTTP and callbacks outside the lock; old answers after new ones; a stop that joins what it has no thread for |
| Expiration handler, `controlpoint_event.c:97` | expiry of devices and subscriptions, `expCond` | scan, remove, renew, wait | lost wake-ups, pointers kept without the lock, zero as a special time |
| Subscriptions of a control point, `controlpoint_event.c`, `controlpoint_http_server.c` | SID, timeout, event key and state table of a service | subscribe, renew, unsubscribe, NOTIFY | requests inside the lock; gaps in SEQ; events before the SID is known |
| Eventing of a device, `device_http_server.c`, `service_notify.c`, `event/subscriber.c` | subscribers of a service, their keys and expiry | SUBSCRIBE, renewal, UNSUBSCRIBE, notify | notification under the service lock; renewal and SUBSCRIBE without it |
| Device and advertiser, `device.c`, `device_advertiser.c` | port, BOOTID, HTTP and SSDP servers, advertiser thread | start, stop, byebye, announce | an alive after the last byebye; a port that is taken; half-way failure of start |
| SSDP servers, M-SEARCH, `ssdp/`, `device_ssdp_server.c` | receive threads, a table of recent searches each | receive, filter, respond | answers during a stop; a filter by a weak hash |
| Actions and queries, `control/`, `soap/soap_request.c` | arguments and status of the shared `mUpnpAction` | post, post with arguments, request received | two requests on one action; what earlier ones left; lost answers and retries |
| Lists, strings, URIs, XML, SOAP, HTTP messages, sockets, files | data | sequential helpers | little that a unit test does not reach |

How they interact: every server and the advertiser, the expiration handler and each
HTTP connection run on a `mUpnpThread`.  SSDP threads call into Discovery with each
packet, one packet at a time per thread; applications may call
`mupnp_controlpoint_adddevicebyssdppacket` on threads of their own.  Discovery calls
the application's device listener outside its lock, and signals the expiration
handler.  HTTP client threads call the listener of a device (control, eventing) or of
a control point (NOTIFY).  `mupnp_controlpoint_stop` stops all of them in a fixed
order and then waits for the fetches it has no thread for.

What makes each part correct, and which hazards of the code endanger it, is listed
hazard by hazard in `PROJECT.json`; a hazard without a property says why.

## 2. The modules

```
PosixThread ── ThreadLifecycle ── MCThreadLifecycle,  ThreadLifecycle_proofs
           └── HttpServer ─────── MCHttpServer,       HttpServer_proofs
               Discovery ──────── MCDiscovery,        Discovery_proofs ─┐
               Expiration ─────── MCExpiration,       Expiration_proofs ┼─ Naturals_proofs
EventChannel ◁ Eventing ───────── MCEventing,         Eventing_proofs ──┘
               DeviceLifecycle ── MCDeviceLifecycle,  DeviceLifecycle_proofs
               ActionControl ──── MCActionControl,    ActionControl_proofs
```

A component's theorems are in its `_proofs` module.  `Naturals_proofs` has what the proofs
share about sets of numbers: lists are modelled as sets of numbers in the order of
making, and begin with the least.

### PosixThread

What each critical section on `stateMutex` does to `isRunning`, `runnableFlag`,
`stopWaiting` and `deletePending`, as functions on a record.  The two modules below
share it, so that the server is built on the same thread the first module checks.

### ThreadLifecycle

One thread object, its owner, other threads that stop it, and the pthreads of its
runs.  A section on `stateMutex` is one action.  `call[c]` is where a caller is inside
stop, restart or delete, `run[r]` where pthread `r` is in `posix_thread_proc`.  The
action of the thread has the shape that all of the library's have: test
`mupnp_thread_isrunnable`, work, perhaps wait on a condition, test again.  `sleeps`
chooses at the start between a worker with bounded waits and one that waits on a
condition without a deadline (the expiration handler), which is always stopped with
`mupnp_thread_stop_with_cond`.

The protocol that the library's own callers follow is part of the model: the owner
starts, restarts and deletes; whoever deletes makes sure that nobody starts another
call.  The constant `ConcurrentStart` lifts the rule that no start overlaps a stop of
another thread.  The rule (`Quiet`) also holds for a run that deletes its own object: it
may meet the delete of the owner, but not a mere stop of another thread.

### HttpServer

One server, its accept thread, a thread per connection and the application.  A section
on the server's mutex or on a thread's `stateMutex` is one action, and so is each
unlocked assignment that others read.  `object[t]` says whether the memory of a thread
object is allocated, `after[p]` what follows the stop that process `p` is in, since
stop is called by the application, by delete, and by a listener on a client thread.
Requests are left out: a served connection ends when it may.

### Discovery

The cache of one control point.  `mupnp_controlpoint_fetchdevice` is split where it
unlocks: the section that looks the device up and reserves (`Refreshes`, `Shares`,
`Reserves`), the fetch over HTTP (`Fetched`), the section that publishes
(`Discards`, `Updates`, `Adds`, `Fails`) and the call of the listener (`Notifies`).
`Byebye` and `Removes` are the two sections of
`mupnp_controlpoint_removedevicebyssdppacket`.  The application's thread goes through
stop and start (`CallsStop` to `OpensServers`).

A description is the set of UDNs in its tree, a packet a UDN and a LOCATION.  What the
network may announce or serve is chosen anew each time; the only assumption on it is
that a tree has one root and that trees that share a UDN share the root.
`mupnp_device_updatefromdevice` refuses a tree with another root, which therefore does
not come up.  A control point keeps `fetch[p].number` and `fetch[p].known` only in
the model: they date a fetch and what was cached when it began, for `NewestStays` and
its proof.  `outdated` and `shared` are histories too.

The device listener is set, so that the unlocked window in which it runs is there.

### Expiration

The thread of `controlpoint_event.c:97` with a clock in seconds.  The handler reads the
clock in three places: before it locks (`Begins`), in
`mupnp_device_getfirstexpiratedservice` for the subscriptions (`ChecksServices`), and
before it sleeps (`FallsAsleep`), and the model lets time pass between any two of them.
The special times are those of the code: an expiry or renewal of 0 is none, a timeout of 0
waits without a deadline.

A device is a tree of one root and its embedded devices, with an expiry, the device that
the USN of its stored packet names (`named`), and a renewal for each service that is
subscribed to.  `ChecksServices` renews what is due in the whole tree and finds one service
of it as the recursion of the code does (`FirstOf`): of the root the first one that comes
before the time so far, then for each embedded device the same against the time that the
root has come to, the last one found being kept.  `MeetsExpired` keeps `held` and `cursor`
and releases the lock; `ReadsUsn`, `FindsDevice` and `DeletesDevice` are the three parts of
`mupnp_controlpoint_removedevicebyssdppacket`, which deletes what the USN names, not
what the handler holds; `Continues` goes on from the saved next device.

Around the handler are the SSDP workers that add a device, refresh it by a packet for any
device of its tree (`Refreshes`, and with a new description `Describes`), fail to fetch,
and hear byebyes (`HearsByebye`, `DeletesTarget`, with their pointer over the listener
call); `mupnp_controlpoint_subscribe` and unsubscribe; and the stop with its repeated
signal.  A thread that follows a pointer to a freed device is `"undefined"` from there on
(`UsesFreed`).

Abstracted: trees have two levels, and all the same devices and services; a UDN does not
return once it was deleted with its root; the clock stands still while one tree is
checked; the device listener is set; one worker handles byebyes.  The fetch itself is in
Discovery.

### Eventing and EventChannel

One service of a device and a control point that subscribes to it.  On the device a
SUBSCRIBE lists its subscriber without the lock of the service (`ListsSubscriber`),
answers, and then sends all variables as the notifier; a notifier takes the lock, drops
expired subscribers, and sends to one after the other with the values of the moment
(`Posts`), removing those that do not answer (`Undelivered`).  At the control point
`ControlPointLocked` is the mutex it holds during every request but a first SUBSCRIBE,
also the one that the handler of a NOTIFY makes when it finds a gap (`FindsGap`).  Every
request can be lost, answered, or time out while the receiver still works on it, and a
NOTIFY can reach its handler after its sender has given up.

`EventChannel` is what all this is for: the control point knows of each variable a value
that it has had, and goes on to later ones only.  `Eventing` implements it with its own
`value` and `known` (`MovesForward`).

### DeviceLifecycle

`mupnp_device_start`, `_stop` and the restart, as the sequence of sections that others can
get between: byebyes, advertiser, HTTP servers, SSDP servers, then interfaces, ports,
BOOTID, announcement.  A notice is of a device or of one of its services,
on one interface, and `heard` is what a control point that misses nothing has learned from each:
the port of the LOCATION and the BOOTID.  `Alive` and `Answer` follow the code in which
of the two is whose: the LOCATION of an embedded device has its own `httpPort`, that of a
service and of every search response the root's.  The advertiser and the responder of
each interface are processes of their own, which a stop waits for.  A responder composes an
answer, with the port and BOOTID of that moment, and sends it after a wait (`Composes`,
`Responds`); it may do either while the device changes them.

The model follows the code where `device.h` says otherwise: a start of a running device
stops and restarts it and a stop of a stopped one sends the byebyes again, which
`device.h:841` and `:912` call without effect; and a port that is in use makes the device
try the next one, while `device.h:832` has the start fail.

### ActionControl

Calls of one action.  A strict caller is `mupnp_action_postwitharguments`, a legacy
caller `mupnp_action_post`, which uses the action object of the control point and is made
under its lock as `controlpoint.h:312` asks; other libraries may leave arguments out.
The workers of the device set the arguments one by one in the one `mUpnpAction` of the
service, clear its outputs, call the listener and build the response.  The listener
returns its inputs as output, so that a result tells whose inputs it was made from.
`ForeignReplies` are what a proxy or another library may answer, so that each way to
decode a reply comes up.  No lock protects the action of the device: `mixed[c]` are the
calls that a worker has served at the same time as `c`.

## 3. What the runs show

| Run | Result | Instance |
|---|---|---|
| `thread_lifecycle` | passes | owner, two stoppers, three runs, both kinds of worker |
| `thread_restart_race` | `StopReturns` violated | the same with `ConcurrentStart` |
| `http_server` | passes | two connections, two starts; deleted by the application, or by the listener of its only connection |
| `http_listener_delete` | `ServerOutlivesUse` violated | the listener deletes the server of two connections |
| `discovery` | passes | a NOTIFY worker and a direct caller, two roots and an embedded device, two LOCATIONs |
| `discovery_stale_removal` | `DevicesOutliveUse` violated | two NOTIFY workers |
| `discovery_sharing` | `AnnouncementsCount` violated | as `discovery` |
| `expiration` | passes | two roots with an embedded device and its service each, leases of 1 and 2 seconds, two seconds |
| `expiration_lapse` | `ExpiredLeave` violated | two roots, leases of 1 and 2 seconds, three seconds |
| `eventing` | passes | one setter, two variables set once each, two subscriptions |
| `device` | passes | root and embedded device with a service, two interfaces, two ports, two starts, searches for the root |
| `action_control` | passes | two calls of any kind, two inputs, one output, seven foreign replies |

**Threads.**  The run establishes that stop is a join (`StopIsAJoin`), that it returns
(`StopReturns`), that two runs never overlap (`OneRunAtATime`), and that an object
somebody has taken on to delete is freed once (`Reclaimed`) and only when nobody will
touch it (`NoUseAfterFree`), with the proviso `Quiet` of section 2.  Three runs are enough for the marks of one run to meet
the next and the one after; two stoppers for a stop to overlap a stop.

`thread_restart_race`: two threads stop the object; one of them, the owner, comes back
and starts it again before the other has woken.  The loop at `thread.c:601` then waits
for the new run, which has a fresh `runnableFlag`.  The ESP-IDF branch clears the flag
again after its wait for this very reason (comment at `thread.c:569`).

**HTTP server.**  `ThreadsOutliveUse` and `ClientsReclaimed` are the two halves of
ownership: a client thread is deleted by itself, or by the stop that marked it under
the server's mutex, never by both and never by neither.  `StopJoinsActions` says that
when the list is dropped no client serves any more; `ServerOutlivesUse` that no one is
left on a server that is freed; `StopReturns` that a stop called on a client thread
does not wait for itself.  Two connections make the application's stop meet a client
that ends by itself while another is being served, and two starts make the lists of one
life meet the next.

`http_listener_delete`: the deferred deletion is a flag of the server, and whichever
client ends next acts on it.  With one connection that is the client that asked.  With
two the other one frees the server under the listener's action.

**Discovery.**  `UniqueRoots` needs the second look-up of `fetchdevice` when root and
embedded device are announced together; `NewestStays` needs `superseded` together with
the remembered LOCATION; `ByebyeInvalidates` needs the epoch to rise for a byebye of a
device that is not cached; `StoppedIsQuiet` and `StopReturns` need the wait on
`fetchCond`.  `DevicesOutliveUse` holds for one thread that handles byebyes, and as far as
Discovery goes: a program always has the expiration thread as a second remover, whose races
are those of Expiration.  Nor has Discovery the expiration and HTTP threads to stop, or a
start that fails, so that `StoppedIsQuiet` is about the SSDP threads, the fetches and the
list.

Bounds: three fetches let a third announcement meet two that race, two objects let a
device be removed and come back, and an epoch up to three allows a byebye, a stop and
one more in one behaviour.  Two roots and an embedded device are the least on which a
look-up can find another root, the same root by another UDN, or nothing.  The
properties compare two fetches and one device at a time.

`discovery_stale_removal`: the second section of the removal deletes the pointer found
in the first.  Two SSDP threads, which a host with two interfaces has, receive the same
byebye, and the second thread deletes a freed device.

`discovery_sharing`: a device says byebye and alive while its description is fetched.
The alive is dropped because a fetch of its LOCATION is pending, and that fetch is
discarded because of the byebye.

**Expiration.**  `SleepCovers` is the sleep computed right: if the clock stood still since
it was read, nothing was signalled and no expired device was met, the handler wakes for
every lease, and for every subscription from the first leased device on.  Its provisos are
the code's.  Without a lease so far no renewal is ever earlier than 0
(`controlpoint_event.c:76`); an embedded device that is found later in the tree replaces
one that is due sooner (`Overlooked`, line 88); and a scan that comes to a time that is
already over, as a subscription granted for `MUPNP_SUBSCRIPTION_DELAY` does, ends in a
sleep without a deadline (line 173).  The run has one embedded device, and `Overlooked`
never holds in it; what the proviso excludes, and that nothing else has to be excluded in
trees of any number of embedded devices, is in the proof (section 5).

`LostToAnotherOnly` is about the pointers that the handler and an SSDP worker keep over
their unlocked sections: none of them is lost by the thread that keeps it, by an
announcement that refreshes a root, or by the stop, which waits for both before it frees
the list; only by the removal that another thread makes meanwhile, or, for an embedded
device, by a new description.

`LeavesIfWoken` and `RenewedIfWoken` are what holds in spite of the device stepped over
after an expired one and of signals that are lost: as long as somebody wakes the handler
again and again, nothing that is due stays as it is.  The first assumes that from some time
on the packets are those of root devices, which is what NOTIFY brings; search responses and
packets that the application adds may name embedded ones.  `StopReturns` needs the signal
to be repeated, since the handler may sleep without a deadline.

`expiration_lapse`: the handler finds a device that has a second left, the second passes
before it computes its sleep, and the difference, 0, means to sleep without a deadline.
With no announcement the device is never removed.

What the code does where these properties have their provisos:

- The stored packet of a root can be that of an embedded device.  When the lease is over
  the removal deletes the embedded device, and when the handler looks again, nothing: the
  root stays (`LeavesIfWoken`).
- A byebye may free the device between `MeetsExpired`, which releases the lock, and
  `ReadsUsn`, which reads its packet (`LostToAnotherOnly`).
- An alive may come while the handler removes the device.  Its packet is stored, the
  application is told of an update, and the device is deleted all the same.
- Of two embedded devices with renewals at 3 and 4 that both come before the lease the
  second is kept, and the handler sleeps until 4 (`SleepCovers`).

Bounds: two roots are enough for one to be stepped over after the other; two seconds for a
lease to be granted, to run out during a scan, and to be over (three where it must lapse
during the second of a sleep).  Leases of 1 and 2 order two expiries both ways.  One
embedded device is enough for a packet to name another than the root, and its service for a
renewal to come before a lease, after it, or without one.

**Eventing.**  `InSync` relates both ends: when all is quiet and the device lists the
control point, the control point has every value, because an event that is not answered
ends the subscription.  It has one exception, which the property names (`blind`): the
first event reaches the control point before the answer to SUBSCRIBE, is answered with OK
although its SID is unknown, and is not repeated.  `NoFalseAlarm` says that this, and the
different maxima of the keys on both sides, are the only reasons to give up a
subscription.  `NotificationsEnd` and `CallsEnd` are about the two locks: the handler of a
NOTIFY unsubscribes under the lock of the control point, and the device handles
UNSUBSCRIBE under the lock it notifies with; a timeout has to part them, and does.
`MovesForward` is the refinement: a late NOTIFY of an old subscription does not undo what
a new one has told.

Bounds: two variables make an event of one differ from the first event with all; one
setter and the worker of a SUBSCRIBE are two notifiers; two subscriptions let a NOTIFY of
the first arrive during or after the second.  At the bound a handler that would subscribe
a third time goes on as if that request had failed.  `NotifyCountMax = 3` and
`EventMaxSeq = 1` keep the order of the real maxima, 2^32-1 and 2^31-1, so that both wrap.

**Device.**  `AllLeave` and `StopSilences` are the end of a device's life: all it has
announced is taken back, and nothing is sent after the stop returned.  The first has a
proviso (`overlapped`): the byebyes are sent before the advertiser and the SSDP threads are
stopped, and what these send in between stays known until its lease is over.
`Current` relates the last announcements and answers to the servers that are open: each
LOCATION has the port that is served, on every interface where it could be opened, also
in an answer that was composed long before it is sent.  Its provisos are the code's: an
embedded device keeps the port its description had, and interfaces whose server could not
be opened are announced all the same.  Of the BOOTID it says nothing, for an answer with
the old one may be sent after the announcement with the new one (`device.c:1562`, `:1662`);
that the advertiser goes on and its next announcement corrects it is `BootIdRecovers`.  `CallsReturn` says that the
joins of the stop come to an end, given that sleeps do.

Bounds: two interfaces let the HTTP server be open on one of them only, two ports make the
root move away from the embedded device, two starts make a restart.  A search for the root
is answered with one notice, which can wait while the device stops and starts; the proofs
are for all targets.  A deeper tree adds nothing: notices are sent device by device.

**Action control.**  `TellsWhatHappened` is what the strict call is for (`control.h:776`,
`doc/gateway-action-results.md`): one attempt, and a result from which the caller knows
whether the action was executed.  `AnswersOwn` bounds what the shared action can do to a
caller: in a successful response the values of the inputs it sent are its own or those of a
request that was served at the same time, never what an earlier one has left, and they are
missing only if the outputs were cleared for such a request; a request that was served
alone gets the error that was set for it.  It says nothing of inputs that a request leaves
out.  `CallsReturn` is the liveness of the timeouts.

The provisos are what the code does.  Two workers set their arguments one after the other,
and the listener that is called for the first reads those of the second; a request without
`in1` follows one that had it, and the listener reads the earlier value.
`doc/mupnpcproguide.md:280` promises a listener the values passed from the control point.

Bounds: two calls are enough for one to meet what the other has left or is about to set;
with one input given and one left out, the one left out is the other call's.

## 4. Fairness

Every fairness condition is weak and says that a thread that can run does.

- A caller inside a call on a thread object goes on; its timed wait ends (the 100ms of
  `thread.c:608`).  Nothing makes a worker wake from a wait on its condition: it has no
  deadline, and `WakeUp` is not fair.
- An accept or a read ends once the thread is no longer runnable: `socket.c` waits for
  readiness in slices and looks at the flag between them.  Before that nothing makes a
  peer send, close or time out.
- HTTP requests of a fetch end, by their socket timeouts, and listeners return.  Nothing
  makes a packet arrive or the application call start, stop or delete.
- The clock of Expiration runs up to its bound, and the handler steps when it can; a wait
  with a deadline ends there (`cond.c:135`); the listener call of a byebye returns.  `LeavesIfWoken` and `RenewedIfWoken` have
  the wake-ups as their premise, since nothing in the code promises them.
- In Eventing workers, notifiers and handlers run, and whoever waits for an answer stops
  waiting (`http_request.c:292` sets the timeout, 30 s by default, line 63).  Nothing makes a message arrive in time.
- In DeviceLifecycle the steps of a start or stop, the advertiser and each responder run,
  the sleeps of the last two end, and some port is available: `device.c:1625` tries ports
  without a bound.  Nobody has to search.  `BootIdRecovers` rests on the
  sleeps of the advertiser.
- In ActionControl callers and workers run and requests end; a request need not arrive.

## 5. What is proved

Every invariant and every action property of the passing runs is a theorem, and so is
the refinement of EventChannel, from the assumptions named in the modules
(`LifecycleAssumption`, `HttpAssumption`, `DiscoveryAssumption` and so on): for any
number of threads, connections, devices, subscriptions, calls or arguments, and for any
bounds.  Hardly any of the properties is inductive.  Each proof has the same layout: the
parts of the inductive invariant with what each says in words, a lemma for each action
that shows that it keeps them, and the theorems.  Three theorems have a hypothesis beyond
the modules' assumptions, and it is named below with what happens without it:
`OneRemoverIsSafe` of Discovery, `ServerIsOwned` and `StopIsAJoin` of the HTTP server.

**Threads.**  None of the safety properties is inductive: that nobody is on a freed
object depends on who claimed it, that on the marks, and they on where the run is.
`LifecycleInv` says in addition that `isRunning` holds exactly while some run executes
its action (`RunningIsExact`), that runs not started are untouched (`FutureRuns`), that
`stopWaiting` is set during a run only while some caller waits (`StopWaitingIsExact`),
and, for each value of claim, what is alive, who may still be on the object and which
marks are set: `Unclaimed` (whole, no deletion under way), `OwnerDeletes` (all other
callers are out and the wrapper will not free) and `WorkerDeletes` (no caller at all;
the object is alive exactly while one run still uses it).
`NextInv` has a step per action.  `StopJoins` is the action
property from the same invariant, and `SelfDeletionNeverLeaks` the safety half of
`Reclaimed`: an object that its run has claimed always has a run on its way to free it.

**Discovery.**  `DiscoveryInv` has two halves.  `ControlInv` follows a stop: by its
stages which of `stopping`, `listening`, the workers, the pending fetches and the list
are done (`StopProgress`); that the epoch of an outdated fetch is below the present one
(`Epochs`); and who keeps device pointers (`Pointers`).  `DataInv` is about the order of
fetches.  `NewestStays` needs that of the pending fetches that know a root only the
newest is not superseded (`OnlyNewestCounts`), and that this one is newer than what is
cached for the root (`NewerThanCached`), which in turn needs that roots are unique
(`UniqueRoots`) and that the root a reservation remembers is that of its target
(`KnownRoots`).

`OneRemoverIsSafe` proves `DevicesOutliveUse` for at most one thread that handles
byebyes; `discovery_stale_removal` shows that the assumption cannot be dropped.

**HTTP server.**  `HttpInv` is the protocol of ownership.  A client on the list is whole
and nobody's yet (`OnList`), and as long as one is there, the accept thread or a stop is
there to take it (`Attended`).  A client that a stop has taken is marked, belongs to that
stop alone and does not delete itself, and when it is about to be freed its pthread has
ended (`Taken`).  A client in its action is on the list, taken by a stop, or has deleted
itself in a stop that its own listener called (`Accounted`).  Under these are the facts of
the two threads: `isRunning` is exact (`RunningIsExact`), no pthread is without its object
(`Backed`), a connection is on the list until it cannot be started (`Accepting`), no client is
taken before the accept thread is joined (`AcceptOwned`), and a deletion that a listener
asked for is the only reason for a stop on a client thread (`Requested`, `Returning`).
`ThreadsAreOwned` follows whoever deletes the server.

`ServerIsOwned` and `StopIsAJoin` need in addition that no two stops meet.  They hold for
any number of connections if the application deletes its server, and for one if a
listener does (`OneDeleter`); `http_listener_delete` shows that two are too many.
`SingleInv` carries this: a server that its listener deletes has had one connection
(`OneConnection`), no client is in its action once the list is gone (`Stopped`), and nobody
is left on a server that is gone (`Deserted`).

**Expiration.**  `HandlerInv` says where the handler has a cursor, that the device it removes
comes before the cursor (`ScanInv`), and that a stop gets past its wait only when the
handler is done, and to its end only when the worker is (`StopInv`).
`PointersLostToAnother` follows step by step: of the steps that delete something, that of
the handler itself spares its cursor, that of a stop finds nobody with a pointer, and the
others are the two that the property names.  `SteadyInv` is about a scan that nothing
disturbed: at each place the clock is still that of its beginning, and the time computed so
far covers every device before the cursor (`Scanned`, `Covers`).  Under it are lemmas about
`FirstOf` for any number of embedded devices: what it returns is not after the time it was
given, nor after any renewal that no later embedded device hides.  `SleepIsCovered` holds
for whatever grants, also for those with a renewal that is over at once, because
`SleepCovers` excludes a scan that ends with a time that is over.

**Eventing.**  `ControlInv` is who holds what: the notifier and what it has still to send
(`Notifying`), a SID is listed once (`Listed`), the device waits for one answer, and the
NOTIFY requests it has given up are of subscribers it has removed (`Posted`), what a worker
of SUBSCRIBE has done (`Working`), and which call the control point makes (`Calling`).
On it rest three invariants about the data:

- `Fresh`: no variable is known ahead of the device, and no NOTIFY under way of the SID that
  the control point has, or is about to have, is older than what it knows.  With it each
  step is one of EventChannel or a stutter: `ImplementsChannel`, by the refinement mapping
  that gives EventChannel Eventing's `value` and `known`.
- `InStep`: as long as no event was dropped, the key at the control point is the one before
  the next SEQ of its SID, up to the first event after the wrap.  `GapsAreReal` follows.
- `NothingLost`: what the control point lacks is under way, still to be posted, or still to
  be notified by the setter.  When all is quiet nothing is, which is `SubscriberIsInSync`.

**Device.**  `LifecycleInv` says by the place of the call who may still send (`Attended`),
that nobody else sends while a stop is not overlapped (`Undisturbed`), which notices have been
taken back so far (`TakenBack`), that the open servers are those of the root's port
(`Served`), that an answer which waits to be sent has that port too, as no SSDP thread is
there while the port changes (`Composed`), and which notices the announcement has told so
far (`Announced`).
`StopTakesBack`, `AnnouncementsAreCurrent` and `StopIsSilent` follow, for any tree of
devices, interfaces and ports.

**Action control.**  `ControlInv` follows each request through the shared action.  Workers that
use it at once are known to (`Mixing`).  For each call: its worker and its caller are at
places that fit, and the listener has run at most once (`Stage`); while its worker is at the
action, the arguments it has set hold values of this call or of one served with it, and the
outputs were read from such arguments or cleared for such a call (`Written`, `Owned`); an
answer of the device is a refusal, a fault or a response that agrees with what the listener
did (`Outcome`); and the result is what the answer says (`Told`).  A worker that writes to
the action keeps `Written` of all others because it is served with each of them.
`ResultsTellTheTruth` and `AnswersAreOwn` combine these.  Decoding needs that a response
has one field for each output (`OrderIsComplete`), for which `Outputs` is assumed finite.

**Model-checked only.**  Liveness, which is out of the prover's reach: `StopReturns` of
threads, HTTP server, Discovery and Expiration, `Reclaimed`, `ClientsReclaimed`,
`NotificationsEnd`, `CallsEnd`, `CallsReturn`, `LeavesIfWoken`, `RenewedIfWoken`
and `BootIdRecovers`.  The runs that end in a violation show what the code does; nothing is
proved of them.

## 6. What is not modelled, and the plan

To prove: what of the liveness properties is safety, as `SelfDeletionNeverLeaks` is of
`Reclaimed`; for HttpServer, that a client thread that has ended and was not freed is one
that a stop has taken.

To model:

1. **An abstract cache** that Discovery implements: devices appear, change and go, each
   with one notification.  It is what the hazards at `controlpoint.c:746`, for its second
   half, and `:825` need.
2. A listener that stops the device or control point it runs on, composed of HttpServer
   and DeviceLifecycle.
3. The commit of a description on a cached device (`device.c:351` to `500`): when the old
   tree is kept, by CONFIGID and structure, and how subscriptions carry over; for the
   hazard at `device.c:493`.

Parts of modelled components that are left out: `mupnp_controlpoint_ipchanged` and
`_search`; subscribeall, unsubscribeall and resubscribeall, which iterate over a device
tree; queries, which have the shape of an action without inputs; the filter for duplicate
searches, for which a search is received or not; the concurrency of the application's own
calls to one device, which `device.h:839` forbids.

Left out for good: the cache of persistent connections, which only an optional build has;
XML, SOAP, HTTP and URI parsing, strings, files and sockets, which are sequential
transformations of text or system calls; the linked lists and dictionaries, which are
used under the caller's lock and appear as sets and sequences; `std/av`, which is
descriptions as text and handlers of single actions, `wrapper/`, `examples/` and the
ports, which are clients of the library or other programs.
