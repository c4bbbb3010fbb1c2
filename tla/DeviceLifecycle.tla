---------------------------- MODULE DeviceLifecycle -----------------------------
(***************************************************************************)
(* Start and stop of a root device, and what it says of itself meanwhile:  *)
(* the alive and byebye notices of its tree (device.c, service.c), the     *)
(* advertiser thread (device_advertiser.c) and, one for each network       *)
(* interface, the SSDP servers that answer M-SEARCH (device_ssdp_server.c, *)
(* service_ssdp_server.c, ssdp/ssdp_server.c and its list).                *)
(*                                                                         *)
(* The ssdpCount copies of a notice are one here, and one control point    *)
(* hears all notices and answers in the order in which they are sent.      *)
(* Threads can be created, sleeps end, and a search that                   *)
(* filter_duplicate_m_search drops is one that is not received.  The calls *)
(* of the application are not concurrent, as device.h:839 and :920 ask     *)
(* for; what the HTTP servers do is in the module HttpServer.              *)
(***************************************************************************)
EXTENDS Integers, Sequences

CONSTANTS
  Tree,           \* the devices, in the order in which they are announced: the root first
  Services,       \* Services[d]: the set of the types of the services of d
  NumInterfaces,  \* network interfaces with an address
  Targets,        \* the search targets of M-SEARCH that are received
  FirstPort,      \* the HTTP port of every device when its description is loaded
  MaxPort,        \* bound: ports that are tried
  MaxStarts       \* bound: calls of mupnp_device_start

ASSUME DeviceLifecycleAssumption ==
  /\ Len(Tree) \in Nat \ {0} /\ DOMAIN Tree = 1..Len(Tree)
  /\ NumInterfaces \in Nat /\ MaxStarts \in Nat
  /\ FirstPort \in Nat \ {0} /\ MaxPort \in Nat /\ FirstPort <= MaxPort

Root == Tree[1]
Devices == {Tree[i] : i \in DOMAIN Tree}
Interfaces == 1..NumInterfaces

--------------------------------------------------------------------------------
(* The notices of the tree.                                                  *)

\* What mupnp_device_announcefrom sends of one device, its type, its UUID and for the
\* root upnp:rootdevice, is one notice here, and so is a service.  An announcement has
\* one round of notices for each interface.
Notice(i, d, service) == [on |-> i, of |-> d, service |-> service]
NoService == "none"
Notices ==
  UNION {{Notice(i, d, s) : s \in {NoService} \cup Services[d]} : i \in Interfaces, d \in Devices}

\* What is sent at a time: what there is left of one device on one interface.  It goes
\* interface by interface, and through the tree from the root on.
Group == [k \in Notices |->
  k.on * Len(Tree) + CHOOSE n \in DOMAIN Tree : Tree[n] = k.of]
Burst(left) == {k \in left : \A l \in left : Group[k] <= Group[l]}

\* mupnp_device_byebyefrom for the root alone, and through the tree as it is.
RootFarewells == {k \in Notices : k.of = Root}

Farewells == Notices

\* ssdp:all is answered with every notice, other targets with those they name.
All == [of |-> "all", service |-> NoService]
Matches(t, k) == t = All \/ t = [of |-> k.of, service |-> k.service]

\* Every SSDP thread for all interfaces.
AnswersEverywhere(i, t) == {k \in Notices : Matches(t, k)}

Answers(i, t) == {k \in Notices : k.on = i /\ Matches(t, k)}

--------------------------------------------------------------------------------
VARIABLES
  at,          \* where the application is in mupnp_device_start or _stop
  restarting,  \* the stop in progress is that of mupnp_device_start
  started,     \* the last call was a start that succeeded
  starts,      \* how many starts there were
  todo,        \* the notices that it has still to send
  port,        \* port[d]: dev->httpPort
  boot,        \* boot[d]: dev->bootId; it grows as time does
  http,        \* the HTTP servers: the interfaces they are open on, and the port
  advertiser,  \* the advertiser thread: where it is, its flag, what it has to send
  listening,   \* the SSDP servers have their listener, and their threads are runnable
  responder,   \* responder[i]: the SSDP thread of interface i, what it has to answer,
               \* and the answer that is composed and not sent
  heard,       \* heard[k]: what the control point knows from notice k
  overlapped   \* history: during the last stop an announcement or answer was under way

callVars == <<at, restarting, started, starts, todo>>
deviceVars == <<port, boot, http>>
advertiserVars == <<advertiser>>
searchVars == <<listening, responder>>
vars == <<callVars, deviceVars, advertiserVars, searchVars, heard, overlapped>>

Silent == [port |-> 0, boot |-> 0]
NoBoot == 0
Closed == [port |-> 0, on |-> {}]
NoAdvertiser == [at |-> "none", runnable |-> FALSE, todo |-> {}]
NoResponder == [at |-> "none", todo |-> {}, reply |-> {}]

Init ==
  /\ at = "idle" /\ restarting = FALSE /\ started = FALSE /\ starts = 0 /\ todo = {}
  /\ port = [d \in Devices |-> FirstPort] /\ boot = [d \in Devices |-> 1]
  /\ http = Closed /\ advertiser = NoAdvertiser
  /\ listening = FALSE /\ responder = [i \in Interfaces |-> NoResponder]
  /\ heard = [k \in Notices |-> Silent]
  /\ overlapped = FALSE

\* The LOCATION of a service has the port of the root device, and its notice no BOOTID.
ServiceAlive == [port |-> port[Root], boot |-> NoBoot]

\* The LOCATION of another notice has the port of the device that it is of.
Alive(k) ==
  IF k.service # NoService THEN ServiceAlive ELSE [port |-> port[k.of], boot |-> boot[k.of]]

\* mupnp_device_postsearchresponse: the LOCATION of the root device.
Answer(k) == [port |-> port[Root], boot |-> boot[k.of]]

--------------------------------------------------------------------------------
(* mupnp_device_stop, also at the beginning of mupnp_device_start.           *)

Announcing == advertiser.at = "announcing"
Answering == \E i \in Interfaces : responder[i].at = "answering"
Stopping == at \in {"byebye", "advertiser", "ssdp", "joining"}

Calls(start) ==
  /\ at = "idle" /\ at' = "byebye"
  /\ restarting' = start /\ started' = FALSE
  /\ todo' = Farewells
  /\ overlapped' = (Announcing \/ Answering)
  /\ UNCHANGED <<deviceVars, advertiserVars, searchVars, heard>>

CallsStop == Calls(FALSE) /\ UNCHANGED starts
CallsStart == starts < MaxStarts /\ starts' = starts + 1 /\ Calls(TRUE)

SendsByebye ==
  /\ at = "byebye" /\ todo # {}
  /\ heard' = [k \in Notices |-> IF k \in Burst(todo) THEN Silent ELSE heard[k]]
  /\ todo' = todo \ Burst(todo)
  /\ UNCHANGED <<at, restarting, started, starts, deviceVars, advertiserVars, searchVars, overlapped>>

StopsAdvertiser ==
  /\ at = "byebye" /\ todo = {}
  /\ at' = "advertiser"
  /\ advertiser' = [advertiser EXCEPT !.runnable = FALSE]
  /\ UNCHANGED <<restarting, started, starts, todo, deviceVars, searchVars, heard, overlapped>>

\* The HTTP servers are closed while the advertiser still runs, and after it ended.
ClosesAtOnce ==
  /\ at = "advertiser"
  /\ at' = "ssdp"
  /\ http' = Closed
  /\ UNCHANGED <<restarting, started, starts, todo, port, boot, advertiserVars, searchVars,
                 heard, overlapped>>

ClosesHttp ==
  /\ at = "advertiser" /\ advertiser.at = "none"
  /\ at' = "ssdp"
  /\ http' = Closed
  /\ UNCHANGED <<restarting, started, starts, todo, port, boot, advertiserVars, searchVars,
                 heard, overlapped>>

\* The threads are joined before they are told to end.
JoinsSsdp ==
  /\ at = "ssdp"
  /\ at' = "joining"
  /\ UNCHANGED <<restarting, started, starts, todo, deviceVars, advertiserVars, searchVars,
                 heard, overlapped>>

\* The listener is taken away and then the threads are stopped; without it they do
\* nothing but end.
StopsSsdp ==
  /\ at = "ssdp"
  /\ at' = "joining"
  /\ listening' = FALSE
  /\ UNCHANGED <<restarting, started, starts, todo, deviceVars, advertiserVars, responder,
                 heard, overlapped>>

StopEnds ==
  /\ at = "joining" /\ \A i \in Interfaces : responder[i].at = "none"
  /\ at' = IF restarting THEN "interfaces" ELSE "idle"
  /\ UNCHANGED <<restarting, started, starts, todo, deviceVars, advertiserVars, searchVars,
                 heard, overlapped>>

--------------------------------------------------------------------------------
(* The rest of mupnp_device_start.                                           *)

\* Without an interface the start returns false.
FindsInterfaces ==
  /\ at = "interfaces" /\ at' \in {"open", "idle"}
  /\ UNCHANGED <<restarting, started, starts, todo, deviceVars, advertiserVars, searchVars,
                 heard, overlapped>>

\* The port is not available on any interface: the next one is tried.
TriesNextPort ==
  /\ at = "open" /\ port[Root] < MaxPort
  /\ port' = [port EXCEPT ![Root] = @ + 1]
  /\ UNCHANGED <<callVars, boot, http, advertiserVars, searchVars, heard, overlapped>>

\* A server with the next port, of which the device does not know.
OpensElsewhere ==
  /\ at = "open" /\ at' = "opened"
  /\ \E on \in SUBSET Interfaces \ {{}}, p \in {port[Root], port[Root] + 1} :
       http' = [port |-> p, on |-> on]
  /\ UNCHANGED <<restarting, started, starts, todo, port, boot, advertiserVars, searchVars,
                 heard, overlapped>>

\* The interfaces on which it is not available are left out.
OpensHttp ==
  /\ at = "open" /\ at' = "opened"
  /\ \E on \in SUBSET Interfaces \ {{}} : http' = [port |-> port[Root], on |-> on]
  /\ UNCHANGED <<restarting, started, starts, todo, port, boot, advertiserVars, searchVars,
                 heard, overlapped>>

StartsSsdp ==
  /\ at = "opened" /\ at' = "boot"
  /\ listening' = TRUE
  /\ \E on \in SUBSET Interfaces :
       responder' = [i \in Interfaces |->
         IF i \in on THEN [NoResponder EXCEPT !.at = "receiving"] ELSE NoResponder]
  /\ UNCHANGED <<restarting, started, starts, todo, deviceVars, advertiserVars, heard, overlapped>>

UpdatesBootId ==
  /\ at = "boot" /\ at' = "announce"
  /\ boot' = [boot EXCEPT ![Root] = starts + 1]
  /\ todo' = Notices
  /\ UNCHANGED <<restarting, started, starts, port, http, advertiserVars, searchVars, heard, overlapped>>

Announces ==
  /\ at = "announce" /\ todo # {}
  /\ heard' = [k \in Notices |-> IF k \in Burst(todo) THEN Alive(k) ELSE heard[k]]
  /\ todo' = todo \ Burst(todo)
  /\ UNCHANGED <<at, restarting, started, starts, deviceVars, advertiserVars, searchVars, overlapped>>

StartsAdvertiser ==
  /\ at = "announce" /\ todo = {}
  /\ at' = "idle" /\ started' = TRUE
  /\ advertiser' = [at |-> "sleeping", runnable |-> TRUE, todo |-> {}]
  /\ UNCHANGED <<restarting, starts, todo, deviceVars, searchVars, heard, overlapped>>

--------------------------------------------------------------------------------
(* mupnp_device_advertiser_action.                                           *)

\* A sleep ends after its time, or when the thread is to stop.
Wakes ==
  /\ advertiser.at = "sleeping"
  /\ IF advertiser.runnable
     THEN /\ advertiser' = [advertiser EXCEPT !.at = "announcing", !.todo = Notices]
          /\ overlapped' = (overlapped \/ Stopping)
     ELSE /\ advertiser' = NoAdvertiser
          /\ UNCHANGED overlapped
  /\ UNCHANGED <<callVars, deviceVars, searchVars, heard>>

Advertises ==
  /\ Announcing /\ advertiser.todo # {}
  /\ LET burst == Burst(advertiser.todo)
     IN  /\ heard' = [k \in Notices |-> IF k \in burst THEN Alive(k) ELSE heard[k]]
         /\ advertiser' = [advertiser EXCEPT !.todo = @ \ burst]
  /\ UNCHANGED <<callVars, deviceVars, searchVars, overlapped>>

\* One announcement and no more.
AdvertisesOnce ==
  /\ Announcing /\ advertiser.todo = {}
  /\ advertiser' = NoAdvertiser
  /\ UNCHANGED <<callVars, deviceVars, searchVars, heard, overlapped>>

EndsRound ==
  /\ Announcing /\ advertiser.todo = {}
  /\ advertiser' = IF advertiser.runnable THEN [advertiser EXCEPT !.at = "sleeping"]
                   ELSE NoAdvertiser
  /\ UNCHANGED <<callVars, deviceVars, searchVars, heard, overlapped>>

--------------------------------------------------------------------------------
(* mupnp_ssdp_server_thread and mupnp_device_ssdpmessagereceived.            *)

\* A valid M-SEARCH whose MX is not 0 and that filter_duplicate_m_search lets pass, as
\* it does when none with the same hash came for a while.  Others change nothing here.
Receives(i, t) ==
  /\ responder[i].at = "receiving" /\ listening
  /\ responder' = [responder EXCEPT ![i].at = "answering", ![i].todo = Answers(i, t)]
  /\ overlapped' = (overlapped \/ Stopping)
  /\ UNCHANGED <<callVars, deviceVars, advertiserVars, listening, heard>>

\* mupnp_device_postsearchresponse: an answer is composed, and after a random wait it is
\* sent.  A stop makes the waits shorter but ends neither.
Composing(i, k) ==
  [at |-> "answering", todo |-> responder[i].todo \ {k}, reply |-> {[to |-> k, says |-> Answer(k)]}]

Composes(i) ==
  /\ responder[i].at = "answering" /\ responder[i].reply = {}
  /\ \E k \in Burst(responder[i].todo) : responder' = [responder EXCEPT ![i] = Composing(i, k)]
  /\ UNCHANGED <<callVars, deviceVars, advertiserVars, listening, heard, overlapped>>

Responds(i) ==
  /\ responder[i].at = "answering"
  /\ \E r \in responder[i].reply : heard' = [heard EXCEPT ![r.to] = r.says]
  /\ responder' = [responder EXCEPT ![i].reply = {}]
  /\ UNCHANGED <<callVars, deviceVars, advertiserVars, listening, overlapped>>

EndsAnswer(i) ==
  /\ responder[i].at = "answering" /\ responder[i].todo = {} /\ responder[i].reply = {}
  /\ responder' = [responder EXCEPT ![i].at = "receiving"]
  /\ UNCHANGED <<callVars, deviceVars, advertiserVars, listening, heard, overlapped>>

\* The waits for a packet are bounded, and the stop is seen after each.
EndsResponder(i) ==
  /\ responder[i].at = "receiving" /\ ~listening
  /\ responder' = [responder EXCEPT ![i] = NoResponder]
  /\ UNCHANGED <<callVars, deviceVars, advertiserVars, listening, heard, overlapped>>

\* A receive that fails ends the thread.
FailsToReceive(i) ==
  /\ responder[i].at = "receiving"
  /\ responder' = [responder EXCEPT ![i] = NoResponder]
  /\ UNCHANGED <<callVars, deviceVars, advertiserVars, listening, heard, overlapped>>

--------------------------------------------------------------------------------
StopSteps == SendsByebye \/ StopsAdvertiser \/ ClosesHttp \/ StopsSsdp \/ StopEnds
StartSteps ==
  \/ FindsInterfaces \/ TriesNextPort \/ OpensHttp \/ StartsSsdp
  \/ UpdatesBootId \/ Announces \/ StartsAdvertiser
AdvertiserSteps == Wakes \/ Advertises \/ EndsRound
ResponderSteps(i) == Composes(i) \/ Responds(i) \/ EndsAnswer(i) \/ EndsResponder(i)

Next ==
  \/ CallsStart \/ CallsStop \/ StopSteps \/ StartSteps \/ AdvertiserSteps
  \/ \E i \in Interfaces :
       \/ ResponderSteps(i) \/ FailsToReceive(i)
       \/ \E t \in Targets : Receives(i, t)

\* Threads run, sleeps end, and some port is available.  Nobody has to call or search.
Fairness ==
  /\ WF_vars(StopSteps) /\ WF_vars(StartSteps) /\ WF_vars(AdvertiserSteps)
  /\ \A i \in Interfaces : WF_vars(ResponderSteps(i))

Spec == Init /\ [][Next]_vars /\ Fairness

--------------------------------------------------------------------------------
\* The types; a thread answers on its own interface only, and the advertiser is not
\* there before the first announcement.
TypeOK ==
  /\ at \in {"idle", "byebye", "advertiser", "ssdp", "joining", "interfaces", "open", "opened", "boot", "announce"}
  /\ restarting \in BOOLEAN /\ started \in BOOLEAN /\ listening \in BOOLEAN /\ overlapped \in BOOLEAN
  /\ starts \in 0..MaxStarts /\ todo \subseteq Notices
  /\ port \in [Devices -> FirstPort..MaxPort] /\ boot \in [Devices -> 1..(MaxStarts + 1)]
  /\ http.on \subseteq Interfaces /\ http.port \in {0} \cup FirstPort..MaxPort
  /\ advertiser.at \in {"none", "sleeping", "announcing"} /\ advertiser.todo \subseteq Notices
  /\ advertiser.at # "none" => started \/ at \in {"byebye", "advertiser"}
  /\ \A i \in Interfaces :
       /\ responder[i].at \in {"none", "receiving", "answering"}
       /\ \A k \in responder[i].todo : k \in Notices /\ k.on = i
       /\ \A r \in responder[i].reply : r.to \in Notices /\ r.to.on = i
       /\ responder[i].reply # {} => responder[i].at = "answering"

\* When a stop has returned, everything that was announced has been taken back, unless
\* the advertiser or an answer was under way during the stop: byebyes are sent first.
AllLeave == at = "idle" /\ ~started /\ ~overlapped => \A k \in Notices : heard[k] = Silent

\* While the device runs every notice is known, and on the interfaces where the HTTP
\* server could be opened its LOCATION is served, unless it is that of an embedded
\* device and the root device had to move to another port: no answer that was composed
\* before the last start is sent after it.
Current ==
  at = "idle" /\ started => \A k \in Notices :
    /\ heard[k] # Silent
    /\ k.on \in http.on =>
         \/ heard[k].port = http.port
         \/ k.service = NoService /\ port[k.of] # port[Root]

\* After a stop has returned nothing is sent until the next call.
StopSilences == [][at = "idle" /\ ~started => UNCHANGED heard]_vars

\* A stop, and a start, comes to its end whatever the threads are doing.
CallsReturn == at # "idle" ~> at = "idle"

\* The SSDP servers are started before the BOOTID is updated, and an answer with the old
\* one may be sent after the announcement with the new one; but the advertiser of a running
\* device goes on and corrects it: what the control point knows from the root device has
\* again and again its BOOTID.
BootIdRecovers ==
  []<>(~started \/ \A k \in Notices : k.of = Root /\ k.service = NoService => heard[k].boot = boot[Root])
================================================================================
