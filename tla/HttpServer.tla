------------------------------- MODULE HttpServer -------------------------------
(***************************************************************************)
(* One mUpnpHttpServer (http/http_server.c, native POSIX build): its       *)
(* accept thread, a client thread per accepted connection, and the         *)
(* application thread that starts, stops and deletes it.  A listener that  *)
(* runs on a client thread may ask for the deletion of its own server.     *)
(*                                                                         *)
(* The questions are about ownership: a client thread is deleted either by *)
(* itself when it ends or by the thread that stops the server, and the     *)
(* server is freed only when nobody uses it any more.  Every section under *)
(* the server mutex or a thread's stateMutex is one action.  Requests and  *)
(* sockets are left out but for what they decide: whether the loop of a    *)
(* client thread goes on.                                                  *)
(***************************************************************************)
EXTENDS Naturals, Sequences, FiniteSets, SequencesExt, PosixThread

CONSTANTS
  Conns,        \* the connections, each with the client thread that serves it
  ListenerConns, \* bound: connections to a server its own listener deletes
  MaxStarts     \* bound: how often the application starts the server

ASSUME HttpAssumption ==
  /\ {"app", "accept", "none"} \cap Conns = {}
  /\ ListenerConns \in Nat
  /\ MaxStarts \in Nat \ {0}

Threads == {"accept"} \cup Conns
Stoppers == {"app"} \cup Conns
Procs == Threads \cup {"app"}

VARIABLES
  deleter,        \* who deletes the server: "app", or the "listener" of a client
  serverAlive,    \* the mUpnpHttpServer has not been freed
  acceptThread,   \* httpServer->acceptThread is not NULL
  hasList,        \* httpServer->clientThreads is not NULL
  clientThreads,  \* the threads on that list
  deletePending,  \* httpServer->deletePending
  ownerStopping,  \* ownerStopping[c]: the mark in the data of client c
  thread,         \* thread[t]: the PosixThread!ThreadState of t
  object,         \* object[t]: whether the mUpnpThread of t is allocated
  pc,             \* pc[p]: where process p is
  target,         \* target[p]: the client thread p is adding or deleting
  after,          \* after[p]: what follows the mupnp_http_server_stop p is in
  starts          \* how often the server was started

serverVars == <<deleter, serverAlive, acceptThread, hasList, clientThreads, deletePending>>
threadVars == <<thread, object>>
vars == <<serverVars, threadVars, ownerStopping, pc, target, after, starts>>

Init ==
  /\ deleter \in {"app", "listener"}
  /\ serverAlive = TRUE
  /\ acceptThread = FALSE
  /\ hasList = FALSE
  /\ clientThreads = <<>>
  /\ deletePending = FALSE
  /\ ownerStopping = [c \in Conns |-> FALSE]
  /\ thread = [t \in Threads |-> NewThread]
  /\ object = [t \in Threads |-> "none"]
  /\ pc = [p \in Procs |-> IF p = "app" THEN "idle" ELSE "none"]
  /\ target = [p \in Procs |-> "none"]
  /\ after = [p \in Stoppers |-> "none"]
  /\ starts = 0

Goto(p, from, to) == pc[p] = from /\ pc' = [pc EXCEPT ![p] = to]
Listed(c) == Contains(clientThreads, c)

\* mupnp_thread_remove, which is harmless for a thread that is on no list.
Unlisted(c) ==
  IF Listed(c)
  THEN RemoveAt(clientThreads, CHOOSE i \in DOMAIN clientThreads : clientThreads[i] = c)
  ELSE clientThreads

--------------------------------------------------------------------------------
(* posix_thread_proc around the action of the accept and client threads.     *)

ThreadReturns(t) ==
  /\ Goto(t, "returned", IF WrapperFrees(thread[t]) THEN "free" ELSE "ended")
  /\ thread' = [thread EXCEPT ![t] = ActionReturned(@)]
  /\ UNCHANGED <<serverVars, object, ownerStopping, target, after, starts>>

WrapperFree(t) ==
  /\ Goto(t, "free", "ended")
  /\ object' = [object EXCEPT ![t] = "freed"]
  /\ UNCHANGED <<serverVars, thread, ownerStopping, target, after, starts>>

--------------------------------------------------------------------------------
(* mupnp_http_server_start.  When the accept thread cannot be created it     *)
(* frees what it allocated and changes nothing.                              *)

ServerStart ==
  /\ pc["app"] = "idle"
  /\ serverAlive /\ ~acceptThread /\ ~deletePending
  /\ starts < MaxStarts
  /\ starts' = starts + 1
  /\ acceptThread' = TRUE
  /\ hasList' = TRUE
  /\ clientThreads' = <<>>
  /\ thread' = [thread EXCEPT !["accept"] = Started(NewThread)]
  /\ object' = [object EXCEPT !["accept"] = "live"]
  /\ pc' = [pc EXCEPT !["accept"] = "check"]
  /\ UNCHANGED <<deleter, serverAlive, deletePending, ownerStopping, target, after>>

--------------------------------------------------------------------------------
(* mupnp_http_server_thread.                                                 *)

AcceptChecks ==
  /\ Goto("accept", "check",
          IF thread["accept"].runnableFlag THEN "accepting" ELSE "returned")
  /\ UNCHANGED <<serverVars, threadVars, ownerStopping, target, after, starts>>

\* A new connection: its thread object is made and put on the list.
Accepts(c) ==
  /\ Goto("accept", "accepting", "starting")
  /\ object[c] = "none"
  /\ deleter = "listener" =>
       Cardinality({d \in Conns : object[d] # "none"}) < ListenerConns
  /\ object' = [object EXCEPT ![c] = "live"]
  /\ clientThreads' = Append(clientThreads, c)
  /\ target' = [target EXCEPT !["accept"] = c]
  /\ UNCHANGED <<deleter, serverAlive, acceptThread, hasList, deletePending, thread,
                 ownerStopping, after, starts>>

\* No memory for the connection, which is dropped.
AcceptDrops ==
  /\ Goto("accept", "accepting", "check")
  /\ UNCHANGED <<serverVars, threadVars, ownerStopping, target, after, starts>>

\* mupnp_socket_accept fails, at once or because the thread is being stopped.
AcceptFails ==
  /\ Goto("accept", "accepting", "returned")
  /\ UNCHANGED <<serverVars, threadVars, ownerStopping, target, after, starts>>

StartsClient ==
  LET c == target["accept"] IN
  /\ pc["accept"] = "starting"
  /\ \/ /\ thread' = [thread EXCEPT ![c] = Started(@)]
        /\ pc' = [pc EXCEPT !["accept"] = "check", ![c] = "serving"]
     \/ /\ thread' = [thread EXCEPT ![c] = StartFailed(@)]
        /\ pc' = [pc EXCEPT !["accept"] = "unlisting"]
  /\ UNCHANGED <<serverVars, object, ownerStopping, target, after, starts>>

\* The client thread could not be created: off the list, then deleted.
UnlistsClient ==
  /\ Goto("accept", "unlisting", "discarding")
  /\ clientThreads' = Unlisted(target["accept"])
  /\ UNCHANGED <<deleter, serverAlive, acceptThread, hasList, deletePending, threadVars,
                 ownerStopping, target, after, starts>>

DiscardsClient ==
  /\ Goto("accept", "discarding", "check")
  /\ object' = [object EXCEPT ![target["accept"]] = "freed"]
  /\ UNCHANGED <<serverVars, thread, ownerStopping, target, after, starts>>

--------------------------------------------------------------------------------
(* mupnp_http_server_clientthread.                                           *)

\* The peer closes or times out, the request ends the connection, or the
\* thread is no longer runnable.
StopsServing(c) ==
  /\ Goto(c, "serving", "finishing")
  /\ UNCHANGED <<serverVars, threadVars, ownerStopping, target, after, starts>>

\* The ownership section: a client nobody is deleting leaves the list, and a
\* requested deletion of the server is picked up.
Finishes(c) ==
  /\ Goto(c, "finishing", IF deletePending THEN "delete" ELSE "deleteSelf")
  /\ clientThreads' = IF ownerStopping[c] THEN clientThreads ELSE Unlisted(c)
  /\ UNCHANGED <<deleter, serverAlive, acceptThread, hasList, deletePending, threadVars,
                 ownerStopping, target, after, starts>>

\* A client that leaves its object to whoever stopped the server.
LeavesItself(c) ==
  /\ Goto(c, "deleteSelf", "returned")
  /\ UNCHANGED <<serverVars, threadVars, ownerStopping, target, after, starts>>

\* mupnp_thread_delete on itself, unless the stopping owner deletes it.
DeletesSelf(c) ==
  /\ Goto(c, "deleteSelf", "returned")
  /\ thread' = IF ownerStopping[c] THEN thread
               ELSE [thread EXCEPT ![c] = SelfDeleted(@)]
  /\ UNCHANGED <<serverVars, object, ownerStopping, target, after, starts>>

--------------------------------------------------------------------------------
(* mupnp_http_server_stop, called by the application or on a client thread.  *)

CallStop(p, from, then) ==
  /\ Goto(p, from, "stop")
  /\ after' = [after EXCEPT ![p] = then]

AppStops ==
  /\ deleter = "app"
  /\ serverAlive
  /\ acceptThread \* else the call returns at once
  /\ CallStop("app", "idle", "idle")
  /\ UNCHANGED <<serverVars, threadVars, ownerStopping, target, starts>>

\* mupnp_thread_stop on the accept thread, if there is one.
StopsAccept(p) ==
  /\ pc[p] = "stop"
  /\ \/ /\ acceptThread
        /\ thread' = [thread EXCEPT !["accept"] = StopRequested(@)]
        /\ pc' = [pc EXCEPT ![p] = IF thread["accept"].isRunning THEN "joinAccept"
                                   ELSE "freeAccept"]
     \/ /\ ~acceptThread
        /\ thread' = thread
        /\ pc' = [pc EXCEPT ![p] = IF hasList THEN "pop" ELSE after[p]]
  /\ UNCHANGED <<serverVars, object, ownerStopping, target, after, starts>>

\* A delete of the accept thread that does not wait for it.
LeavesAccept(p) ==
  /\ Goto(p, "joinAccept", "freeAccept")
  /\ UNCHANGED <<serverVars, threadVars, ownerStopping, target, after, starts>>

JoinsAccept(p) ==
  /\ Goto(p, "joinAccept", "freeAccept")
  /\ ~thread["accept"].isRunning
  /\ UNCHANGED <<serverVars, threadVars, ownerStopping, target, after, starts>>

\* mupnp_thread_delete, whose own stop finds nothing running.
FreesAccept(p) ==
  /\ Goto(p, "freeAccept", IF hasList THEN "pop" ELSE after[p])
  /\ object' = [object EXCEPT !["accept"] = "freed"]
  /\ acceptThread' = FALSE
  /\ UNCHANGED <<deleter, serverAlive, hasList, clientThreads, deletePending, thread,
                 ownerStopping, target, after, starts>>

\* A section that takes a client without marking it.
PopsUnmarked(p) ==
  /\ Goto(p, "pop", "deleteClient")
  /\ clientThreads # <<>>
  /\ target' = [target EXCEPT ![p] = Head(clientThreads)]
  /\ clientThreads' = Tail(clientThreads)
  /\ UNCHANGED <<deleter, serverAlive, acceptThread, hasList, deletePending, threadVars,
                 ownerStopping, after, starts>>

\* The ownership section: the first client is marked and taken off the list.
Pops(p) ==
  /\ Goto(p, "pop", "deleteClient")
  /\ clientThreads # <<>>
  /\ target' = [target EXCEPT ![p] = Head(clientThreads)]
  /\ ownerStopping' = [ownerStopping EXCEPT ![Head(clientThreads)] = TRUE]
  /\ clientThreads' = Tail(clientThreads)
  /\ UNCHANGED <<deleter, serverAlive, acceptThread, hasList, deletePending, threadVars,
                 after, starts>>

\* A delete that does not notice that it runs on the thread it deletes.
StopsEvenItself(p) ==
  LET c == target[p] IN
  /\ pc[p] = "deleteClient"
  /\ thread' = [thread EXCEPT ![c] = StopRequested(@)]
  /\ pc' = [pc EXCEPT ![p] = IF thread[c].isRunning THEN "joinClient" ELSE "freeClient"]
  /\ UNCHANGED <<serverVars, object, ownerStopping, target, after, starts>>

\* mupnp_thread_delete on the client that was taken, up to its wait.
StopsClient(p) ==
  LET c == target[p] IN
  /\ pc[p] = "deleteClient"
  /\ \/ /\ c = p
        /\ thread' = [thread EXCEPT ![c] = SelfDeleted(@)]
        /\ pc' = [pc EXCEPT ![p] = "pop"]
     \/ /\ c # p
        /\ thread' = [thread EXCEPT ![c] = StopRequested(@)]
        /\ pc' = [pc EXCEPT ![p] = IF thread[c].isRunning THEN "joinClient"
                                   ELSE "freeClient"]
  /\ UNCHANGED <<serverVars, object, ownerStopping, target, after, starts>>

\* A delete that does not wait for the action.
ForgetsToJoin(p) ==
  /\ Goto(p, "joinClient", "freeClient")
  /\ UNCHANGED <<serverVars, threadVars, ownerStopping, target, after, starts>>

JoinsClient(p) ==
  /\ Goto(p, "joinClient", "freeClient")
  /\ ~thread[target[p]].isRunning
  /\ UNCHANGED <<serverVars, threadVars, ownerStopping, target, after, starts>>

FreesClient(p) ==
  /\ Goto(p, "freeClient", "pop")
  /\ object' = [object EXCEPT ![target[p]] = "freed"]
  /\ UNCHANGED <<serverVars, thread, ownerStopping, target, after, starts>>

\* A stop that returns to the application whoever called it.
DropsListForApp(p) ==
  /\ Goto(p, "pop", "idle")
  /\ clientThreads = <<>>
  /\ hasList' = FALSE
  /\ UNCHANGED <<deleter, serverAlive, acceptThread, clientThreads, deletePending, threadVars,
                 ownerStopping, target, after, starts>>

\* The list is empty and goes.
DropsList(p) ==
  /\ Goto(p, "pop", after[p])
  /\ clientThreads = <<>>
  /\ hasList' = FALSE
  /\ UNCHANGED <<deleter, serverAlive, acceptThread, clientThreads, deletePending, threadVars,
                 ownerStopping, target, after, starts>>

--------------------------------------------------------------------------------
(* mupnp_http_server_delete.                                                 *)

AppDeletes ==
  /\ deleter = "app"
  /\ serverAlive
  /\ CallStop("app", "idle", "close")
  /\ UNCHANGED <<serverVars, threadVars, ownerStopping, target, starts>>

\* From the listener of client c: the server is stopped now and deleted when
\* the action of c is over.
ListenerDeletes(c) ==
  /\ deleter = "listener"
  /\ hasList /\ Listed(c)
  /\ ~deletePending \* the application deletes its server once
  /\ deletePending' = TRUE
  /\ CallStop(c, "serving", "serving")
  /\ UNCHANGED <<deleter, serverAlive, acceptThread, hasList, clientThreads, threadVars,
                 ownerStopping, target, starts>>

\* The deletion that was put off, at the end of a client thread.
DeferredDelete(c) ==
  /\ IF hasList /\ Listed(c)
     THEN deletePending' = TRUE /\ CallStop(c, "delete", "deleteSelf")
     ELSE UNCHANGED deletePending /\ CallStop(c, "delete", "close")
  /\ UNCHANGED <<deleter, serverAlive, acceptThread, hasList, clientThreads, threadVars,
                 ownerStopping, target, starts>>

\* Closes the socket (the stop in mupnp_http_server_close has nothing left to
\* stop), destroys the mutex and frees the server.
FreesServer(p) ==
  /\ Goto(p, "close", IF p = "app" THEN "gone" ELSE "deleteSelf")
  /\ serverAlive' = FALSE
  /\ UNCHANGED <<deleter, acceptThread, hasList, clientThreads, deletePending, threadVars,
                 ownerStopping, target, after, starts>>

--------------------------------------------------------------------------------
AcceptStep ==
  AcceptChecks \/ StartsClient \/ UnlistsClient \/ DiscardsClient \/ ThreadReturns("accept")

StopStep(p) ==
  \/ StopsAccept(p) \/ JoinsAccept(p) \/ FreesAccept(p)
  \/ Pops(p) \/ StopsClient(p) \/ JoinsClient(p) \/ FreesClient(p) \/ DropsList(p)
  \/ FreesServer(p)

ClientStep(c) ==
  Finishes(c) \/ DeletesSelf(c) \/ DeferredDelete(c) \/ ThreadReturns(c) \/ WrapperFree(c)

Next ==
  \/ ServerStart \/ AppStops \/ AppDeletes
  \/ AcceptStep \/ AcceptDrops \/ AcceptFails
  \/ \E c \in Conns : Accepts(c) \/ StopsServing(c) \/ ListenerDeletes(c) \/ ClientStep(c)
  \/ \E p \in Stoppers : StopStep(p)

\* Threads run; an accept or a read whose thread has been asked to stop ends
\* within its 100ms readiness slice.
Fairness ==
  /\ WF_vars(AcceptStep)
  /\ WF_vars(~thread["accept"].runnableFlag /\ AcceptFails)
  /\ \A c \in Conns : WF_vars(ClientStep(c))
  /\ \A c \in Conns : WF_vars(~thread[c].runnableFlag /\ StopsServing(c))
  /\ \A p \in Stoppers : WF_vars(StopStep(p))

Spec == Init /\ [][Next]_vars /\ Fairness

--------------------------------------------------------------------------------
StopPc == {"stop", "joinAccept", "freeAccept", "pop", "deleteClient", "joinClient",
           "freeClient", "close"}
AcceptPc == {"none", "check", "accepting", "starting", "unlisting", "discarding",
             "returned", "ended"}
ClientPc == {"none", "serving", "finishing", "delete", "deleteSelf", "returned",
             "free", "ended"} \cup StopPc

TypeOK ==
  /\ deleter \in {"app", "listener"}
  /\ <<serverAlive, acceptThread, hasList, deletePending>> \in
        BOOLEAN \X BOOLEAN \X BOOLEAN \X BOOLEAN
  /\ clientThreads \in Seq(Conns) /\ IsInjective(clientThreads)
  /\ ownerStopping \in [Conns -> BOOLEAN]
  /\ thread \in [Threads -> ThreadState]
  /\ object \in [Threads -> {"none", "live", "freed"}]
  /\ pc["app"] \in {"idle", "gone"} \cup StopPc
  /\ pc["accept"] \in AcceptPc
  /\ \A c \in Conns : pc[c] \in ClientPc
  /\ target \in [Procs -> Conns \cup {"none"}]
  /\ after \in [Stoppers -> {"none", "idle", "serving", "close", "deleteSelf"}]
  /\ starts \in 0..MaxStarts

\* Process p is where it still reads the server or its mutex.
UsesServer(p) ==
  CASE p = "app"    -> pc[p] \in StopPc
    [] p = "accept" -> pc[p] \notin {"none", "returned", "ended"}
    [] OTHER        -> pc[p] \in {"serving", "finishing", "delete"} \cup StopPc

\* The server and its mutex are not freed under an action of a client thread,
\* the accept thread or a stop in progress: a deletion asked for by a listener
\* waits for the end of its action.
ServerOutlivesUse == ~serverAlive => \A p \in Procs : ~UsesServer(p)

\* The pthread of t is still between its creation and its last access.
PthreadOn(t) == pc[t] \notin {"none", "ended"}
Deleting(p, c) ==
  target[p] = c /\ pc[p] \in {"deleteClient", "joinClient", "freeClient", "discarding"}

\* No mUpnpThread is freed while its pthread, a deleter, or a list of the
\* server still refers to it: ownership passes through the two ownership
\* sections and never to both sides.
ThreadsOutliveUse ==
  \A t \in Threads : object[t] = "freed" =>
    /\ ~PthreadOn(t)
    /\ ~Listed(t)
    /\ \A p \in Procs : ~Deleting(p, t)
    /\ t = "accept" => ~acceptThread

\* When a stop drops the client list, every client action but the caller's is
\* over: nothing served afterwards reaches the listener.
StopJoinsActions ==
  [][hasList /\ ~hasList' =>
       \A c \in Conns : pc[c] \in {"serving", "finishing"} => pc[c]' # pc[c]]_vars

\* mupnp_http_server_stop returns, from whichever thread it is called.
StopReturns == \A p \in Stoppers : pc[p] = "stop" ~> pc[p] \notin StopPc

\* The thread of every connection is freed once its action is over: by itself,
\* or by the stop that took it off the list.
ClientsReclaimed == \A c \in Conns : pc[c] = "finishing" ~> object[c] = "freed"
================================================================================
