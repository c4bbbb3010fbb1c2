---------------------------- MODULE ThreadLifecycle ----------------------------
(***************************************************************************)
(* One mUpnpThread object (util/thread.c, native POSIX build) shared by    *)
(* the thread that owns it, other threads that stop it, and the detached   *)
(* pthreads that mupnp_thread_start creates for it, one per run.           *)
(*                                                                         *)
(* Every critical section on stateMutex is one action; the wait for        *)
(* completion in mupnp_thread_stop_with_cond is a state of the caller.     *)
(* The run's action is the shape all of the library's thread functions     *)
(* have: check mupnp_thread_isrunnable, work, and possibly sleep on a      *)
(* mUpnpCond (the expiration handler) before the next check.               *)
(***************************************************************************)
EXTENDS Naturals, PosixThread

CONSTANTS
  Owner,        \* the thread that creates, starts, restarts and deletes the object
  Stoppers,     \* other threads that may call mupnp_thread_stop on it
  MaxRuns,      \* bound: how many times the object is started
  ConcurrentStart  \* calls that start a run may overlap other callers' stops

ASSUME LifecycleAssumption ==
  /\ Owner \notin Stoppers
  /\ MaxRuns \in Nat \ {0}
  /\ ConcurrentStart \in BOOLEAN

Callers == {Owner} \cup Stoppers
Runs == 1..MaxRuns

VARIABLES
  thread,   \* the fields of the object, a PosixThread!ThreadState
  alive,    \* the object has not been freed
  claim,    \* who has taken on to delete it: "nobody", "owner" or "worker"
  sleeps,   \* the action sleeps on a mUpnpCond, and is stopped with it
  started,  \* how many runs have been started
  call,     \* call[c]: where caller c is in its call on the object
  run       \* run[r]: where run r is in posix_thread_proc

vars == <<thread, alive, claim, sleeps, started, call, run>>

\* "delete": claimed, not yet in thread_stop; "wait.*": in the loop of
\* thread_stop; "destroy", "restart": back from thread_stop, what is left to do.
CallState == {"idle", "delete", "wait.stop", "wait.delete", "wait.restart",
              "destroy", "restart"}
Waiting(c) == call[c] \in {"wait.stop", "wait.delete", "wait.restart"}

\* "check": about to call isrunnable; "work": in the body of the loop; "toSleep":
\* decided to wait on the condition; "asleep": waiting on it; "returned": out of
\* the action; "free": has decided to free the object.
RunState == {"none", "check", "work", "toSleep", "asleep", "returned", "free", "ended"}

\* Run r can still touch the object.
Uses(r) == run[r] \notin {"none", "ended"}
\* Run r is executing the thread's action.
Executing(r) == run[r] \in {"check", "work", "toSleep", "asleep", "returned"}

--------------------------------------------------------------------------------
Init ==
  /\ thread = NewThread
  /\ alive = TRUE
  /\ claim = "nobody"
  /\ sleeps \in BOOLEAN
  /\ started = 0
  /\ call = [c \in Callers |-> "idle"]
  /\ run = [r \in Runs |-> "none"]

\* pthread_cond_signal on the worker's condition: lost unless a run is asleep.
Signalled == [r \in Runs |-> IF run[r] = "asleep" THEN "check" ELSE run[r]]

\* No caller is inside a call.
Quiet == \A c \in Callers : call[c] = "idle"

--------------------------------------------------------------------------------
(* mupnp_thread_start.  A call made during a run returns false and changes   *)
(* nothing; pthread_create may fail.                                         *)

LaunchUnguarded ==
  /\ started < MaxRuns
  /\ \/ /\ thread' = Started(thread)
        /\ run' = [run EXCEPT ![started + 1] = "check"]
        /\ started' = started + 1
     \/ /\ thread' = StartFailed(thread)
        /\ UNCHANGED <<run, started>>

Launch ==
  /\ ~thread.isRunning
  /\ started < MaxRuns
  /\ \/ /\ thread' = Started(thread)
        /\ run' = [run EXCEPT ![started + 1] = "check"]
        /\ started' = started + 1
     \/ /\ thread' = StartFailed(thread)
        /\ UNCHANGED <<run, started>>

Start ==
  /\ claim = "nobody"
  /\ call[Owner] = "idle"
  /\ ConcurrentStart \/ Quiet
  /\ Launch
  /\ UNCHANGED <<sleeps, alive, claim, call>>

--------------------------------------------------------------------------------
(* mupnp_thread_stop_with_cond from another thread: one section that asks    *)
(* for the stop and either returns at once or starts to wait.                *)

BeginStop(c, waiting, next) ==
  /\ thread' = StopRequested(thread)
  /\ call' = [call EXCEPT ![c] = IF thread.isRunning THEN waiting ELSE next]
  /\ UNCHANGED <<sleeps, alive, claim, started>>

\* mupnp_thread_stop, or for a run that sleeps mupnp_thread_stop_with_cond.
Stop(c) ==
  /\ claim = "nobody"
  /\ call[c] = "idle"
  /\ ConcurrentStart \/ call[Owner] \notin {"wait.restart", "restart"}
  /\ BeginStop(c, "wait.stop", "idle")
  /\ run' = IF sleeps THEN Signalled ELSE run

\* mupnp_thread_restart: a stop that is given no condition, then a start.
Restart ==
  /\ claim = "nobody"
  /\ ~sleeps
  /\ call[Owner] = "idle"
  /\ ConcurrentStart \/ Quiet
  /\ started < MaxRuns
  /\ BeginStop(Owner, "wait.restart", "restart")
  /\ run' = run

\* The start of mupnp_thread_restart; its result is not looked at.
RestartStart ==
  /\ call[Owner] = "restart"
  /\ \/ Launch
     \/ (thread.isRunning \/ started = MaxRuns) /\ UNCHANGED <<thread, run, started>>
  /\ call' = [call EXCEPT ![Owner] = "idle"]
  /\ UNCHANGED <<sleeps, alive, claim>>

\* A stop that falls through to the code of delete.
StopFallsThrough(c) == IF call[c] = "wait.restart" THEN "restart" ELSE "destroy"

\* Where a caller goes on when its wait is over.
AfterWait(c) ==
  CASE call[c] = "wait.stop"    -> "idle"
    [] call[c] = "wait.restart" -> "restart"
    [] OTHER                    -> "destroy"

\* A wait that takes any wakeup for the completion.
StopWakesOnce(c) ==
  /\ Waiting(c)
  /\ call' = [call EXCEPT ![c] = AfterWait(c)]
  /\ UNCHANGED <<sleeps, run, thread, alive, claim, started>>

\* A wait that signals the worker's condition only before the loop.
StopWakesSilently(c) ==
  /\ Waiting(c) /\ ~thread.isRunning
  /\ call' = [call EXCEPT ![c] = AfterWait(c)]
  /\ UNCHANGED <<sleeps, run, thread, alive, claim, started>>

\* The broadcast or the end of a 100ms slice wakes the stopper: it leaves when
\* no run is in progress, else signals the condition again and waits again.
StopWakes(c) ==
  /\ Waiting(c)
  /\ \/ /\ ~thread.isRunning
        /\ call' = [call EXCEPT ![c] = AfterWait(c)]
        /\ run' = run
     \/ /\ thread.isRunning
        /\ run' = IF sleeps /\ call[c] = "wait.stop" THEN Signalled ELSE run
        /\ call' = call
  /\ UNCHANGED <<sleeps, thread, alive, claim, started>>

--------------------------------------------------------------------------------
(* mupnp_thread_delete from another thread.  The owner first makes sure that *)
(* nobody else will use or delete the object: it calls delete when no other  *)
(* call is in progress, and the claim keeps a run that ends meanwhile from   *)
(* deleting itself (mupnp_http_server_stop takes it under the server lock).  *)
(* The stop inside delete is given no condition, so that a run that sleeps   *)
(* has been stopped before, as mupnp_controlpoint_delete does.               *)

ClaimDelete ==
  /\ claim = "nobody"
  /\ Quiet
  /\ sleeps => ~thread.isRunning
  /\ claim' = "owner"
  /\ call' = [call EXCEPT ![Owner] = "delete"]
  /\ UNCHANGED <<sleeps, thread, alive, started, run>>

DeleteStops ==
  /\ call[Owner] = "delete"
  /\ BeginStop(Owner, "wait.delete", "destroy")
  /\ run' = run

\* Destroys the condition and the mutex, leaves the list, frees the object.
Destroy ==
  /\ call[Owner] = "destroy"
  /\ alive' = FALSE
  /\ call' = [call EXCEPT ![Owner] = "idle"]
  /\ UNCHANGED <<sleeps, thread, claim, started, run>>

--------------------------------------------------------------------------------
(* posix_thread_proc and the thread's action.                                *)

Goto(r, from, to) == run[r] = from /\ run' = [run EXCEPT ![r] = to]

CheckRunnable(r) ==
  /\ \/ thread.runnableFlag /\ Goto(r, "check", "work")
     \/ ~thread.runnableFlag /\ Goto(r, "check", "returned")
  /\ UNCHANGED <<sleeps, thread, alive, claim, started, call>>

\* One iteration of the loop: go round, sleep, or leave on an error.
Work(r) ==
  /\ \/ ~sleeps /\ Goto(r, "work", "check")
     \/ sleeps /\ Goto(r, "work", "toSleep")
     \/ Goto(r, "work", "returned")
  /\ UNCHANGED <<sleeps, thread, alive, claim, started, call>>

\* pthread_cond_wait with no deadline.
FallAsleep(r) ==
  /\ Goto(r, "toSleep", "asleep")
  /\ UNCHANGED <<sleeps, thread, alive, claim, started, call>>

\* A signal from elsewhere, a deadline or a spurious wakeup; none is promised.
WakeUp(r) ==
  /\ Goto(r, "asleep", "check")
  /\ UNCHANGED <<sleeps, thread, alive, claim, started, call>>

\* The action stops its own thread: an application callback that runs on it
\* calls, say, mupnp_controlpoint_stop.
SelfStop(r) ==
  /\ run[r] = "work"
  /\ thread' = SelfStopped(thread)
  /\ UNCHANGED <<sleeps, alive, claim, started, call, run>>

\* The action deletes its own thread, either having claimed it, or while the
\* owner that claimed it already waits for the run to end.  No run that sleeps
\* on a condition does this.
SelfDelete(r) ==
  /\ run[r] = "work"
  /\ ~sleeps
  /\ \/ /\ claim = "nobody"
        /\ Quiet
        /\ claim' = "worker"
     \/ /\ claim = "owner"
        /\ call[Owner] = "wait.delete"
        /\ claim' = claim
  /\ thread' = SelfDeleted(thread)
  /\ UNCHANGED <<sleeps, alive, started, call, run>>

\* The last section on stateMutex; the broadcast is part of it.
ReturnFromAction(r) ==
  /\ Goto(r, "returned", IF WrapperFrees(thread) THEN "free" ELSE "ended")
  /\ thread' = ActionReturned(thread)
  /\ UNCHANGED <<sleeps, alive, claim, started, call>>

FreeSelf(r) ==
  /\ Goto(r, "free", "ended")
  /\ alive' = FALSE
  /\ UNCHANGED <<sleeps, thread, claim, started, call>>

--------------------------------------------------------------------------------
RunStep(r) ==
  CheckRunnable(r) \/ Work(r) \/ FallAsleep(r) \/ ReturnFromAction(r) \/ FreeSelf(r)

Next ==
  \/ Start \/ Restart \/ RestartStart
  \/ ClaimDelete \/ DeleteStops \/ Destroy
  \/ \E c \in Callers : Stop(c) \/ StopWakes(c)
  \/ \E r \in Runs : RunStep(r) \/ WakeUp(r) \/ SelfStop(r) \/ SelfDelete(r)

\* A pthread that can run does, a 100ms slice ends, and a call that has begun
\* goes on; nothing makes the application call.
Fairness ==
  /\ \A r \in Runs : WF_vars(RunStep(r))
  /\ \A c \in Callers : WF_vars(StopWakes(c))
  /\ WF_vars(RestartStart)
  /\ WF_vars(DeleteStops) /\ WF_vars(Destroy)

Spec == Init /\ [][Next]_vars /\ Fairness

--------------------------------------------------------------------------------
TypeOK ==
  /\ thread \in ThreadState
  /\ alive \in BOOLEAN
  /\ claim \in {"nobody", "owner", "worker"}
  /\ sleeps \in BOOLEAN
  /\ started \in 0..MaxRuns
  /\ call \in [Callers -> CallState]
  /\ \A c \in Stoppers : call[c] \in {"idle", "wait.stop"}
  /\ run \in [Runs -> RunState]

\* Once the object is freed no thread is inside a call on it and no pthread
\* will still touch it: the wrapper frees it only when no stopper is left to
\* lock the mutex, and a deleter only when the run is past its last section.
NoUseAfterFree ==
  ~alive => /\ Quiet
            /\ \A r \in Runs : ~Uses(r)

\* Two runs of the same object never execute its action together: isRunning
\* stays set until the old action is out of the way.
OneRunAtATime == \A r, s \in Runs : Executing(r) /\ Executing(s) => r = s

\* mupnp_thread_stop is a join: when it returns to a caller that waited, no
\* run is executing the action any more.
StopIsAJoin ==
  [][\A c \in Callers : Waiting(c) /\ ~Waiting(c)' => \A r \in Runs : ~Executing(r)']_vars

\* A stop comes back, even one that asks between the worker's check and its
\* wait on the condition.
StopReturns == \A c \in Callers : Waiting(c) ~> ~Waiting(c)

\* An object somebody has taken on to delete is freed; no combination of
\* earlier stops, restarts and self-deletion leaks it.
Reclaimed == claim # "nobody" ~> ~alive
================================================================================
