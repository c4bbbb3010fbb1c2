------------------------- MODULE ThreadLifecycle_proofs -------------------------
(***************************************************************************)
(* Safety of ThreadLifecycle for every set of stoppers, every number of    *)
(* runs and both values of ConcurrentStart.                                *)
(***************************************************************************)
EXTENDS ThreadLifecycle, TLAPS

\* isRunning is what a stopper looks at: it is set exactly while a run executes.
RunningIsExact == thread.isRunning <=> \E r \in Runs : Executing(r)

\* The runs not started yet are untouched.
FutureRuns == \A r \in Runs : r > started => run[r] = "none"

\* Nobody has claimed the object: it is whole and no deletion is under way.
Unclaimed ==
  claim = "nobody" =>
    /\ alive
    /\ ~thread.deletePending
    /\ call[Owner] \notin {"delete", "wait.delete", "destroy"}
    /\ \A r \in Runs : run[r] # "free"

\* stopWaiting is set during a run only on behalf of a caller that waits.
StopWaitingIsExact ==
  thread.stopWaiting /\ thread.isRunning => \E c \in Callers : Waiting(c)

\* The owner deletes: nobody else calls, and the wrapper will not free.
OwnerDeletes ==
  claim = "owner" =>
    /\ \A c \in Stoppers : call[c] = "idle"
    /\ call[Owner] \in {"idle", "delete", "wait.delete", "destroy"}
    /\ alive <=> call[Owner] # "idle"
    /\ call[Owner] = "delete" => ~thread.deletePending
    /\ call[Owner] \in {"wait.delete", "destroy"} => thread.stopWaiting
    /\ call[Owner] \in {"idle", "destroy"} => ~thread.isRunning
    /\ \A r \in Runs : run[r] # "free"

\* The run deletes itself: nobody calls, and the wrapper will free.
WorkerDeletes ==
  claim = "worker" =>
    /\ Quiet
    /\ thread.deletePending
    /\ thread.isRunning => ~thread.stopWaiting
    /\ alive <=> \E r \in Runs : Uses(r)
    /\ \A r, s \in Runs : Uses(r) /\ Uses(s) => r = s

LifecycleInv ==
  /\ TypeOK
  /\ RunningIsExact
  /\ OneRunAtATime
  /\ FutureRuns
  /\ Unclaimed
  /\ StopWaitingIsExact
  /\ OwnerDeletes
  /\ WorkerDeletes

--------------------------------------------------------------------------------
\* What each section on stateMutex does to the four fields.
LEMMA ThreadOps ==
  ASSUME NEW t \in ThreadState
  PROVE  /\ NewThread \in ThreadState
         /\ Started(t) \in ThreadState
         /\ Started(t).isRunning /\ ~Started(t).stopWaiting /\ ~Started(t).deletePending
         /\ StartFailed(t) \in ThreadState
         /\ ~StartFailed(t).isRunning /\ ~StartFailed(t).deletePending
         /\ StopRequested(t) \in ThreadState
         /\ StopRequested(t).stopWaiting
         /\ StopRequested(t).isRunning = t.isRunning
         /\ StopRequested(t).deletePending = t.deletePending
         /\ SelfStopped(t) \in ThreadState
         /\ SelfStopped(t).isRunning = t.isRunning
         /\ SelfStopped(t).stopWaiting = t.stopWaiting
         /\ SelfStopped(t).deletePending = t.deletePending
         /\ SelfDeleted(t) \in ThreadState
         /\ SelfDeleted(t).isRunning = t.isRunning
         /\ SelfDeleted(t).stopWaiting = t.stopWaiting
         /\ SelfDeleted(t).deletePending
         /\ ActionReturned(t) \in ThreadState
         /\ ~ActionReturned(t).isRunning
         /\ ActionReturned(t).stopWaiting = t.stopWaiting
         /\ ActionReturned(t).deletePending = t.deletePending
  BY DEF ThreadState, NewThread, Started, StartFailed, StopRequested, SelfStopped,
         SelfDeleted, ActionReturned

\* The initial states satisfy the invariant.
LEMMA InitInv == Init => LifecycleInv
  <1> SUFFICES ASSUME Init PROVE LifecycleInv
    OBVIOUS
  <1> USE LifecycleAssumption DEF Init
  <1>1. TypeOK
    BY DEF TypeOK, Callers, Runs, CallState, RunState, ThreadState, NewThread
  <1>2. RunningIsExact /\ OneRunAtATime /\ FutureRuns
    BY DEF RunningIsExact, OneRunAtATime, FutureRuns, Executing, Runs, NewThread
  <1>3. Unclaimed /\ StopWaitingIsExact /\ OwnerDeletes /\ WorkerDeletes
    BY DEF Unclaimed, StopWaitingIsExact, OwnerDeletes, WorkerDeletes, Callers, Runs, NewThread
  <1> QED
    BY <1>1, <1>2, <1>3 DEF LifecycleInv

\* Every step of a caller or of a run keeps the invariant.
LEMMA NextInv == LifecycleInv /\ [Next]_vars => LifecycleInv'
  <1> SUFFICES ASSUME LifecycleInv, [Next]_vars PROVE LifecycleInv'
    OBVIOUS
  <1> USE LifecycleAssumption, ThreadOps DEF LifecycleInv, TypeOK, Callers, Runs
  <1>1. ASSUME Start PROVE LifecycleInv'
    <2> USE <1>1 DEF Start, Launch
    <2>1. TypeOK'
      BY DEF CallState, RunState
    <2>2. RunningIsExact'
      BY DEF RunningIsExact, Executing
    <2>3. OneRunAtATime'
      BY DEF OneRunAtATime, RunningIsExact, FutureRuns, Executing
    <2>4. FutureRuns'
      BY DEF FutureRuns
    <2>5. Unclaimed'
      BY DEF Unclaimed
    <2>6. StopWaitingIsExact'
      BY DEF StopWaitingIsExact, Waiting
    <2>7. OwnerDeletes'
      BY DEF OwnerDeletes
    <2>8. WorkerDeletes'
      BY DEF WorkerDeletes, Quiet, Uses
    <2> QED
      BY <2>1, <2>2, <2>3, <2>4, <2>5, <2>6, <2>7, <2>8
  <1>2. ASSUME Restart PROVE LifecycleInv'
    <2> USE <1>2 DEF Restart, BeginStop
    <2>1. TypeOK'
      BY DEF CallState, RunState
    <2>2. RunningIsExact'
      BY DEF RunningIsExact, Executing
    <2>3. OneRunAtATime'
      BY DEF OneRunAtATime, Executing
    <2>4. FutureRuns'
      BY DEF FutureRuns
    <2>5. Unclaimed'
      BY DEF Unclaimed
    <2>6. StopWaitingIsExact'
      BY DEF StopWaitingIsExact, Waiting
    <2>7. OwnerDeletes'
      BY DEF OwnerDeletes
    <2>8. WorkerDeletes'
      BY DEF WorkerDeletes, Quiet, Uses
    <2> QED
      BY <2>1, <2>2, <2>3, <2>4, <2>5, <2>6, <2>7, <2>8
  <1>3. ASSUME RestartStart PROVE LifecycleInv'
    <2> USE <1>3 DEF RestartStart, Launch
    <2>1. TypeOK'
      BY DEF CallState, RunState
    <2>2. RunningIsExact'
      BY DEF RunningIsExact, Executing
    <2>3. OneRunAtATime'
      BY DEF OneRunAtATime, RunningIsExact, FutureRuns, Executing
    <2>4. FutureRuns'
      BY DEF FutureRuns
    <2>5. Unclaimed'
      BY DEF Unclaimed
    <2>6. StopWaitingIsExact'
      BY DEF StopWaitingIsExact, Waiting
    <2>7. OwnerDeletes'
      BY DEF OwnerDeletes
    <2>8. WorkerDeletes'
      BY DEF WorkerDeletes, Quiet, Uses
    <2> QED
      BY <2>1, <2>2, <2>3, <2>4, <2>5, <2>6, <2>7, <2>8
  <1>4. ASSUME ClaimDelete PROVE LifecycleInv'
    <2> USE <1>4 DEF ClaimDelete
    <2>1. TypeOK'
      BY DEF CallState, RunState
    <2>2. RunningIsExact'
      BY DEF RunningIsExact, Executing
    <2>3. OneRunAtATime'
      BY DEF OneRunAtATime, Executing
    <2>4. FutureRuns'
      BY DEF FutureRuns
    <2>5. Unclaimed'
      BY DEF Unclaimed
    <2>6. StopWaitingIsExact'
      BY DEF StopWaitingIsExact, Waiting, Quiet, Unclaimed, RunningIsExact,
          Executing, OwnerDeletes
    <2>7. OwnerDeletes'
      BY DEF OwnerDeletes, Unclaimed, Quiet, Waiting
    <2>8. WorkerDeletes'
      BY DEF WorkerDeletes, Quiet, Uses
    <2> QED
      BY <2>1, <2>2, <2>3, <2>4, <2>5, <2>6, <2>7, <2>8
  <1>5. ASSUME DeleteStops PROVE LifecycleInv'
    <2> USE <1>5 DEF DeleteStops, BeginStop
    <2>1. TypeOK'
      BY DEF CallState, RunState
    <2>2. RunningIsExact'
      BY DEF RunningIsExact, Executing
    <2>3. OneRunAtATime'
      BY DEF OneRunAtATime, Executing
    <2>4. FutureRuns'
      BY DEF FutureRuns
    <2>5. Unclaimed'
      BY DEF Unclaimed
    <2>6. StopWaitingIsExact'
      BY DEF StopWaitingIsExact, Waiting
    <2>7. OwnerDeletes'
      BY DEF OwnerDeletes
    <2>8. WorkerDeletes'
      BY DEF WorkerDeletes, Quiet, Uses
    <2> QED
      BY <2>1, <2>2, <2>3, <2>4, <2>5, <2>6, <2>7, <2>8
  <1>6. ASSUME Destroy PROVE LifecycleInv'
    <2> USE <1>6 DEF Destroy
    <2>1. TypeOK'
      BY DEF CallState, RunState
    <2>2. RunningIsExact'
      BY DEF RunningIsExact, Executing
    <2>3. OneRunAtATime'
      BY DEF OneRunAtATime, Executing
    <2>4. FutureRuns'
      BY DEF FutureRuns
    <2>5. Unclaimed'
      BY DEF Unclaimed
    <2>6. StopWaitingIsExact'
      BY DEF StopWaitingIsExact, Waiting
    <2>7. OwnerDeletes'
      BY DEF OwnerDeletes
    <2>8. WorkerDeletes'
      BY DEF WorkerDeletes, Quiet, Uses
    <2> QED
      BY <2>1, <2>2, <2>3, <2>4, <2>5, <2>6, <2>7, <2>8
  <1>7. ASSUME NEW c \in Callers, Stop(c) PROVE LifecycleInv'
    <2> USE <1>7 DEF Stop, BeginStop, Signalled
    <2>1. TypeOK'
      BY DEF CallState, RunState
    <2>2. RunningIsExact'
      BY DEF RunningIsExact, Executing
    <2>3. OneRunAtATime'
      BY DEF OneRunAtATime, Executing
    <2>4. FutureRuns'
      BY DEF FutureRuns
    <2>5. Unclaimed'
      BY DEF Unclaimed
    <2>6. StopWaitingIsExact'
      BY DEF StopWaitingIsExact, Waiting
    <2>7. OwnerDeletes'
      BY DEF OwnerDeletes
    <2>8. WorkerDeletes'
      BY DEF WorkerDeletes, Quiet, Uses
    <2> QED
      BY <2>1, <2>2, <2>3, <2>4, <2>5, <2>6, <2>7, <2>8
  <1>8. ASSUME NEW c \in Callers, StopWakes(c) PROVE LifecycleInv'
    <2> USE <1>8 DEF StopWakes, AfterWait, Signalled
    <2>1. TypeOK'
      BY DEF CallState, RunState, Waiting, Unclaimed, OwnerDeletes
    <2>2. RunningIsExact'
      BY DEF RunningIsExact, Executing
    <2>3. OneRunAtATime'
      BY DEF OneRunAtATime, Executing
    <2>4. FutureRuns'
      BY DEF FutureRuns
    <2>5. Unclaimed'
      BY DEF Unclaimed, Waiting
    <2>6. StopWaitingIsExact'
      BY DEF StopWaitingIsExact, Waiting
    <2>7. OwnerDeletes'
      BY DEF OwnerDeletes, Unclaimed, Quiet, Waiting
    <2>8. WorkerDeletes'
      BY DEF WorkerDeletes, Quiet, Uses, Unclaimed, Waiting
    <2> QED
      BY <2>1, <2>2, <2>3, <2>4, <2>5, <2>6, <2>7, <2>8
  <1>9. ASSUME NEW r \in Runs, CheckRunnable(r) PROVE LifecycleInv'
    <2> USE <1>9 DEF CheckRunnable, Goto
    <2>1. TypeOK'
      BY DEF CallState, RunState
    <2>2. RunningIsExact'
      BY DEF RunningIsExact, Executing
    <2>3. OneRunAtATime'
      BY DEF OneRunAtATime, Executing
    <2>4. FutureRuns'
      BY DEF FutureRuns
    <2>5. Unclaimed'
      BY DEF Unclaimed
    <2>6. StopWaitingIsExact'
      BY DEF StopWaitingIsExact, Waiting
    <2>7. OwnerDeletes'
      BY DEF OwnerDeletes
    <2>8. WorkerDeletes'
      BY DEF WorkerDeletes, Quiet, Uses
    <2> QED
      BY <2>1, <2>2, <2>3, <2>4, <2>5, <2>6, <2>7, <2>8
  <1>10. ASSUME NEW r \in Runs, Work(r) PROVE LifecycleInv'
    <2> USE <1>10 DEF Work, Goto
    <2>1. TypeOK'
      BY DEF CallState, RunState
    <2>2. RunningIsExact'
      BY DEF RunningIsExact, Executing
    <2>3. OneRunAtATime'
      BY DEF OneRunAtATime, Executing
    <2>4. FutureRuns'
      BY DEF FutureRuns
    <2>5. Unclaimed'
      BY DEF Unclaimed
    <2>6. StopWaitingIsExact'
      BY DEF StopWaitingIsExact, Waiting
    <2>7. OwnerDeletes'
      BY DEF OwnerDeletes
    <2>8. WorkerDeletes'
      BY DEF WorkerDeletes, Quiet, Uses
    <2> QED
      BY <2>1, <2>2, <2>3, <2>4, <2>5, <2>6, <2>7, <2>8
  <1>11. ASSUME NEW r \in Runs, FallAsleep(r) PROVE LifecycleInv'
    <2> USE <1>11 DEF FallAsleep, Goto
    <2>1. TypeOK'
      BY DEF CallState, RunState
    <2>2. RunningIsExact'
      BY DEF RunningIsExact, Executing
    <2>3. OneRunAtATime'
      BY DEF OneRunAtATime, Executing
    <2>4. FutureRuns'
      BY DEF FutureRuns
    <2>5. Unclaimed'
      BY DEF Unclaimed
    <2>6. StopWaitingIsExact'
      BY DEF StopWaitingIsExact, Waiting
    <2>7. OwnerDeletes'
      BY DEF OwnerDeletes
    <2>8. WorkerDeletes'
      BY DEF WorkerDeletes, Quiet, Uses
    <2> QED
      BY <2>1, <2>2, <2>3, <2>4, <2>5, <2>6, <2>7, <2>8
  <1>12. ASSUME NEW r \in Runs, WakeUp(r) PROVE LifecycleInv'
    <2> USE <1>12 DEF WakeUp, Goto
    <2>1. TypeOK'
      BY DEF CallState, RunState
    <2>2. RunningIsExact'
      BY DEF RunningIsExact, Executing
    <2>3. OneRunAtATime'
      BY DEF OneRunAtATime, Executing
    <2>4. FutureRuns'
      BY DEF FutureRuns
    <2>5. Unclaimed'
      BY DEF Unclaimed
    <2>6. StopWaitingIsExact'
      BY DEF StopWaitingIsExact, Waiting
    <2>7. OwnerDeletes'
      BY DEF OwnerDeletes
    <2>8. WorkerDeletes'
      BY DEF WorkerDeletes, Quiet, Uses
    <2> QED
      BY <2>1, <2>2, <2>3, <2>4, <2>5, <2>6, <2>7, <2>8
  <1>13. ASSUME NEW r \in Runs, SelfStop(r) PROVE LifecycleInv'
    <2> USE <1>13 DEF SelfStop
    <2>1. TypeOK'
      BY DEF CallState, RunState
    <2>2. RunningIsExact'
      BY DEF RunningIsExact, Executing
    <2>3. OneRunAtATime'
      BY DEF OneRunAtATime, Executing
    <2>4. FutureRuns'
      BY DEF FutureRuns
    <2>5. Unclaimed'
      BY DEF Unclaimed
    <2>6. StopWaitingIsExact'
      BY DEF StopWaitingIsExact, Waiting
    <2>7. OwnerDeletes'
      BY DEF OwnerDeletes
    <2>8. WorkerDeletes'
      BY DEF WorkerDeletes, Quiet, Uses
    <2> QED
      BY <2>1, <2>2, <2>3, <2>4, <2>5, <2>6, <2>7, <2>8
  <1>14. ASSUME NEW r \in Runs, SelfDelete(r) PROVE LifecycleInv'
    <2> USE <1>14 DEF SelfDelete
    <2>1. TypeOK'
      BY DEF CallState, RunState
    <2>2. RunningIsExact'
      BY DEF RunningIsExact, Executing
    <2>3. OneRunAtATime'
      BY DEF OneRunAtATime, Executing
    <2>4. FutureRuns'
      BY DEF FutureRuns
    <2>5. Unclaimed'
      BY DEF Unclaimed
    <2>6. StopWaitingIsExact'
      BY DEF StopWaitingIsExact, Waiting
    <2>7. OwnerDeletes'
      BY DEF OwnerDeletes
    <2>8. WorkerDeletes'
      <3>1. CASE claim = "nobody"
        <4>1. Executing(r) /\ \A s \in Runs : Uses(s) => s = r
          BY <3>1 DEF Executing, Uses, Unclaimed, OneRunAtATime, RunState
        <4>2. ~thread.stopWaiting /\ Quiet
          BY <3>1, <4>1 DEF Quiet, Waiting, StopWaitingIsExact, RunningIsExact
        <4> QED
          BY <3>1, <4>1, <4>2 DEF WorkerDeletes, Unclaimed, Quiet, Uses, Executing
      <3>2. CASE claim = "owner"
        BY <3>2 DEF WorkerDeletes
      <3> QED
        BY <3>1, <3>2
    <2> QED
      BY <2>1, <2>2, <2>3, <2>4, <2>5, <2>6, <2>7, <2>8
  <1>15. ASSUME NEW r \in Runs, ReturnFromAction(r) PROVE LifecycleInv'
    <2> USE <1>15 DEF ReturnFromAction, Goto, WrapperFrees
    <2>1. TypeOK'
      BY DEF CallState, RunState
    <2>2. RunningIsExact'
      BY DEF RunningIsExact, OneRunAtATime, FutureRuns, Executing
    <2>3. OneRunAtATime'
      BY DEF OneRunAtATime, Executing
    <2>4. FutureRuns'
      BY DEF FutureRuns
    <2>5. Unclaimed'
      BY DEF Unclaimed
    <2>6. StopWaitingIsExact'
      BY DEF StopWaitingIsExact, Waiting
    <2>7. OwnerDeletes'
      BY DEF OwnerDeletes, Unclaimed, Quiet, Waiting, RunningIsExact,
          Executing, WorkerDeletes
    <2>8. WorkerDeletes'
      BY DEF WorkerDeletes, Quiet, Uses, Unclaimed, Waiting, RunningIsExact,
          OneRunAtATime, StopWaitingIsExact, Executing
    <2> QED
      BY <2>1, <2>2, <2>3, <2>4, <2>5, <2>6, <2>7, <2>8
  <1>16. ASSUME NEW r \in Runs, FreeSelf(r) PROVE LifecycleInv'
    <2> USE <1>16 DEF FreeSelf, Goto
    <2>1. TypeOK'
      BY DEF CallState, RunState
    <2>2. RunningIsExact'
      BY DEF RunningIsExact, Executing
    <2>3. OneRunAtATime'
      BY DEF OneRunAtATime, Executing
    <2>4. FutureRuns'
      BY DEF FutureRuns
    <2>5. Unclaimed'
      BY DEF Unclaimed
    <2>6. StopWaitingIsExact'
      BY DEF StopWaitingIsExact, Waiting
    <2>7. OwnerDeletes'
      BY DEF OwnerDeletes
    <2>8. WorkerDeletes'
      BY DEF WorkerDeletes, Quiet, Uses
    <2> QED
      BY <2>1, <2>2, <2>3, <2>4, <2>5, <2>6, <2>7, <2>8
  <1>17. CASE UNCHANGED vars
    BY <1>17 DEF vars, Executing, Uses, Waiting, Quiet, RunningIsExact, OneRunAtATime,
                FutureRuns, Unclaimed, StopWaitingIsExact, OwnerDeletes, WorkerDeletes
  <1> QED
    BY <1>1, <1>2, <1>3, <1>4, <1>5, <1>6, <1>7, <1>8, <1>9,
       <1>10, <1>11, <1>12, <1>13, <1>14, <1>15, <1>16, <1>17 DEF Next, RunStep

--------------------------------------------------------------------------------
\* The inductive invariant: what isRunning, stopWaiting, deletePending and the
\* claim on the object mean, in every reachable state.
THEOREM Lifecycle == Spec => []LifecycleInv
  BY InitInv, NextInv, PTL DEF Spec

\* The variables stay in their types, and only the owner restarts and deletes.
THEOREM Typed == Spec => []TypeOK
  <1>1. LifecycleInv => TypeOK
    BY DEF LifecycleInv
  <1> QED
    BY <1>1, Lifecycle, PTL

\* posix_thread_proc and mupnp_thread_delete never free the object under each
\* other or under a stopper.
THEOREM ThreadNoUseAfterFree == Spec => []NoUseAfterFree
  <1>1. LifecycleInv => NoUseAfterFree
    <2> SUFFICES ASSUME LifecycleInv, ~alive PROVE Quiet /\ \A r \in Runs : ~Uses(r)
      BY DEF NoUseAfterFree
    <2>1. CASE claim = "nobody"
      BY <2>1 DEF LifecycleInv, Unclaimed
    <2>2. CASE claim = "owner"
      BY <2>2 DEF LifecycleInv, OwnerDeletes, RunningIsExact, Executing, Uses, Quiet,
                  Callers, TypeOK, RunState
    <2>3. CASE claim = "worker"
      BY <2>3 DEF LifecycleInv, WorkerDeletes
    <2> QED
      BY <2>1, <2>2, <2>3 DEF LifecycleInv, TypeOK
  <1> QED
    BY <1>1, Lifecycle, PTL

\* mupnp_thread_start never lets two runs into the action of one object.
THEOREM ThreadOneRunAtATime == Spec => []OneRunAtATime
  <1>1. LifecycleInv => OneRunAtATime
    BY DEF LifecycleInv
  <1> QED
    BY <1>1, Lifecycle, PTL

\* An object whose run took on to delete it is not leaked: while it is there, a
\* run is on its way to free it.
THEOREM SelfDeletionNeverLeaks ==
  Spec => [](claim = "worker" /\ alive => \E r \in Runs : Uses(r))
  <1>1. LifecycleInv => (claim = "worker" /\ alive => \E r \in Runs : Uses(r))
    BY DEF LifecycleInv, WorkerDeletes
  <1> QED
    BY <1>1, Lifecycle, PTL

\* mupnp_thread_stop returns to a caller that waited only when no run executes.
THEOREM StopJoins == Spec => StopIsAJoin
  <1> DEFINE Joined == \A c \in Callers : Waiting(c) /\ ~Waiting(c)' =>
                                            \A r \in Runs : ~Executing(r)'
  <1>1. LifecycleInv /\ [Next]_vars => [Joined]_vars
    <2> SUFFICES ASSUME LifecycleInv, Next, NEW c \in Callers, Waiting(c), ~Waiting(c)',
                        NEW r \in Runs
                 PROVE  ~Executing(r)'
      OBVIOUS
    <2>1. ASSUME NEW d \in Callers, StopWakes(d) PROVE ~Executing(r)'
      BY <2>1 DEF StopWakes, LifecycleInv, RunningIsExact, Executing, Waiting, TypeOK
    <2>2. ASSUME NEW d \in Callers, Stop(d) PROVE FALSE
      BY <2>2 DEF Stop, BeginStop, Waiting, LifecycleInv, TypeOK
    <2>3. ASSUME NEW s \in Runs,
                 RunStep(s) \/ WakeUp(s) \/ SelfStop(s) \/ SelfDelete(s)
          PROVE  FALSE
      BY <2>3 DEF RunStep, CheckRunnable, Work, FallAsleep, ReturnFromAction, FreeSelf,
                  WakeUp, SelfStop, SelfDelete, Waiting
    <2>4. ASSUME Start \/ Restart \/ RestartStart \/ ClaimDelete \/ DeleteStops \/ Destroy
          PROVE  FALSE
      BY <2>4 DEF Start, Restart, BeginStop, RestartStart, ClaimDelete, DeleteStops,
                  Destroy, Waiting, Quiet, LifecycleInv, TypeOK
    <2> QED
      BY <2>1, <2>2, <2>3, <2>4 DEF Next
  <1> QED
    BY <1>1, Lifecycle, PTL DEF Spec, StopIsAJoin
================================================================================
