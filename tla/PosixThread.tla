------------------------------ MODULE PosixThread ------------------------------
(***************************************************************************)
(* The lifecycle fields of a mUpnpThread in the native POSIX build of      *)
(* util/thread.c, and what each critical section on stateMutex does to     *)
(* them.  ThreadLifecycle and HttpServer are built from these operators.   *)
(***************************************************************************)

ThreadState ==
  [isRunning : BOOLEAN, runnableFlag : BOOLEAN,
   stopWaiting : BOOLEAN, deletePending : BOOLEAN]

\* mupnp_thread_new
NewThread ==
  [isRunning |-> FALSE, runnableFlag |-> FALSE,
   stopWaiting |-> FALSE, deletePending |-> FALSE]

\* A restart that forgets the lifecycle marks of the previous run.
StartedKeepingMarks(t) ==
  [t EXCEPT !.isRunning = TRUE, !.runnableFlag = TRUE]

\* mupnp_thread_start, when no run is in progress and pthread_create succeeds.
Started(t) ==
  [t EXCEPT !.isRunning = TRUE, !.runnableFlag = TRUE,
            !.stopWaiting = FALSE, !.deletePending = FALSE]

\* mupnp_thread_start, when pthread_attr_init or pthread_create fails.
StartFailed(t) ==
  [t EXCEPT !.isRunning = FALSE, !.runnableFlag = FALSE,
            !.stopWaiting = FALSE, !.deletePending = FALSE]

\* mupnp_thread_stop from another thread, up to its wait loop.
StopRequested(t) == [t EXCEPT !.runnableFlag = FALSE, !.stopWaiting = TRUE]

\* mupnp_thread_stop from the run itself: it never waits.
SelfStopped(t) == [t EXCEPT !.runnableFlag = FALSE]

\* mupnp_thread_delete from the run itself.
SelfDeleted(t) == [t EXCEPT !.deletePending = TRUE, !.runnableFlag = FALSE]

\* posix_thread_proc once the action has returned.
ActionReturned(t) == [t EXCEPT !.isRunning = FALSE, !.runnableFlag = FALSE]

\* A wrapper that frees the object whenever self-deletion was asked for.
FreesWheneverPending(t) == t.deletePending

\* Whether posix_thread_proc, and not an external stopper, frees the object.
WrapperFrees(t) == t.deletePending /\ ~t.stopWaiting

================================================================================
