----------------------------- MODULE DrainGate -----------------------------
(***************************************************************************)
(* The graceful-drain gate of src/cluster.rs: run_worker and run_acceptor  *)
(* count their running tasks in `inflight`, the task that takes the count  *)
(* to zero calls `drained.notify_waiters()`, and the drain loop creates    *)
(* (and enables) a Notified future, reads the count and only then sleeps   *)
(* on the future or on the grace deadline.  notify_waiters stores no       *)
(* permit: a notification sent while no future exists is lost.             *)
(***************************************************************************)
EXTENDS Naturals, FiniteSets

CONSTANT Tasks          \* connections of a worker, dispatches of an acceptor

ASSUME TasksAssumption == IsFiniteSet(Tasks)

VARIABLES
  idle,       \* tasks not yet spawned
  active,     \* spawned tasks that have not decremented `inflight`
  notifying,  \* tasks whose fetch_sub returned 1, about to notify
  gate,       \* control state of the draining function
  woken       \* has the current Notified future been notified?

vars == <<idle, active, notifying, gate, woken>>

\* The control states in which the Notified future of this round exists.
Armed == {"check", "wait"}

\* `inflight`: every task decrements exactly once, after it was counted.
inflight == Cardinality(active)

Init ==
  /\ idle = Tasks
  /\ active = {}
  /\ notifying = {}
  /\ gate = "serving"
  /\ woken = FALSE

\* The accept loop counts a task before it spawns it.
Spawn(t) ==
  /\ gate = "serving"
  /\ t \in idle
  /\ idle' = idle \ {t}
  /\ active' = active \cup {t}
  /\ UNCHANGED <<notifying, gate, woken>>

\* Mutant: the task tests fetch_sub's result against 0 and never notifies.
FinishSilently(t) ==
  /\ t \in active
  /\ active' = active \ {t}
  /\ UNCHANGED <<idle, notifying, gate, woken>>

\* fetch_sub(1): the task that finds 1 goes on to notify.
Finish(t) ==
  /\ t \in active
  /\ active' = active \ {t}
  /\ notifying' = IF active = {t} THEN notifying \cup {t} ELSE notifying
  /\ UNCHANGED <<idle, gate, woken>>

\* notify_waiters wakes the future that exists now, and nobody later.
NotifyWaiters(t) ==
  /\ t \in notifying
  /\ notifying' = notifying \ {t}
  /\ woken' = (woken \/ gate \in Armed)
  /\ UNCHANGED <<idle, active, gate>>

\* Shutdown: the accept loop breaks and the drain begins.
Shutdown ==
  /\ gate = "serving"
  /\ gate' = "arm"
  /\ UNCHANGED <<idle, active, notifying, woken>>

\* The worker's `if inflight > 0` skips the whole drain when nothing runs.
SkipDrain ==
  /\ gate = "arm"
  /\ active = {}
  /\ gate' = "drained"
  /\ UNCHANGED <<idle, active, notifying, woken>>

\* drained.notified() + enable(): a fresh future, not notified yet.
Arm ==
  /\ gate = "arm"
  /\ gate' = "check"
  /\ woken' = FALSE
  /\ UNCHANGED <<idle, active, notifying>>

\* inflight.load() == 0 leaves the loop; otherwise select! sleeps.
Check ==
  /\ gate = "check"
  /\ gate' = IF active = {} THEN "drained" ELSE "wait"
  /\ UNCHANGED <<idle, active, notifying, woken>>

\* The future was notified: the loop drops it and goes round again.
Wake ==
  /\ gate = "wait"
  /\ woken
  /\ gate' = "arm"
  /\ UNCHANGED <<idle, active, notifying, woken>>

\* The grace deadline abandons what still runs.
Deadline ==
  /\ gate = "wait"
  /\ gate' = "expired"
  /\ UNCHANGED <<idle, active, notifying, woken>>

DrainLoop == SkipDrain \/ Arm \/ Check \/ Wake

Next ==
  \/ \E t \in Tasks : Spawn(t) \/ Finish(t) \/ NotifyWaiters(t)
  \/ Shutdown
  \/ DrainLoop
  \/ Deadline

Spec == Init /\ [][Next]_vars

\* The runtime keeps polling ready tasks and the drain loop; a connection
\* told to shut down finishes.  Nothing is assumed of the deadline.
Fairness ==
  /\ \A t \in Tasks : WF_vars(Finish(t)) /\ WF_vars(NotifyWaiters(t))
  /\ WF_vars(DrainLoop)

FairSpec == Spec /\ Fairness

-----------------------------------------------------------------------------

\* The type of the state; a task is idle, active or past its decrement.
TypeOK ==
  /\ idle \subseteq Tasks
  /\ active \subseteq Tasks \ idle
  /\ notifying \subseteq Tasks \ (idle \cup active)
  /\ gate \in {"serving", "arm", "check", "wait", "drained", "expired"}
  /\ woken \in BOOLEAN

\* A drain loop that sleeps with no task left to finish has been notified, or
\* the notification is on its way: run_worker and run_acceptor never sit out
\* the grace period because they read `inflight` just before the last
\* fetch_sub.
NoLostWakeup ==
  gate = "wait" => woken \/ active # {} \/ notifying # {}

\* The drain reports "fully drained" only when no connection or dispatch is
\* running: the worker then waits for its completer, which would never end
\* while a task still held a `done_tx` clone.
DrainedIsEmpty ==
  gate = "drained" => inflight = 0

=============================================================================
