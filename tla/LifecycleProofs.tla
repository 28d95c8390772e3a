-------------------------- MODULE LifecycleProofs --------------------------
(***************************************************************************)
(* Proofs about how servers come up and go down:                           *)
(*   - the drain gate, for every set of tasks: the drain loop never sleeps *)
(*     past the last notification, and reports "drained" only when nothing *)
(*     runs;                                                               *)
(*   - app.run, for any set of workers and connections: it keeps what is   *)
(*     proved of the gate, the parent returns with every worker reaped,    *)
(*     and the shutdown hooks wait for the drain;                          *)
(*   - the application's lifespans and handlers, for any number of them,   *)
(*     whichever of them raise: a request is served by an app that is      *)
(*     completely up, a finished cycle leaves nothing behind, and whoever  *)
(*     asked for a shutdown learns that a hook raised.                     *)
(***************************************************************************)
EXTENDS Supervisor, Lifespan, TLAPS

-----------------------------------------------------------------------------
(* The drain gate *)

\* The control states after the accept loop has stopped spawning in which the
\* count was seen at zero: nothing can become active again.
EmptyOnceDrained == gate = "drained" => active = {}

GateInv == TypeOK /\ NoLostWakeup /\ EmptyOnceDrained

LEMMA GateInitInv == Init => GateInv
  BY Zenon DEF Init, GateInv, TypeOK, NoLostWakeup, EmptyOnceDrained

\* Every step keeps the types: a task moves from idle to active to past its
\* decrement and never back.
LEMMA TypeStep == TypeOK /\ [Next]_vars => TypeOK'
<1> SUFFICES ASSUME TypeOK, [Next]_vars PROVE TypeOK'
  OBVIOUS
<1> USE DEF TypeOK
<1>1. ASSUME NEW t \in Tasks, Spawn(t) PROVE TypeOK'
  BY <1>1 DEF Spawn
<1>2. ASSUME NEW t \in Tasks, Finish(t) PROVE TypeOK'
  BY <1>2 DEF Finish
<1>3. ASSUME NEW t \in Tasks, NotifyWaiters(t) PROVE TypeOK'
  BY <1>3 DEF NotifyWaiters, Armed
<1>4. CASE Shutdown
  BY <1>4 DEF Shutdown
<1>5. CASE DrainLoop
  BY <1>5, Zenon DEF DrainLoop, SkipDrain, Arm, Check, Wake
<1>6. CASE Deadline
  BY <1>6 DEF Deadline
<1>7. CASE UNCHANGED vars
  BY <1>7 DEF vars
<1> QED
  BY <1>1, <1>2, <1>3, <1>4, <1>5, <1>6, <1>7 DEF Next

\* A sleeping drain loop stays covered: the last decrement hands over to a
\* pending notify_waiters, and that one to the woken future.
LEMMA WakeupStep == GateInv /\ [Next]_vars => NoLostWakeup'
<1> SUFFICES ASSUME GateInv, [Next]_vars PROVE NoLostWakeup'
  OBVIOUS
<1> USE DEF GateInv, TypeOK, NoLostWakeup
<1>1. ASSUME NEW t \in Tasks, Spawn(t) PROVE NoLostWakeup'
  BY <1>1 DEF Spawn
<1>2. ASSUME NEW t \in Tasks, Finish(t) PROVE NoLostWakeup'
  <2>1. CASE active = {t}
    BY <1>2, <2>1 DEF Finish
  <2>2. CASE active # {t}
    BY <1>2, <2>2 DEF Finish
  <2> QED
    BY <2>1, <2>2
<1>3. ASSUME NEW t \in Tasks, NotifyWaiters(t) PROVE NoLostWakeup'
  BY <1>3, Zenon DEF NotifyWaiters, Armed
<1>4. CASE Shutdown
  BY <1>4 DEF Shutdown
<1>5. CASE DrainLoop
  BY <1>5 DEF DrainLoop, SkipDrain, Arm, Check, Wake
<1>6. CASE Deadline
  BY <1>6 DEF Deadline
<1>7. CASE UNCHANGED vars
  BY <1>7 DEF vars
<1> QED
  BY <1>1, <1>2, <1>3, <1>4, <1>5, <1>6, <1>7 DEF Next

\* Only a serving gate spawns, so "drained" stays empty.
LEMMA DrainedStep == GateInv /\ [Next]_vars => EmptyOnceDrained'
<1> SUFFICES ASSUME GateInv, [Next]_vars PROVE EmptyOnceDrained'
  OBVIOUS
<1> USE DEF GateInv, TypeOK, EmptyOnceDrained
<1>1. ASSUME NEW t \in Tasks, Spawn(t) PROVE EmptyOnceDrained'
  BY <1>1 DEF Spawn
<1>2. ASSUME NEW t \in Tasks, Finish(t) PROVE EmptyOnceDrained'
  BY <1>2 DEF Finish
<1>3. ASSUME NEW t \in Tasks, NotifyWaiters(t) PROVE EmptyOnceDrained'
  BY <1>3 DEF NotifyWaiters
<1>4. CASE Shutdown
  BY <1>4 DEF Shutdown
<1>5. CASE DrainLoop
  BY <1>5 DEF DrainLoop, SkipDrain, Arm, Check, Wake
<1>6. CASE Deadline
  BY <1>6 DEF Deadline
<1>7. CASE UNCHANGED vars
  BY <1>7 DEF vars
<1> QED
  BY <1>1, <1>2, <1>3, <1>4, <1>5, <1>6, <1>7 DEF Next

LEMMA GateInductive == Spec => []GateInv
<1>1. Init => GateInv
  BY GateInitInv
<1>2. GateInv /\ [Next]_vars => GateInv'
  BY TypeStep, WakeupStep, DrainedStep DEF GateInv
<1> QED
  BY <1>1, <1>2, PTL DEF Spec

\* The type invariant of the drain gate, for every set of tasks.
THEOREM GateTypeCorrect == Spec => []TypeOK
<1>1. GateInv => TypeOK
  BY DEF GateInv
<1> QED
  BY <1>1, GateInductive, PTL

\* However many connections finish in whatever order around the shutdown,
\* run_worker and run_acceptor do not sleep through the last notify_waiters.
THEOREM DrainWakes == Spec => []NoLostWakeup
<1>1. GateInv => NoLostWakeup
  BY DEF GateInv
<1> QED
  BY <1>1, GateInductive, PTL

LEMMA EmptyCardinality == Cardinality({}) = 0
<1> DEFINE Body(f) == [T \in SUBSET {} |-> IF T = {} THEN 0 ELSE 1 + f[T \ {CHOOSE x : x \in T}]]
           CS == CHOOSE f : f = Body(f)
           zero == [T \in SUBSET {} |-> 0]
<1>1. Body(zero) = zero
  OBVIOUS
<1> HIDE DEF Body
<1>2. CS = Body(CS)
  BY <1>1
<1>3. CS[{}] = 0
  <2> HIDE DEF CS
  <2> QED
    BY <1>2 DEF Body
<1> QED
  BY <1>3 DEF Cardinality, Body

\* "fully drained" means that `inflight` is zero.
THEOREM DrainSound == Spec => []DrainedIsEmpty
<1>1. GateInv => DrainedIsEmpty
  BY EmptyCardinality, Zenon DEF GateInv, EmptyOnceDrained, DrainedIsEmpty, inflight
<1> QED
  BY <1>1, GateInductive, PTL

-----------------------------------------------------------------------------
(* The supervisor *)

PastForks == {"bind", "accept", "term", "reap", "kill", "returned"}

\* Whoever is not in _live has not been forked or is dead; past the forks
\* everybody has been forked.
ReapInv ==
  /\ child = [w \in Workers |-> child[w]]
  /\ live \subseteq Workers
  /\ solo => parent = "solo"
  /\ ~solo => \A w \in Workers : w \in live \/ child[w] \in Dead \cup {"none"}
  /\ \A w \in live : child[w] # "none"
  /\ parent \in PastForks => \A w \in Workers : child[w] # "none"
  /\ parent = "returned" => live = {}

\* A worker that is past serving has a settled gate, and never serves again;
\* run() in its own process leaves the gate alone.
HookInv ==
  /\ child = [w \in Workers |-> child[w]]
  /\ hooks = [w \in Workers |-> hooks[w]]
  /\ solo => active = {}
  /\ ~solo /\ (child[Watched] \in {"stop_handlers", "stop_lifespans"} \/ hooks[Watched] = "out")
       => gate \in {"drained", "expired"}
  /\ hooks[Watched] = "out" => child[Watched] \in {"stop_lifespans"} \cup Dead

-----------------------------------------------------------------------------
(* The drain of the watched worker is a drain *)

LEMMA DrainStep == [SupNext]_supVars => [Next]_vars
<1> SUFFICES ASSUME [SupNext]_supVars PROVE [Next]_vars
  OBVIOUS
<1> USE DEF vars
<1>1. CASE RunAcceptor
  BY <1>1 DEF RunAcceptor
<1>2. CASE ReapEnds
  BY <1>2 DEF ReapEnds
<1>3. CASE ForkFails
  BY <1>3 DEF ForkFails
<1>4. CASE AcceptorReturns
  BY <1>4 DEF AcceptorReturns
<1>5. ASSUME NEW w \in Workers, Fork(w) PROVE [Next]_vars
  BY <1>5 DEF Fork
<1>6. ASSUME NEW w \in Workers, SignalChild(w) PROVE [Next]_vars
  BY <1>6 DEF SignalChild
<1>7. ASSUME NEW w \in Workers, Reap(w) PROVE [Next]_vars
  BY <1>7 DEF Reap
<1>8. ASSUME NEW w \in Workers, Kill(w) PROVE [Next]_vars
  BY <1>8 DEF Kill
<1>9. ASSUME NEW w \in Workers, StartLifespans(w) PROVE [Next]_vars
  BY <1>9 DEF StartLifespans, workRest
<1>10. ASSUME NEW w \in Workers, StartHandlers(w) PROVE [Next]_vars
  BY <1>10 DEF StartHandlers, workRest
<1>11. ASSUME NEW w \in Workers, Connect(w) PROVE [Next]_vars
  BY <1>11 DEF Connect, workRest
<1>12. ASSUME NEW w \in Workers, StopServing(w) PROVE [Next]_vars
  BY <1>12 DEF StopServing, workRest
<1>13. ASSUME NEW w \in Workers, StopHandlers(w) PROVE [Next]_vars
  BY <1>13 DEF StopHandlers, workRest
<1>14. ASSUME NEW w \in Workers, StopLifespans(w) PROVE [Next]_vars
  BY <1>14 DEF StopLifespans, workRest
<1>15. ASSUME NEW w \in Workers, Crash(w) PROVE [Next]_vars
  BY <1>15 DEF Crash, workRest
<1>16. CASE Connections
  BY <1>16 DEF Connections, Next
<1>17. CASE BeginDrain
  BY <1>17 DEF BeginDrain, Next
<1>18. CASE Drain
  BY <1>18 DEF Drain, Next
<1>19. CASE DrainDeadline
  BY <1>19 DEF DrainDeadline, Next
<1>20. CASE UNCHANGED supVars
  BY <1>20 DEF supVars, procVars
<1> QED
  BY <1>1, <1>2, <1>3, <1>4, <1>5, <1>6, <1>7, <1>8, <1>9, <1>10, <1>11, <1>12, <1>13,
     <1>14, <1>15, <1>16, <1>17, <1>18, <1>19, <1>20
     DEF SupNext, Parent, Worker

\* The supervised system implements DrainGate: whatever the processes do to
\* each other, the watched worker's drain takes only the steps of the gate.
THEOREM SupervisesDrain == SupSpec => Spec
<1>1. SupInit => Init
  BY DEF SupInit
<1> QED
  BY <1>1, DrainStep, PTL DEF SupSpec, Spec

LEMMA DrainInv == SupSpec => []GateInv
BY SupervisesDrain, GateInductive, PTL

\* NoLostWakeup of the drain loop under supervision: signals, crashes of other
\* workers and the parent's escalation never leave it asleep past the last
\* notification.
THEOREM SupervisedDrainWakes == SupSpec => []NoLostWakeup
BY SupervisesDrain, DrainWakes, PTL

-----------------------------------------------------------------------------
(* Reaping *)

LEMMA ReapStep == ReapInv /\ [SupNext]_supVars => ReapInv'
<1> SUFFICES ASSUME ReapInv, [SupNext]_supVars PROVE ReapInv'
  OBVIOUS
<1> USE DEF ReapInv, PastForks, Dead
<1>1. CASE RunAcceptor
  BY <1>1 DEF RunAcceptor
<1>2. CASE ReapEnds
  BY <1>2 DEF ReapEnds
<1>3. CASE ForkFails
  BY <1>3 DEF ForkFails
<1>4. CASE AcceptorReturns
  BY <1>4 DEF AcceptorReturns
<1>5. ASSUME NEW w \in Workers, Fork(w) PROVE ReapInv'
  BY <1>5 DEF Fork
<1>6. ASSUME NEW w \in Workers, SignalChild(w) PROVE ReapInv'
  BY <1>6 DEF SignalChild, Unprotected
<1>7. ASSUME NEW w \in Workers, Reap(w) PROVE ReapInv'
  BY <1>7 DEF Reap
<1>8. ASSUME NEW w \in Workers, Kill(w) PROVE ReapInv'
  BY <1>8 DEF Kill
<1>9. ASSUME NEW w \in Workers, StartLifespans(w) PROVE ReapInv'
  BY <1>9 DEF StartLifespans, Go, workRest
<1>10. ASSUME NEW w \in Workers, StartHandlers(w) PROVE ReapInv'
  BY <1>10 DEF StartHandlers, Go, workRest
<1>11. ASSUME NEW w \in Workers, Connect(w) PROVE ReapInv'
  BY <1>11 DEF Connect, Go, workRest
<1>12. ASSUME NEW w \in Workers, StopServing(w) PROVE ReapInv'
  BY <1>12 DEF StopServing, Go, workRest
<1>13. ASSUME NEW w \in Workers, StopHandlers(w) PROVE ReapInv'
  BY <1>13 DEF StopHandlers, Go, workRest
<1>14. ASSUME NEW w \in Workers, StopLifespans(w) PROVE ReapInv'
  BY <1>14 DEF StopLifespans, Go, workRest
<1>15. ASSUME NEW w \in Workers, Crash(w) PROVE ReapInv'
  BY <1>15 DEF Crash, Go, workRest
<1>16. CASE Connections
  BY <1>16 DEF Connections, Serves, procVars
<1>17. CASE BeginDrain
  BY <1>17 DEF BeginDrain, Serves, procVars
<1>18. CASE Drain
  BY <1>18 DEF Drain, Serves, procVars
<1>19. CASE DrainDeadline
  BY <1>19 DEF DrainDeadline, Serves, procVars
<1>20. CASE UNCHANGED supVars
  BY <1>20 DEF supVars, procVars
<1> QED
  BY Zenon, <1>1, <1>2, <1>3, <1>4, <1>5, <1>6, <1>7, <1>8, <1>9, <1>10, <1>11, <1>12, <1>13,
     <1>14, <1>15, <1>16, <1>17, <1>18, <1>19, <1>20
     DEF SupNext, Parent, Worker

\* ChildrenReaped for any set of workers: when _run_multiworker returns, every
\* worker has been forked, is dead and has been waited for, whether it exited,
\* crashed, was signalled before it had a handler or had to be killed.
THEOREM ParentReaps == SupSpec => []ChildrenReaped
<1>1. SupInit => ReapInv
  BY DEF SupInit, ReapInv, PastForks, Dead
<1>2. ReapInv => ChildrenReaped
  BY SMTT(30) DEF ReapInv, ChildrenReaped, PastForks, Dead
<1> QED
  BY <1>1, <1>2, ReapStep, PTL DEF SupSpec

-----------------------------------------------------------------------------
(* Hooks *)

LEMMA HookStep == HookInv /\ [SupNext]_supVars => HookInv'
<1> SUFFICES ASSUME HookInv, [SupNext]_supVars PROVE HookInv'
  OBVIOUS
<1> USE WatchedAssumption DEF HookInv, Dead, vars
<1>1. CASE RunAcceptor
  BY <1>1 DEF RunAcceptor
<1>2. CASE ReapEnds
  BY <1>2 DEF ReapEnds
<1>3. CASE ForkFails
  BY <1>3 DEF ForkFails
<1>4. CASE AcceptorReturns
  BY <1>4 DEF AcceptorReturns
<1>5. ASSUME NEW w \in Workers, Fork(w) PROVE HookInv'
  BY <1>5 DEF Fork
<1>6. ASSUME NEW w \in Workers, SignalChild(w) PROVE HookInv'
  BY <1>6 DEF SignalChild, Unprotected
<1>7. ASSUME NEW w \in Workers, Reap(w) PROVE HookInv'
  BY <1>7 DEF Reap
<1>8. ASSUME NEW w \in Workers, Kill(w) PROVE HookInv'
  BY <1>8 DEF Kill
<1>9. ASSUME NEW w \in Workers, StartLifespans(w) PROVE HookInv'
  BY <1>9 DEF StartLifespans, Go, workRest
<1>10. ASSUME NEW w \in Workers, StartHandlers(w) PROVE HookInv'
  BY <1>10 DEF StartHandlers, Go, workRest
<1>11. ASSUME NEW w \in Workers, Connect(w) PROVE HookInv'
  BY <1>11 DEF Connect, Go, workRest
<1>12. ASSUME NEW w \in Workers, StopServing(w) PROVE HookInv'
  BY <1>12 DEF StopServing, Go, workRest
<1>13. ASSUME NEW w \in Workers, StopHandlers(w) PROVE HookInv'
  BY <1>13 DEF StopHandlers, Go, workRest
<1>14. ASSUME NEW w \in Workers, StopLifespans(w) PROVE HookInv'
  BY <1>14 DEF StopLifespans, Go, workRest
<1>15. ASSUME NEW w \in Workers, Crash(w) PROVE HookInv'
  BY <1>15 DEF Crash, Go, workRest
<1>16. CASE Connections
  BY <1>16 DEF Connections, Serves, procVars
<1>17. CASE BeginDrain
  BY <1>17 DEF BeginDrain, Serves, procVars
<1>18. CASE Drain
  BY <1>18 DEF Drain, Serves, procVars
<1>19. CASE DrainDeadline
  BY <1>19 DEF DrainDeadline, Serves, procVars
<1>20. CASE UNCHANGED supVars
  BY <1>20 DEF supVars, procVars
<1> QED
  BY Zenon, <1>1, <1>2, <1>3, <1>4, <1>5, <1>6, <1>7, <1>8, <1>9, <1>10, <1>11, <1>12, <1>13,
     <1>14, <1>15, <1>16, <1>17, <1>18, <1>19, <1>20
     DEF SupNext, Parent, Worker

\* HooksAfterDrain for any set of workers and any finite set of connections:
\* no shutdown handler of a worker runs beside one of its connections, unless
\* the grace window expired on it.
THEOREM HooksWaitForDrain == SupSpec => []HooksAfterDrain
<1>1. SupInit => HookInv
  BY WatchedAssumption DEF SupInit, HookInv, Init, Dead
<1>2. HookInv /\ GateInv => HooksAfterDrain
  BY DEF HookInv, GateInv, EmptyOnceDrained, HooksAfterDrain
<1> QED
  BY <1>1, <1>2, HookStep, DrainInv, PTL DEF SupSpec

-----------------------------------------------------------------------------
(* The lifespans and handlers of an application *)

(* The control points of a call.                                          *)
Stages == {"none", "lifespan", "enter", "handlers", "start", "up", "serve", "raise", "stuck",
           "exit", "stop", "down"}

Calls == [kind : {"none", "startup", "request", "shutdown"}, stage : Stages, at : Nat,
          raised : BOOLEAN]

LifespanTypeOK ==
  /\ door \in Doors
  /\ lifespanCms \in BOOLEAN /\ installed \in BOOLEAN
  /\ up \in BOOLEAN /\ opened \in BOOLEAN
  /\ cm \in [Cms -> {"fresh", "entered", "exited"}]
  /\ startupState \in {"not_started", "running", "started", "failed"}
  /\ call \in Calls
  /\ failed \subseteq {"enter", "start", "stop"}
  /\ calls \in Nat

\* Which call may be in which stage, and how far its loops have come.
CallShape ==
  /\ call.stage = "none" <=> call.kind = "none"
  /\ call.stage = "none" => call = Idle
  /\ call.kind = "shutdown" <=> call.stage \in {"exit", "stop", "down"}
  /\ call.stage = "serve" => call.kind = "request"
  /\ call.raised => call.stage \in {"exit", "down"}
  /\ call.stage = "enter" => call.at \in Cms
  /\ call.stage = "exit" => call.at \in 0 .. NCms

\* The managers of this cycle have been built, if the app has any.
HasCms == lifespanCms \/ NCms = 0

\* _startup_state against the call in progress: only a call that runs the
\* handlers is "running", a failure stays for good, and an app that is open
\* or has its routes installed has started.
StateMachine ==
  /\ startupState = "running" <=> call.stage = "start"
  /\ startupState = "failed" <=> "start" \in failed
  /\ installed => startupState = "started"
  /\ call.stage \in {"up", "serve"} => startupState = "started"
  /\ opened /\ call.kind # "shutdown" => startupState = "started"
  /\ call.kind = "shutdown" => startupState \in {"started", "not_started"}
  /\ call.stage = "raise" => failed \cap {"enter", "start"} # {}

\* _lifespan_cms is set from the moment the managers are built until all of
\* them have been exited; a started app that is not shutting down has them.
CmsHeld ==
  /\ lifespanCms => NCms > 0
  /\ call.stage \in {"handlers", "start", "up", "serve"} => HasCms
  /\ call.stage = "enter" => lifespanCms
  /\ call.kind # "shutdown" /\ startupState = "started" => HasCms

\* Which managers are entered: a prefix while entering, a prefix while
\* exiting, all of them in between (unless an __aenter__ raised), none
\* outside.
CmsProgress ==
  /\ ~lifespanCms => \A i \in Cms : cm[i] # "entered"
  /\ call.stage = "enter" => \A i \in Cms : i >= call.at => cm[i] # "entered"
  /\ call.stage = "exit" => \A i \in Cms : i > call.at => cm[i] = "exited"
  /\ lifespanCms /\ "enter" \notin failed =>
       \A i \in Cms :
         \/ cm[i] = "entered"
         \/ call.stage = "enter" /\ i >= call.at
         \/ call.stage = "exit" /\ i > call.at

\* The order of a shutdown: the dispatcher exits the managers first, the
\* others run the handlers first and skip the managers when one raises.
ShutdownOrder ==
  /\ call.stage = "exit" => lifespanCms
  /\ call.kind = "shutdown" /\ door = "asgi" =>
       /\ call.stage \in {"stop", "down"} => ~lifespanCms
       /\ call.stage = "stop" => ~call.raised
       /\ call.stage = "down" => call.raised \/ startupState = "not_started"
  /\ call.kind = "shutdown" /\ door # "asgi" =>
       /\ call.stage = "stop" => startupState = "started" /\ HasCms
       /\ call.stage = "exit" => startupState = "not_started"
       /\ call.stage = "down" =>
            \/ startupState = "not_started" /\ ~lifespanCms
            \/ startupState = "started" /\ HasCms /\ "stop" \in failed

\* What may be left behind: an app with anything of startup in place is up,
\* is on its way up, is shutting down, or one of the excused hooks raised.
Excused ==
  \/ failed \cap {"enter", "start"} # {}
  \/ door # "asgi" /\ "stop" \in failed

NothingLeft ==
  call.kind # "shutdown" /\ ~up /\ ~Excused =>
    /\ startupState = "started" => call.stage = "up"
    /\ lifespanCms => call.stage \in {"enter", "handlers", "start", "up"}

\* The inductive invariant.  Neither property is inductive by itself: what a
\* request finds depends on how the last shutdown was left, and that on the
\* order of its two halves, which differs from door to door.
LifespanInv ==
  /\ LifespanTypeOK /\ CallShape /\ StateMachine /\ CmsHeld /\ CmsProgress
  /\ ShutdownOrder /\ NothingLeft

LEMMA LifespanInitInv == LifespanInit => LifespanInv
<1> SUFFICES ASSUME LifespanInit PROVE LifespanInv
  OBVIOUS
<1> USE LifespanAssumption DEF LifespanInit, Doors, Idle, Cms
<1>1. LifespanTypeOK
  BY Zenon DEF LifespanTypeOK, Calls, Stages
<1>2. CallShape /\ StateMachine
  BY DEF CallShape, StateMachine
<1>3. CmsHeld /\ CmsProgress /\ ShutdownOrder /\ NothingLeft
  BY DEF CmsHeld, HasCms, CmsProgress, ShutdownOrder, NothingLeft, Excused
<1> QED
  BY <1>1, <1>2, <1>3 DEF LifespanInv

\* What Stage does to the fields of the call.
LEMMA StageFields ==
  ASSUME call \in Calls, NEW s \in Stages, NEW i \in Nat, Stage(s, i)
  PROVE  /\ call' \in Calls
         /\ call'.kind = call.kind /\ call'.stage = s /\ call'.at = i
         /\ call'.raised = call.raised /\ call.raised \in BOOLEAN
  BY Zenon DEF Stage, Calls, Stages

LEMMA IdleFields ==
  Idle \in Calls /\ Idle.kind = "none" /\ Idle.stage = "none" /\ ~Idle.raised
  BY DEF Idle, Calls, Stages

LEMMA LifespanStep == LifespanInv /\ [LifespanNext]_lifespanVars => LifespanInv'
<1> SUFFICES ASSUME LifespanInv, [LifespanNext]_lifespanVars PROVE LifespanInv'
  OBVIOUS
<1> USE LifespanAssumption DEF LifespanInv, LifespanTypeOK, Doors, Cms,
     CallShape, StateMachine, CmsHeld, HasCms, CmsProgress, ShutdownOrder, NothingLeft, Excused
<1>1. CASE BeginStartup
  BY <1>1 DEF BeginStartup, Begin, Idle, Calls, Stages
<1>2. CASE BeginRequest
  BY <1>2, SMTT(30) DEF BeginRequest, Begin, Idle, Calls, Stages
<1>3. CASE BeginShutdown
  <2>1. CASE door = "asgi" /\ lifespanCms
    <3>1. Begin("shutdown", "exit", NCms)
      BY <1>3, <2>1 DEF BeginShutdown
    <3> QED
      BY <1>3, <2>1, <3>1 DEF BeginShutdown, Begin, Idle, Calls, Stages
  <2>2. CASE ~(door = "asgi" /\ lifespanCms)
    <3>1. Begin("shutdown", "stop", 1)
      BY <1>3, <2>2 DEF BeginShutdown
    <3> QED
      BY <1>3, <2>2, <3>1 DEF BeginShutdown, Begin, Idle, Calls, Stages
  <2> QED
    BY <2>1, <2>2
<1>4. CASE BeginChain
  BY <1>4 DEF BeginChain, Begin, Idle, Calls, Stages
<1>5. CASE MiddlewareGone
  BY <1>5, StageFields DEF MiddlewareGone, Stages
<1>6. CASE BeginServed
  BY <1>6 DEF BeginServed, Begin, Idle, Calls, Stages
<1>7. CASE BeginChainStop
  BY <1>7, SMTT(30) DEF BeginChainStop, Begin, Idle, Calls, Stages
<1>8. CASE RunLifespanStartup
  <2>1. CASE HasCms
    <3>1. Stage("handlers", 0) /\ UNCHANGED <<lifespanCms, cm>>
      BY <1>8, <2>1 DEF RunLifespanStartup
    <3> QED
      BY <1>8, <2>1, <3>1, StageFields DEF RunLifespanStartup, Stages
  <2>2. CASE ~HasCms
    <3>1. Stage("enter", 1) /\ lifespanCms' = TRUE /\ cm' = [i \in Cms |-> "fresh"]
      BY <1>8, <2>2, SMTT(30) DEF RunLifespanStartup
    <3> QED
      BY <1>8, <2>2, <3>1, StageFields DEF RunLifespanStartup, Stages
  <2> QED
    BY <2>1, <2>2
<1>9. CASE EnterCm
  <2>1. CASE call.at < NCms
    <3>1. Stage("enter", call.at + 1)
      BY <1>9, <2>1 DEF EnterCm
    <3> QED
      BY <1>9, <2>1, <3>1, StageFields DEF EnterCm, Stages
  <2>2. CASE ~(call.at < NCms)
    <3>1. Stage("handlers", 0)
      BY <1>9, <2>2 DEF EnterCm
    <3> QED
      BY <1>9, <2>2, <3>1, StageFields DEF EnterCm, Stages
  <2> QED
    BY <2>1, <2>2
<1>10. CASE EnterCmFails
  BY <1>10, StageFields, SMTT(30) DEF EnterCmFails, Stages
<1>11. CASE RunStartupHandlers
  <2>1. CASE startupState = "started"
    <3>1. Stage("up", 0) /\ UNCHANGED startupState
      BY <1>11, <2>1 DEF RunStartupHandlers
    <3> QED
      BY <1>11, <2>1, <3>1, StageFields DEF RunStartupHandlers, Stages
  <2>2. CASE startupState = "not_started"
    <3>1. Stage("start", 1) /\ startupState' = "running"
      BY <1>11, <2>2 DEF RunStartupHandlers
    <3> QED
      BY <1>11, <2>2, <3>1, StageFields DEF RunStartupHandlers, Stages
  <2>3. CASE startupState \notin {"started", "not_started"}
    <3>1. Stage("raise", 0) /\ UNCHANGED startupState
      BY <1>11, <2>3, SMTT(30) DEF RunStartupHandlers
    <3> QED
      BY <1>11, <2>3, <3>1, StageFields DEF RunStartupHandlers, Stages
  <2> QED
    BY <2>1, <2>2, <2>3, Zenon
<1>12. CASE StartHandler
  <2>1. CASE call.at <= NStartup
    <3>1. Stage("start", call.at + 1) /\ UNCHANGED startupState
      BY <1>12, <2>1 DEF StartHandler
    <3>2. call.at + 1 \in Nat
      BY DEF Calls
    <3>3. /\ call' \in Calls /\ call.raised \in BOOLEAN
          /\ call'.kind = call.kind /\ call'.stage = "start" /\ call'.at = call.at + 1
          /\ call'.raised = call.raised
      BY <3>1, <3>2, StageFields, SMTT(30) DEF Stages
    <3> QED
      BY <1>12, <2>1, <3>1, <3>3 DEF StartHandler
  <2>2. CASE ~(call.at <= NStartup)
    <3>1. Stage("up", 0) /\ startupState' = "started"
      BY <1>12, <2>2 DEF StartHandler
    <3> QED
      BY <1>12, <2>2, <3>1, StageFields DEF StartHandler, Stages
  <2> QED
    BY <2>1, <2>2
<1>13. CASE StartHandlerFails
  BY <1>13, StageFields, SMTT(30) DEF StartHandlerFails, Stages
<1>14. CASE StartupComplete
  <2>1. CASE call.kind = "request"
    <3>1. Stage("serve", 0) /\ installed' = TRUE /\ UNCHANGED opened
      BY <1>14, <2>1 DEF StartupComplete
    <3> QED
      BY <1>14, <2>1, <3>1, StageFields DEF StartupComplete, Stages
  <2>2. CASE call.kind # "request"
    <3>1. call' = Idle /\ opened' = TRUE /\ UNCHANGED installed
      BY <1>14, <2>2 DEF StartupComplete
    <3> QED
      BY <1>14, <2>2, <3>1, IdleFields DEF StartupComplete, Stages
  <2> QED
    BY <2>1, <2>2, ZenonT(40)
<1>15. CASE Serve
  BY <1>15, IdleFields DEF Serve
<1>16. CASE Raise
  BY <1>16, IdleFields, SMTT(30) DEF Raise
<1>17. CASE ExitCm
  <2>1. PICK raises \in BOOLEAN :
          /\ cm' = [cm EXCEPT ![call.at] = "exited"]
          /\ call' = [call EXCEPT !.at = @ - 1, !.raised = @ \/ raises]
    BY <1>17, Zenon DEF ExitCm
  <2>2. call.stage = "exit" /\ call.at \in Cms /\ call.at - 1 \in Nat
    BY <1>17 DEF ExitCm, Calls
  <2>3. /\ call' \in Calls /\ call'.kind = call.kind /\ call'.stage = call.stage
        /\ call'.at = call.at - 1 /\ call.stage = "exit" /\ call.at \in Cms
    <3> HIDE DEF LifespanInv, CallShape, StateMachine, CmsHeld, CmsProgress, ShutdownOrder, NothingLeft
    <3>1. call \in Calls
      BY DEF LifespanInv
    <3> QED
      BY <3>1, <2>1, <2>2, Zenon DEF Calls
  <2>4. CmsProgress'
    BY <1>17, <2>1, <2>3 DEF ExitCm
  <2>5. LifespanTypeOK' /\ CallShape' /\ StateMachine'
    BY <1>17, <2>1, <2>3 DEF ExitCm
  <2>6. CmsHeld' /\ ShutdownOrder' /\ NothingLeft'
    BY <1>17, <2>1, <2>3, SMTT(30) DEF ExitCm
  <2> QED
    BY <2>4, <2>5, <2>6
<1>18. CASE ExitedAll
  <2>1. CASE door = "asgi" /\ ~call.raised
    <3>1. Stage("stop", 1)
      BY <1>18, <2>1 DEF ExitedAll
    <3>2. 1 \in Nat
      BY DEF Calls
    <3>3. /\ call' \in Calls /\ call.raised \in BOOLEAN
          /\ call'.kind = call.kind /\ call'.stage = "stop" /\ call'.at = 1
          /\ call'.raised = call.raised
      BY <3>1, <3>2, StageFields DEF Stages
    <3>4. CmsProgress'
      BY <1>18, <2>1, <3>1, <3>3 DEF ExitedAll
    <3>5. LifespanTypeOK' /\ CallShape' /\ StateMachine'
      BY <1>18, <2>1, <3>1, <3>3, Zenon DEF ExitedAll
    <3>6. CmsHeld' /\ ShutdownOrder' /\ NothingLeft'
      BY <1>18, <2>1, <3>1, <3>3 DEF ExitedAll
    <3> QED
      BY <3>4, <3>5, <3>6
  <2>2. CASE ~(door = "asgi" /\ ~call.raised)
    <3>1. Stage("down", 0)
      BY <1>18, <2>2 DEF ExitedAll
    <3>2. 0 \in Nat
      BY DEF Calls
    <3>3. /\ call' \in Calls /\ call.raised \in BOOLEAN
          /\ call'.kind = call.kind /\ call'.stage = "down" /\ call'.at = 0
          /\ call'.raised = call.raised
      BY <3>1, <3>2, StageFields DEF Stages
    <3>4. CmsProgress'
      BY <1>18, <2>2, <3>1, <3>3 DEF ExitedAll
    <3>5. LifespanTypeOK' /\ CallShape' /\ StateMachine'
      BY <1>18, <2>2, <3>1, <3>3, Zenon DEF ExitedAll
    <3>6. CmsHeld' /\ ShutdownOrder' /\ NothingLeft'
      BY <1>18, <2>2, <3>1, <3>3, SMTT(30) DEF ExitedAll
    <3> QED
      BY <3>4, <3>5, <3>6
  <2> QED
    BY <2>1, <2>2, ZenonT(40)
<1>19. CASE StopHandler
  <2>1. CASE call.at <= NShutdown
    <3>1. Stage("stop", call.at + 1) /\ UNCHANGED <<startupState, installed>>
      BY <1>19, <2>1 DEF StopHandler
    <3>2. call.at + 1 \in Nat
      BY DEF Calls
    <3>3. /\ call' \in Calls /\ call.raised \in BOOLEAN
          /\ call'.kind = call.kind /\ call'.stage = "stop" /\ call'.at = call.at + 1
          /\ call'.raised = call.raised
      BY <3>1, <3>2, StageFields, SMTT(30) DEF Stages
    <3> QED
      BY <1>19, <2>1, <3>1, <3>3 DEF StopHandler
  <2>2. CASE ~(call.at <= NShutdown) /\ door # "asgi" /\ lifespanCms
    <3>1. Stage("exit", NCms) /\ startupState' = "not_started" /\ installed' = FALSE
      BY <1>19, <2>2 DEF StopHandler
    <3>2. NCms \in Nat
      BY DEF Calls
    <3>3. /\ call' \in Calls /\ call.raised \in BOOLEAN
          /\ call'.kind = call.kind /\ call'.stage = "exit" /\ call'.at = NCms
          /\ call'.raised = call.raised
      BY <3>1, <3>2, StageFields DEF Stages
    <3>4. CmsProgress'
      BY <1>19, <2>2, <3>1, <3>3 DEF StopHandler
    <3>5. CallShape'
      BY <1>19, <2>2, <3>1, <3>3 DEF StopHandler
    <3>6. LifespanTypeOK' /\ StateMachine'
      BY <1>19, <2>2, <3>1, <3>3, ZenonT(40) DEF StopHandler
    <3>7. CmsHeld' /\ ShutdownOrder' /\ NothingLeft'
      BY <1>19, <2>2, <3>1, <3>3 DEF StopHandler
    <3> QED
      BY <3>4, <3>5, <3>6, <3>7
  <2>3. CASE ~(call.at <= NShutdown) /\ ~(door # "asgi" /\ lifespanCms)
    <3>1. Stage("down", 0) /\ startupState' = "not_started" /\ installed' = FALSE
      BY <1>19, <2>3 DEF StopHandler
    <3> QED
      BY <1>19, <2>3, <3>1, StageFields, ZenonT(40) DEF StopHandler, Stages
  <2> QED
    BY <2>1, <2>2, <2>3, ZenonT(40)
<1>20. CASE StopHandlerFails
  BY <1>20, ZenonT(40) DEF StopHandlerFails, Calls, Stages, Idle
<1>21. CASE ShutdownDone
  BY <1>21, IdleFields, Zenon DEF ShutdownDone
<1>22. CASE UNCHANGED lifespanVars
  BY <1>22 DEF lifespanVars
<1> QED
  BY ZenonT(40), <1>1, <1>2, <1>3, <1>4, <1>5, <1>6, <1>7, <1>8, <1>9, <1>10, <1>11, <1>12, <1>13,
     <1>14, <1>15, <1>16, <1>17, <1>18, <1>19, <1>20, <1>21, <1>22, Zenon DEF LifespanNext

LEMMA LifespanInductive == LifespanSpec => []LifespanInv
  BY LifespanInitInv, LifespanStep, PTL DEF LifespanSpec

\* ServesOnlyWhenUp for any number of lifespans and handlers, whichever hooks
\* raise, in every cycle of a reused app: __call__ never hands a request to
\* the router of an app that is not completely up.
THEOREM ServesWhenUp == LifespanSpec => []ServesOnlyWhenUp
<1>1. LifespanInv => ServesOnlyWhenUp
  BY LifespanAssumption DEF LifespanInv, LifespanTypeOK, StateMachine, CmsHeld, HasCms,
     CmsProgress, ServesOnlyWhenUp, Cms
<1> QED
  BY <1>1, LifespanInductive, PTL

\* RestartsClean for any number of lifespans and handlers: after a shutdown
\* that was not cut short nothing of the last cycle is left for the next one.
THEOREM RestartIsClean == LifespanSpec => []RestartsClean
<1>1. LifespanInv => RestartsClean
  BY IdleFields DEF LifespanInv, LifespanTypeOK, StateMachine, CmsProgress, NothingLeft,
     Excused, RestartsClean
<1> QED
  BY <1>1, LifespanInductive, PTL

\* LifespansUnwound for any number of lifespans: managers are built only while
\* none is entered, and the loop of _run_lifespan_shutdown leaves them from the
\* last to the first, whichever of them raise.
THEOREM UnwindsInReverse == LifespanSpec => LifespansUnwound
<1> DEFINE Unwinds == \A i \in Cms : cm[i] = "entered" /\ cm'[i] # "entered" =>
                        /\ cm'[i] = "exited"
                        /\ \A j \in Cms : j > i => cm[j] = "exited"
<1>1. LifespanInv /\ [LifespanNext]_lifespanVars => [Unwinds]_lifespanVars
  <2> SUFFICES ASSUME LifespanInv, LifespanNext, NEW i \in Cms,
                      cm[i] = "entered", cm'[i] # "entered"
               PROVE  cm'[i] = "exited" /\ \A j \in Cms : j > i => cm[j] = "exited"
    BY DEF lifespanVars
  <2> USE LifespanAssumption DEF LifespanInv, LifespanTypeOK, Cms
  <2>1. CASE ExitCm
    BY <2>1 DEF ExitCm, CallShape, CmsProgress, Cms
  <2>2. CASE RunLifespanStartup
    BY <2>2 DEF RunLifespanStartup, CmsProgress
  <2>3. CASE EnterCm
    BY <2>3 DEF EnterCm, CallShape
  <2>4. CASE EnterCmFails
    BY <2>4 DEF EnterCmFails, CallShape, CmsProgress
  <2> QED
    BY <2>1, <2>2, <2>3, <2>4, Zenon DEF LifespanNext, BeginStartup, BeginRequest, BeginShutdown, BeginChain,
       MiddlewareGone, BeginServed, BeginChainStop, RunStartupHandlers, StartHandler,
       StartHandlerFails, StartupComplete, Serve, Raise, ExitedAll, StopHandler,
       StopHandlerFails, ShutdownDone
<1> QED
  BY <1>1, LifespanInductive, PTL DEF LifespanSpec, LifespansUnwound

=============================================================================
