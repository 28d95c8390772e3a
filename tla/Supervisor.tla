----------------------------- MODULE Supervisor -----------------------------
(***************************************************************************)
(* app.run (python/fastapi_turbo/applications.py): the number of workers is *)
(* resolved; one worker runs in this process with its hooks registered at  *)
(* exit, several are forked and this process becomes the acceptor that     *)
(* signals, reaps and at last kills them.  The drain of one worker, the    *)
(* Watched one, is that of DrainGate; the others, and the server of run()'s *)
(* own process, stop whenever told.                                        *)
(***************************************************************************)
EXTENDS DrainGate

CONSTANTS
  Workers,   \* the worker processes asked for
  Watched,   \* the one whose connections are modelled
  Requests   \* what run() may be asked for: [workers, env, cpus, fork, main]

ASSUME WatchedAssumption == Watched \in Workers

None == 0    \* a worker count that is not given

VARIABLES
  solo,       \* does run() serve in this process?
  parent,     \* control state of _run_multiworker
  child,      \* control state of each worker
  lifespan,   \* "none", "in" or "out": the lifespans of each worker
  hooks,      \* likewise its startup and shutdown handlers
  listener,   \* is the acceptor's unix socket open?
  told,       \* workers the parent has sent SIGTERM
  live        \* _live: workers not reaped yet

procVars == <<solo, parent, child, lifespan, hooks, listener, told, live>>
supVars  == <<vars, procVars>>

Dead == {"exit0", "exit1", "killed"}

\* _resolve_worker_count: the environment wins over the argument, one per CPU
\* by default, and one where a fork is not possible or not safe.
resolve_worker_count(r) ==
  LET asked == IF r.env # None THEN r.env ELSE IF r.workers # None THEN r.workers ELSE r.cpus
  IN IF asked > 1 /\ r.fork /\ r.main THEN asked ELSE 1

SupInit ==
  /\ Init
  /\ solo \in {resolve_worker_count(r) = 1 : r \in Requests}
  /\ parent = IF solo THEN "solo" ELSE "fork"
  /\ child = [w \in Workers |-> IF solo /\ w = Watched THEN "lifespans" ELSE "none"]
  /\ lifespan = [w \in Workers |-> "none"]
  /\ hooks = [w \in Workers |-> "none"]
  /\ listener = FALSE
  /\ told = {}
  /\ live = {}

-----------------------------------------------------------------------------
(* The parent *)

\* The loop of forks; a fork that fails leaves the loop, which is outside of
\* the try statement.
Fork(w) ==
  /\ parent = "fork" /\ child[w] = "none"
  /\ child' = [child EXCEPT ![w] = "lifespans"]
  /\ live' = live \union {w}
  /\ parent' = IF live' = Workers THEN "bind" ELSE "fork"
  /\ UNCHANGED <<vars, solo, lifespan, hooks, listener, told>>

ForkFails ==
  /\ parent = "fork"
  /\ parent' = "raised"
  /\ UNCHANGED <<vars, solo, child, lifespan, hooks, listener, told, live>>

\* run_acceptor binds its sockets and serves, or raises.
RunAcceptor ==
  /\ parent = "bind"
  /\ \/ parent' = "accept" /\ listener' = TRUE
     \/ parent' = "term" /\ UNCHANGED listener
  /\ UNCHANGED <<vars, solo, child, lifespan, hooks, told, live>>

\* A signal stops the acceptor; its sockets close.
AcceptorReturns ==
  /\ parent = "accept"
  /\ parent' = "term"
  /\ listener' = FALSE
  /\ UNCHANGED <<vars, solo, child, lifespan, hooks, told, live>>

\* SIGTERM ends a worker that has not installed its handler yet: run_worker
\* does so when it first polls shutdown_signal(), after it has connected.
Unprotected == {"lifespans", "handlers", "connect"}

\* Mutant: a worker that is gone already stops the loop (ProcessLookupError).
SignalChildOnce(w) ==
  /\ parent = "term" /\ w \in live \ told
  /\ child[w] \notin Dead
  /\ told' = told \union {w}
  /\ child' = IF child[w] \in Unprotected THEN [child EXCEPT ![w] = "killed"] ELSE child
  /\ parent' = IF told' = live THEN "reap" ELSE "term"
  /\ UNCHANGED <<vars, solo, lifespan, hooks, listener, live>>

SignalChild(w) ==
  /\ parent = "term" /\ w \in live \ told
  /\ told' = told \union {w}
  /\ child' = IF child[w] \in Unprotected THEN [child EXCEPT ![w] = "killed"] ELSE child
  /\ parent' = IF told' = live THEN "reap" ELSE "term"
  /\ UNCHANGED <<vars, solo, lifespan, hooks, listener, live>>

\* waitpid(WNOHANG) finds a worker that is dead.
Reap(w) ==
  /\ parent = "reap" /\ w \in live /\ child[w] \in Dead
  /\ live' = live \ {w}
  /\ UNCHANGED <<vars, solo, parent, child, lifespan, hooks, listener, told>>

\* Mutant: past the deadline the stragglers are left alone.
ReapEndsLeaving ==
  /\ parent = "reap"
  /\ parent' = "returned"
  /\ UNCHANGED <<vars, solo, child, lifespan, hooks, listener, told, live>>

\* Nobody is left, or the deadline of the grace window and three seconds is past.
ReapEnds ==
  /\ parent = "reap"
  /\ parent' = IF live = {} THEN "returned" ELSE "kill"
  /\ UNCHANGED <<vars, solo, child, lifespan, hooks, listener, told, live>>

\* SIGKILL and a blocking waitpid for every straggler.
Kill(w) ==
  /\ parent = "kill" /\ w \in live
  /\ child' = IF child[w] \in Dead THEN child ELSE [child EXCEPT ![w] = "killed"]
  /\ live' = live \ {w}
  /\ parent' = IF live' = {} THEN "returned" ELSE "kill"
  /\ UNCHANGED <<vars, solo, lifespan, hooks, listener, told>>

Parent ==
  \/ RunAcceptor \/ ReapEnds
  \/ \E w \in Workers : Fork(w) \/ SignalChild(w) \/ Reap(w) \/ Kill(w)

-----------------------------------------------------------------------------
(* A worker *)

Go(w, s) == child' = [child EXCEPT ![w] = s]
workRest == <<vars, solo, parent, listener, told, live>>

StartLifespans(w) ==
  /\ child[w] = "lifespans"
  /\ \/ Go(w, "handlers") /\ lifespan' = [lifespan EXCEPT ![w] = "in"]
     \/ Go(w, "exit1") /\ UNCHANGED lifespan
  /\ UNCHANGED <<hooks, workRest>>

\* A startup handler that raises: run() registered the exit of the lifespans
\* with atexit already; a worker process leaves by os._exit.
StartHandlers(w) ==
  /\ child[w] = "handlers"
  /\ \/ Go(w, "connect") /\ hooks' = [hooks EXCEPT ![w] = "in"]
     \/ Go(w, IF solo THEN "stop_lifespans" ELSE "exit1") /\ UNCHANGED hooks
  /\ UNCHANGED <<lifespan, workRest>>

\* run_worker connects, retrying for five seconds; run_server just listens.
Connect(w) ==
  /\ child[w] = "connect"
  /\ \/ (solo \/ listener) /\ Go(w, "serve")
     \/ ~solo /\ ~listener /\ Go(w, "exit1")
  /\ UNCHANGED <<lifespan, hooks, workRest>>

\* A worker stops serving when it is signalled or its acceptor is gone.
Ending(w) == solo \/ w \in told \/ ~listener

\* Mutant: the hooks run as soon as the worker is told to stop.
StopServingEarly(w) ==
  /\ child[w] = "serve" /\ Ending(w)
  /\ Go(w, "stop_handlers")
  /\ UNCHANGED <<lifespan, hooks, workRest>>

\* run_worker (run_server) returns: after its drain.
StopServing(w) ==
  /\ child[w] = "serve"
  /\ IF w = Watched /\ ~solo THEN gate \in {"drained", "expired"} ELSE Ending(w)
  /\ Go(w, "stop_handlers")
  /\ UNCHANGED <<lifespan, hooks, workRest>>

\* The shutdown handlers run before the lifespans exit; one that raises costs
\* a worker process its lifespans' exit, but not run(), where each is an
\* atexit callback of its own.
StopHandlers(w) ==
  /\ child[w] = "stop_handlers"
  /\ hooks' = [hooks EXCEPT ![w] = "out"]
  /\ Go(w, "stop_lifespans") \/ (~solo /\ Go(w, "exit0"))
  /\ UNCHANGED <<lifespan, workRest>>

StopLifespans(w) ==
  /\ child[w] = "stop_lifespans"
  /\ lifespan' = [lifespan EXCEPT ![w] = "out"]
  /\ Go(w, "exit0")
  /\ UNCHANGED <<hooks, workRest>>

\* A worker process dies.
Crash(w) ==
  /\ ~solo /\ child[w] \notin Dead \union {"none"}
  /\ Go(w, "killed")
  /\ UNCHANGED <<lifespan, hooks, workRest>>

Worker(w) ==
  StartLifespans(w) \/ StartHandlers(w) \/ Connect(w) \/ StopServing(w)
    \/ StopHandlers(w) \/ StopLifespans(w)

\* The connections of the watched worker and its drain.
Serves == ~solo /\ child[Watched] = "serve" /\ UNCHANGED procVars
Connections == Serves /\ \E t \in Tasks : Spawn(t) \/ Finish(t) \/ NotifyWaiters(t)
BeginDrain == Serves /\ Ending(Watched) /\ Shutdown
Drain == Serves /\ DrainLoop
DrainDeadline == Serves /\ Deadline

SupNext ==
  \/ Parent \/ ForkFails \/ AcceptorReturns
  \/ \E w \in Workers : Worker(w) \/ Crash(w)
  \/ Connections \/ BeginDrain \/ Drain \/ DrainDeadline

\* The parent and the workers run on; a connection that is told to shut down
\* finishes.  No signal, crash or deadline is assumed.
SupFairness ==
  /\ WF_supVars(Parent)
  /\ \A w \in Workers : WF_supVars(Worker(w))
  /\ WF_supVars(BeginDrain \/ Drain)
  /\ \A t \in Tasks : WF_supVars(Serves /\ (Finish(t) \/ NotifyWaiters(t)))

SupSpec == SupInit /\ [][SupNext]_supVars /\ SupFairness

-----------------------------------------------------------------------------

\* "The parent reaps them (escalating to SIGKILL only past the grace window)
\* and returns cleanly" (applications.py, _run_multiworker): whatever the
\* workers were doing, none of them is running or unreaped when it returns.
ChildrenReaped ==
  parent = "returned" => live = {} /\ \A w \in Workers : child[w] \in Dead

\* The shutdown hooks of a worker begin only when none of its connections is
\* served any more, or the grace window has expired on them.
HooksAfterDrain ==
  hooks[Watched] = "out" => active = {} \/ gate = "expired"

\* A parent that is past its acceptor returns, whatever the workers do.
ShutdownEnds == parent = "term" ~> parent = "returned"

=============================================================================
