------------------------------ MODULE Lifespan ------------------------------
(***************************************************************************)
(* The application lifecycle of python/fastapi_turbo/applications.py:      *)
(* entering and exiting the lifespan context managers, the startup and     *)
(* shutdown handlers with their `_startup_state` machine, and the callers  *)
(* that drive them: the ASGI lifespan dispatcher, the first HTTP request   *)
(* of an in-process app, TestClient.__enter__/__exit__, and the lifespan   *)
(* task that run() sends through the raw ASGI middlewares.                 *)
(*                                                                         *)
(* One call is in progress at a time (each runs it to its end on its own   *)
(* thread); inside a call every hook and every middleware may raise.       *)
(***************************************************************************)
EXTENDS Naturals, Sequences

CONSTANTS
  NCms,          \* number of lifespan context managers (routers and app)
  NStartup,      \* number of startup handlers
  NShutdown,     \* number of shutdown handlers
  MayFail,       \* the kinds of hook that may raise
  MaxCalls       \* bound on the number of calls

ASSUME LifespanAssumption ==
  /\ NCms \in Nat /\ NStartup \in Nat /\ NShutdown \in Nat /\ MaxCalls \in Nat
  /\ MayFail \subseteq {"enter", "start", "exit", "stop", "middleware"}

VARIABLES
  door,          \* who drives startup and shutdown: "asgi", "testclient", "chain"
  lifespanCms,   \* is `_lifespan_cms` set?
  cm,            \* progress of each context manager of `_lifespan_cms`
  startupState,  \* `_startup_state`
  installed,     \* `_in_process_dynamic_routes_installed`
  call,          \* the call in progress: its kind, its stage, the next hook,
                 \* and the exceptions it has collected
  up,            \* did startup succeed, with no shutdown since?
  opened,        \* has the door reported startup, and not shut down since?
  failed,        \* the kinds of hook of this app that have raised
  calls          \* calls made so far

lifespanVars == <<door, lifespanCms, cm, startupState, installed, call, up, opened,
                  failed, calls>>

Doors == {"asgi", "testclient", "chain"}

Cms == 1 .. NCms

Idle == [kind |-> "none", stage |-> "none", at |-> 0, raised |-> FALSE]

LifespanInit ==
  /\ door \in Doors
  /\ lifespanCms = FALSE
  /\ cm = [i \in Cms |-> "fresh"]
  /\ startupState = "not_started"
  /\ installed = FALSE
  /\ call = Idle
  /\ up = FALSE
  /\ opened = FALSE
  /\ failed = {}
  /\ calls = 0

Stage(stage, at) == call' = [call EXCEPT !.stage = stage, !.at = at]

Begin(kind, stage, at) ==
  /\ call = Idle
  /\ calls < MaxCalls
  /\ calls' = calls + 1
  /\ call' = [kind |-> kind, stage |-> stage, at |-> at, raised |-> FALSE]

-----------------------------------------------------------------------------
(* The callers. *)

\* lifespan.startup of the ASGI dispatcher, or TestClient.__enter__.
BeginStartup ==
  /\ ~opened /\ door # "chain"
  /\ Begin("startup", "lifespan", 0)
  /\ UNCHANGED <<door, lifespanCms, cm, startupState, installed, up, opened, failed>>

\* __call__ with an http scope: a failed app is refused, an app whose routes
\* are installed serves, any other app is brought up first.
BeginRequest ==
  /\ Begin("request",
           CASE startupState = "failed" -> "raise"
             [] startupState # "failed" /\ installed -> "serve"
             [] OTHER -> "lifespan", 0)
  /\ door # "chain"
  /\ UNCHANGED <<door, lifespanCms, cm, startupState, installed, up, opened, failed>>

\* run() serves once its chain has reported startup complete.
BeginServed ==
  /\ door = "chain" /\ opened
  /\ Begin("request", "serve", 0)
  /\ UNCHANGED <<door, lifespanCms, cm, startupState, installed, up, opened, failed>>

\* _start_lifespan_mw_chain: the composed middlewares run as a task on the
\* worker loop, which is sent lifespan.startup; the caller waits for the
\* inner application to send complete or failed.
BeginChain ==
  /\ door = "chain" /\ ~opened
  /\ Begin("startup", "lifespan", 0)
  /\ UNCHANGED <<door, lifespanCms, cm, startupState, installed, up, opened, failed>>

\* A middleware of the chain raises or returns before the inner application
\* has run: nothing sets send_done, and _kickoff waits for it for ever.
MiddlewareGone ==
  /\ door = "chain" /\ "middleware" \in MayFail
  /\ call.kind = "startup" /\ call.stage = "lifespan"
  /\ Stage("stuck", 0)
  /\ UNCHANGED <<door, lifespanCms, cm, startupState, installed, up, opened, failed, calls>>

\* lifespan.shutdown: the ASGI dispatcher unwinds the lifespans first, the
\* TestClient runs the shutdown handlers first.
BeginShutdown ==
  /\ opened /\ door # "chain"
  /\ IF door = "asgi"
       THEN Begin("shutdown", IF lifespanCms THEN "exit" ELSE "stop",
                  IF lifespanCms THEN NCms ELSE 1)
       ELSE Begin("shutdown", "stop", 1)
  /\ UNCHANGED <<door, lifespanCms, cm, startupState, installed, up, opened, failed>>

\* _stop_lifespan_mw_chain sends the task lifespan.shutdown: its inner
\* application runs the shutdown handlers, then unwinds the lifespans.
BeginChainStop ==
  /\ door = "chain" /\ opened
  /\ Begin("shutdown", "stop", 1)
  /\ UNCHANGED <<door, lifespanCms, cm, startupState, installed, up, opened, failed>>

-----------------------------------------------------------------------------
(* _run_lifespan_startup *)

\* Already set: return.  No lifespans: return.  Otherwise build the managers,
\* publish them in _lifespan_cms, and enter them in order.
RunLifespanStartup ==
  /\ call.stage = "lifespan"
  /\ IF lifespanCms \/ NCms = 0
       THEN /\ Stage("handlers", 0)
            /\ UNCHANGED <<lifespanCms, cm>>
       ELSE /\ Stage("enter", 1)
            /\ lifespanCms' = TRUE
            /\ cm' = [i \in Cms |-> "fresh"]
  /\ UNCHANGED <<door, startupState, installed, up, opened, failed, calls>>

EnterCm ==
  /\ call.stage = "enter"
  /\ cm' = [cm EXCEPT ![call.at] = "entered"]
  /\ IF call.at < NCms THEN Stage("enter", call.at + 1) ELSE Stage("handlers", 0)
  /\ UNCHANGED <<door, lifespanCms, startupState, installed, up, opened, failed, calls>>

\* __aenter__ raises: the exception leaves the loop and the call; the
\* managers stay in _lifespan_cms.
EnterCmFails ==
  /\ "enter" \in MayFail
  /\ call.stage = "enter"
  /\ cm' = [cm EXCEPT ![call.at] = "exited"]
  /\ Stage("raise", 0)
  /\ failed' = failed \cup {"enter"}
  /\ UNCHANGED <<door, lifespanCms, startupState, installed, up, opened, calls>>

-----------------------------------------------------------------------------
(* _run_startup_handlers *)

\* The state machine decides: started returns, failed raises, not_started
\* runs the handlers ("running" needs a handler that calls back).
RunStartupHandlers ==
  /\ call.stage = "handlers"
  /\ CASE startupState = "started" ->
            Stage("up", 0) /\ UNCHANGED startupState
       [] startupState = "not_started" ->
            Stage("start", 1) /\ startupState' = "running"
       [] OTHER ->
            Stage("raise", 0) /\ UNCHANGED startupState
  /\ UNCHANGED <<door, lifespanCms, cm, installed, up, opened, failed, calls>>

\* One startup handler runs; after the last the state is "started".
StartHandler ==
  /\ call.stage = "start"
  /\ IF call.at <= NStartup
       THEN Stage("start", call.at + 1) /\ UNCHANGED startupState
       ELSE Stage("up", 0) /\ startupState' = "started"
  /\ UNCHANGED <<door, lifespanCms, cm, installed, up, opened, failed, calls>>

\* Mutant: the failure is not recorded in the state machine.
StartHandlerFailsUnrecorded ==
  /\ "start" \in MayFail
  /\ call.stage = "start" /\ call.at <= NStartup
  /\ startupState' = "not_started"
  /\ failed' = failed \cup {"start"}
  /\ Stage("raise", 0)
  /\ UNCHANGED <<door, lifespanCms, cm, installed, up, opened, calls>>

StartHandlerFails ==
  /\ "start" \in MayFail
  /\ call.stage = "start" /\ call.at <= NStartup
  /\ startupState' = "failed"
  /\ failed' = failed \cup {"start"}
  /\ Stage("raise", 0)
  /\ UNCHANGED <<door, lifespanCms, cm, installed, up, opened, calls>>

\* Startup succeeded: the dispatcher reports complete, __enter__ returns, and
\* a request goes on to install the dynamic routes and to serve.
StartupComplete ==
  /\ call.stage = "up"
  /\ up' = TRUE
  /\ IF call.kind = "request"
       THEN Stage("serve", 0) /\ installed' = TRUE /\ UNCHANGED opened
       ELSE call' = Idle /\ opened' = TRUE /\ UNCHANGED installed
  /\ UNCHANGED <<door, lifespanCms, cm, startupState, failed, calls>>

\* The request is handed to the router and answered.
Serve ==
  /\ call.stage = "serve"
  /\ call' = Idle
  /\ UNCHANGED <<door, lifespanCms, cm, startupState, installed, up, opened, failed, calls>>

\* The exception reaches the caller of startup or of the request.
Raise ==
  /\ call.stage = "raise"
  /\ call' = Idle
  /\ UNCHANGED <<door, lifespanCms, cm, startupState, installed, up, opened, failed, calls>>

-----------------------------------------------------------------------------
(* _run_lifespan_shutdown and _run_shutdown_handlers *)

\* Mutant: the first exception ends the loop.
ExitCmStops ==
  /\ call.stage = "exit" /\ call.at > 0
  /\ \E raises \in BOOLEAN :
       /\ raises => "exit" \in MayFail \/ cm[call.at] # "entered"
       /\ cm' = [cm EXCEPT ![call.at] = "exited"]
       /\ call' = [call EXCEPT !.at = IF raises THEN 0 ELSE @ - 1, !.raised = @ \/ raises]
  /\ UNCHANGED <<door, lifespanCms, startupState, installed, up, opened, failed, calls>>

\* One __aexit__, in reverse order; an exception is kept and the loop goes on.
ExitCm ==
  /\ call.stage = "exit" /\ call.at > 0
  /\ \E raises \in BOOLEAN :
       /\ raises => "exit" \in MayFail \/ cm[call.at] # "entered"
       /\ cm' = [cm EXCEPT ![call.at] = "exited"]
       /\ call' = [call EXCEPT !.at = @ - 1, !.raised = @ \/ raises]
  /\ UNCHANGED <<door, lifespanCms, startupState, installed, up, opened, failed, calls>>

\* Every manager has been exited: _lifespan_cms is cleared, and only then the
\* first exception is raised.
ExitedAll ==
  /\ call.stage = "exit" /\ call.at = 0
  /\ lifespanCms' = FALSE
  /\ IF door = "asgi" /\ ~call.raised THEN Stage("stop", 1) ELSE Stage("down", 0)
  /\ UNCHANGED <<door, cm, startupState, installed, up, opened, failed, calls>>

\* One shutdown handler runs; the tail of _run_shutdown_handlers resets the
\* state machine, and all but the dispatcher go on to the lifespans.
StopHandler ==
  /\ call.stage = "stop"
  /\ IF call.at <= NShutdown
       THEN /\ Stage("stop", call.at + 1)
            /\ UNCHANGED <<startupState, installed>>
       ELSE /\ startupState' = "not_started"
            /\ installed' = FALSE
            /\ IF door # "asgi" /\ lifespanCms THEN Stage("exit", NCms) ELSE Stage("down", 0)
  /\ UNCHANGED <<door, lifespanCms, cm, up, opened, failed, calls>>

\* A shutdown handler raises: what follows it in the caller is skipped.
StopHandlerFails ==
  /\ "stop" \in MayFail
  /\ call.stage = "stop" /\ call.at <= NShutdown
  /\ call' = [call EXCEPT !.stage = "down", !.at = 0, !.raised = TRUE]
  /\ failed' = failed \cup {"stop"}
  /\ UNCHANGED <<door, lifespanCms, cm, startupState, installed, up, opened, calls>>

\* Mutant: the dispatcher reports the failure without resetting the guard.
ShutdownDoneNoReset ==
  /\ call.stage = "down"
  /\ call' = Idle
  /\ up' = FALSE /\ opened' = FALSE
  /\ UNCHANGED <<door, lifespanCms, cm, startupState, installed, failed, calls>>

\* The shutdown call ends.  The ASGI dispatcher's except branch resets the
\* state machine; TestClient.__exit__ and _stop_lifespan_mw_chain raise what
\* was collected and reset nothing.
ShutdownDone ==
  /\ call.stage = "down"
  /\ call' = Idle
  /\ up' = FALSE /\ opened' = FALSE
  /\ IF door = "asgi" /\ call.raised
       THEN startupState' = "not_started" /\ installed' = FALSE
       ELSE UNCHANGED <<startupState, installed>>
  /\ UNCHANGED <<door, lifespanCms, cm, failed, calls>>

LifespanNext ==
  \/ BeginStartup \/ BeginRequest \/ BeginShutdown
  \/ BeginChain \/ MiddlewareGone \/ BeginServed \/ BeginChainStop
  \/ RunLifespanStartup \/ EnterCm \/ EnterCmFails
  \/ RunStartupHandlers \/ StartHandler \/ StartHandlerFails
  \/ StartupComplete \/ Serve \/ Raise
  \/ ExitCm \/ ExitedAll \/ StopHandler \/ StopHandlerFails \/ ShutdownDone

LifespanSpec == LifespanInit /\ [][LifespanNext]_lifespanVars

-----------------------------------------------------------------------------

\* A request reaches the router only in an app that is completely up: every
\* lifespan of this cycle is entered and the startup handlers have run, on
\* the ASGI, the first-request, the TestClient and the chain path alike, in
\* every cycle of a reused app (unless an __aenter__ raised, which leaves
\* _lifespan_cms set: the next startup does without); and a startup handler
\* that raised is never forgotten by a later cycle.
ServesOnlyWhenUp ==
  call.stage = "serve" =>
    /\ "start" \notin failed
    /\ "enter" \notin failed =>
         /\ startupState = "started"
         /\ \A i \in Cms : cm[i] = "entered"

\* Between two cycles a reused app is as new: no lifespan is still entered,
\* _lifespan_cms is clear, and startup will fire again, although a hook of
\* the last shutdown may have raised.  The exceptions are TestClient.__exit__
\* and the chain, which skip the lifespans and the reset when a shutdown
\* handler raises.
RestartsClean ==
  /\ call = Idle /\ ~up
  /\ failed \cap {"enter", "start"} = {}
  /\ door # "asgi" => "stop" \notin failed
  => /\ ~lifespanCms /\ ~installed
     /\ startupState = "not_started"
     /\ \A i \in Cms : cm[i] # "entered"

\* A lifespan that was entered is left through its own __aexit__ and after every
\* lifespan entered later, although the __aexit__ of another one raised: no
\* cycle of a reused app builds new managers over entered ones
\* (_run_lifespan_startup returns while _lifespan_cms is set, and
\* _run_lifespan_shutdown keeps the first exception until the loop is over).
LifespansUnwound ==
  [][\A i \in Cms : cm[i] = "entered" /\ cm'[i] # "entered" =>
       /\ cm'[i] = "exited"
       /\ \A j \in Cms : j > i => cm[j] = "exited"]_lifespanVars

=============================================================================
