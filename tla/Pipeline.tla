------------------------------ MODULE Pipeline ------------------------------
(***************************************************************************)
(* One HTTP request through the Python pipeline that the Rust door calls:  *)
(* the @app.middleware("http") chain of _middleware_wrap.py around the     *)
(* handler that applications.py built for the route.  The chain is first   *)
(* driven without an event loop (mode "fast"); when a coroutine suspends,  *)
(* _MiddlewareSuspendedError unwinds it and the whole chain starts again   *)
(* on a fresh loop (mode "slow").                                          *)
(*                                                                         *)
(* A "delegated" route runs real FastAPI's handler inside three exit       *)
(* stacks (function, inner = request scope, file), which it closes itself  *)
(* or, under middleware, hands with the background task to the drain that  *)
(* follows the chain.  An "adapter" route calls the user's endpoint.       *)
(*                                                                         *)
(* Every call of the handler is a pass with its own stacks.  What user     *)
(* code may do (outcomes, exits that raise or suppress, background tasks   *)
(* and exception handlers that fail, whether a handler answers an          *)
(* exception) is chosen nondeterministically; of a result only matters     *)
(* whether it is a response or which exception it is.                      *)
(***************************************************************************)
EXTENDS Naturals, Sequences

CONSTANTS Chains,    \* lists app._http_middlewares may hold
          Routes,    \* kinds of route handler: "delegated", "adapter"
          Handlers,  \* may the app have exception handlers?
          Faulty     \* may exits, background tasks and handlers fail?

(* A middleware has a shape ("fn", "inst" or "shim": a function, a class   *)
(* instance or a raw ASGI class behind a shim) and does something: "pass", *)
(* "reject", "catch"; "yieldIn" and "yieldOut" suspend, "loopIn" and       *)
(* "loopOut" need a running event loop, before or after call_next.  An     *)
(* ASGI class that is "silent" neither calls its app nor sends a response; *)
(* a "mute" one calls it and forwards nothing of the response.             *)
Deeds == {"pass", "reject", "catch", "yieldIn", "yieldOut", "loopIn", "loopOut",
          "silent", "mute"}

ASSUME PipelineAssumption ==
    /\ \A mws \in Chains : mws \in Seq([shape : {"fn", "inst", "shim"}, does : Deeds])
    /\ Routes \subseteq {"delegated", "adapter"}
    /\ Handlers \subseteq BOOLEAN /\ Faulty \subseteq BOOLEAN

VARIABLES
    app,      \* [mws, route, handlers, faulty]: the configuration of the app
    mode,     \* "fast" or "slow"
    pos,      \* the middleware in control; Len(mws) + 1 is the handler
    step,     \* what happens next
    ret,      \* the result travelling outwards: "response", or an exception
    direct,   \* the shims that fell through to a call_next of their own
    passes,   \* one record per call of the handler
    stamped,  \* kwargs["request"] is the middleware's Request
    pend      \* request._pending_teardowns: the passes deferred to the drain

pipelineVars == <<app, mode, pos, step, ret, direct, passes, stamped, pend>>

Stacks == {"fn", "inner", "file"}
NewPass == [fn |-> 0, inner |-> 0, file |-> 0, bg |-> 0,
            how |-> "running", fault |-> FALSE]

(* Pass x ends its endpoint with outcome o; it closes a stack or runs its  *)
(* background task, which may fail where nothing unwinds what is left.     *)
Ended(x, o) == [x EXCEPT !.how = o]
Mark(x, done, fails) == [x EXCEPT ![done] = @ + 1, !.fault = @ \/ fails]

PipelineInit ==
    /\ app \in [mws : Chains, route : Routes, handlers : Handlers, faulty : Faulty]
    /\ mode = "fast" /\ pos = 1 /\ step = "in"
    /\ ret = "response" /\ direct = {}
    /\ passes = <<>> /\ stamped = FALSE /\ pend = <<>>

(* _wrap_with_http_middlewares reverses the list: last added is outermost. *)
depth == Len(app.mws)
chain == [i \in 1..depth |-> app.mws[depth + 1 - i]]
cur   == Len(passes)          \* the pass that is running
Fails == {FALSE, app.faulty}

(* Leave middleware or handler i with result r, towards the caller.        *)
ReturnFrom(i, r) ==
    /\ ret' = r
    /\ pos' = i - 1
    /\ step' = IF i = 1 THEN "chain" ELSE "out"

-----------------------------------------------------------------------------
(* The middleware chain: _make_runner's _run_chain, and build of the       *)
(* fallback, which awaits only what iscoroutinefunction recognises: an     *)
(* instance hands back its coroutine.                                      *)

Unawaited(m) == mode = "slow" /\ m.shape = "inst"
OwnAnswer(m) ==
    CASE Unawaited(m) \/ m.does = "reject"   -> {"response"}
      [] mode = "fast" /\ m.does = "yieldIn" -> {"susp"}
      [] mode = "fast" /\ m.does = "loopIn"  -> {"noloop"}
      [] OTHER                               -> {}

(* A shim whose class neither called its app nor answered calls next.      *)
EnterMw ==
    /\ step = "in" /\ pos <= depth
    /\ \/ \E r \in OwnAnswer(chain[pos]) : ReturnFrom(pos, r) /\ UNCHANGED direct
       \/ /\ OwnAnswer(chain[pos]) = {}
          /\ pos' = pos + 1
          /\ direct' = IF chain[pos] = [shape |-> "shim", does |-> "silent"]
                         THEN direct \cup {pos} ELSE direct
          /\ UNCHANGED <<step, ret>>
    /\ UNCHANGED <<app, mode, passes, stamped, pend>>

(* What middleware m makes of its call_next's result.  A shim relays an    *)
(* exception, after sending the 500 frames from which it builds the        *)
(* response when its class swallows it, and converts HTTPException.        *)
Outwards(m, r) ==
    CASE r # "response" /\ m.does = "catch" -> "response"
      [] r = "http" /\ m.shape = "shim" /\ m.does # "catch" -> "response"
      [] r = "response" /\ mode = "fast" /\ m.does = "yieldOut" -> "susp"
      [] r = "response" /\ mode = "fast" /\ m.does = "loopOut" -> "noloop"
      [] OTHER -> r

(* A shim whose class came back without a response calls next itself, also *)
(* when the class had called its app; what that returns or raises is       *)
(* passed on as it is.                                                     *)
LeaveMw ==
    /\ step = "out"
    /\ IF /\ chain[pos] = [shape |-> "shim", does |-> "mute"]
          /\ ret = "response" /\ pos \notin direct
         THEN pos' = pos + 1 /\ step' = "in" /\ direct' = direct \cup {pos}
              /\ UNCHANGED ret
         ELSE /\ ReturnFrom(pos, IF pos \in direct THEN ret ELSE Outwards(chain[pos], ret))
              /\ direct' = direct \ {pos}
    /\ UNCHANGED <<app, mode, passes, stamped, pend>>

(* Mutant: any exception of the first drive starts the fallback.           *)
ChainRetries ==
    /\ step = "chain"
    /\ IF ret # "response" /\ mode = "fast"
         THEN mode' = "slow" /\ pos' = 1 /\ step' = "in"
         ELSE step' = "drain" /\ UNCHANGED <<mode, pos>>
    /\ UNCHANGED <<app, ret, direct, passes, stamped, pend>>

(* wrapped_sync: a suspension starts the chain again on a new loop.        *)
ChainReturns ==
    /\ step = "chain"
    /\ IF ret = "susp" /\ mode = "fast"
         THEN mode' = "slow" /\ pos' = 1 /\ step' = "in"
         ELSE step' = "drain" /\ UNCHANGED <<mode, pos>>
    /\ UNCHANGED <<app, ret, direct, passes, stamped, pend>>

-----------------------------------------------------------------------------
(* The handler of the route.                                               *)

(* _call_handler_sync gives the endpoint the middleware's Request; the     *)
(* fallback passes kwargs on as they are, private ones included, which a   *)
(* bare endpoint does not accept.                                          *)
CallHandler ==
    /\ step = "in" /\ pos = depth + 1
    /\ passes' = Append(passes, NewPass)
    /\ stamped' = (stamped \/ (mode = "fast" /\ depth > 0))
    /\ IF mode = "slow" /\ app.route = "adapter"
         THEN ret' = "type" /\ step' = "wrap"
         ELSE step' = "endpoint" /\ UNCHANGED ret
    /\ UNCHANGED <<app, mode, pos, direct, pend>>

(* The user's endpoint behind _make_sync_wrapper.                          *)
RunAdapter(o) ==
    /\ step = "endpoint" /\ app.route = "adapter"
    /\ passes' = [passes EXCEPT ![cur] = Ended(passes[cur], o)]
    /\ ret' = IF o = "ok" THEN "response" ELSE o
    /\ step' = "wrap"
    /\ UNCHANGED <<app, mode, pos, direct, stamped, pend>>

(* _delegated_route_info's handler: await real_handler(request).           *)
RunDelegated(o) ==
    /\ step = "endpoint" /\ app.route = "delegated"
    /\ passes' = [passes EXCEPT ![cur] = Ended(passes[cur], o)]
    /\ ret' = IF o \in {"ok", "rve"} THEN "response" ELSE o
    /\ step' = IF o \in {"ok", "rve"} THEN "fnExit" ELSE "throwFn"
    /\ UNCHANGED <<app, mode, pos, direct, stamped, pend>>

(* The handler for RequestValidationError raises: its exception leaves the *)
(* except clause, past _unwind_clean.                                      *)
ValidationHandlerRaises ==
    /\ step = "endpoint" /\ app.route = "delegated" /\ app.handlers /\ app.faulty
    /\ passes' = [passes EXCEPT ![cur] = [Ended(passes[cur], "rve") EXCEPT !.fault = TRUE]]
    /\ ret' = "tear" /\ step' = "wrap"
    /\ UNCHANGED <<app, mode, pos, direct, stamped, pend>>

(* The error path: the active exception goes into each stack in turn; an   *)
(* exit may suppress it (then None is returned) or replace it.             *)
ThrowInto(s, e) ==
    /\ step = CASE s = "fn" -> "throwFn" [] s = "inner" -> "throwInner"
              [] s = "file" -> "throwFile"
    /\ passes' = [passes EXCEPT ![cur] = Mark(passes[cur], s, FALSE)]
    /\ ret' = CASE e = "raise" -> "tear" [] e = "suppress" -> "response" [] OTHER -> ret
    /\ step' = CASE s = "fn" -> "throwInner" [] s = "inner" -> "throwFile"
               [] s = "file" -> "wrap"
    /\ UNCHANGED <<app, mode, pos, direct, stamped, pend>>

(* The success path (and _unwind_clean after a rendered validation error): *)
(* the function stack closes first; an exit that raises ends the pass.     *)
FunctionExit(fails) ==
    /\ step = "fnExit"
    /\ passes' = [passes EXCEPT ![cur] = Mark(passes[cur], "fn", fails)]
    /\ IF fails THEN ret' = "tear" /\ step' = "wrap"
                ELSE step' = "settle" /\ UNCHANGED ret
    /\ UNCHANGED <<app, mode, pos, direct, stamped, pend>>

(* Mutant: the deferred finalizer is appended and also run inline.         *)
SettleBoth ==
    /\ step = "settle"
    /\ step' = "bg"
    /\ pend' = IF depth > 0 /\ stamped /\ passes[cur].how = "ok"
                 THEN Append(pend, cur) ELSE pend
    /\ UNCHANGED <<app, mode, pos, ret, direct, passes, stamped>>

(* Mutant: the finalizer runs inline although the chain has yet to unwind. *)
SettleInline ==
    /\ step = "settle"
    /\ step' = IF passes[cur].how = "rve" THEN "inner" ELSE "bg"
    /\ UNCHANGED <<app, mode, pos, ret, direct, passes, stamped, pend>>

(* Then background, inner and file are deferred to the drain when the      *)
(* route is wrapped and the request is the middleware's; else done here.   *)
Settle ==
    /\ step = "settle"
    /\ IF passes[cur].how = "ok" /\ depth > 0 /\ stamped
         THEN pend' = Append(pend, cur) /\ step' = "wrap"
         ELSE /\ step' = IF passes[cur].how = "rve" THEN "inner" ELSE "bg"
              /\ UNCHANGED pend
    /\ UNCHANGED <<app, mode, pos, ret, direct, passes, stamped>>

-----------------------------------------------------------------------------
(* The finalizer of a pass, inline or resumed by the drain: background,    *)
(* inner, file.  A step that raises ends it: inline the exception becomes  *)
(* the result; _run_pending_teardowns swallows it and goes on.             *)

draining  == pend # <<>> /\ pos = 0
Finalized == IF draining THEN Head(pend) ELSE cur

Abort == IF draining THEN pend' = Tail(pend) /\ step' = "drain" /\ UNCHANGED ret
                     ELSE ret' = "tear" /\ step' = "wrap" /\ UNCHANGED pend

FinalizeStep(at, field, then, fails) ==
    /\ step = at
    /\ passes' = [passes EXCEPT ![Finalized] = Mark(passes[Finalized], field, fails)]
    /\ IF fails THEN Abort ELSE step' = then /\ UNCHANGED <<ret, pend>>
    /\ UNCHANGED <<app, mode, pos, direct, stamped>>

RunBackground(fails) == FinalizeStep("bg", "bg", "inner", fails)
CloseInner(fails) == FinalizeStep("inner", "inner", "file", fails)

CloseFile(fails) ==
    /\ step = "file"
    /\ passes' = [passes EXCEPT ![Finalized] = Mark(passes[Finalized], "file", fails)]
    /\ IF draining THEN pend' = Tail(pend) /\ step' = "drain" /\ UNCHANGED ret
       ELSE /\ step' = "wrap" /\ UNCHANGED pend
            /\ ret' = IF fails THEN "tear" ELSE ret
    /\ UNCHANGED <<app, mode, pos, direct, stamped>>

(* wrapped_sync's finally: drain what was deferred, first to last.         *)
DrainPending ==
    /\ step = "drain"
    /\ step' = IF pend = <<>> THEN "done" ELSE "bg"
    /\ UNCHANGED <<app, mode, pos, ret, direct, passes, stamped, pend>>

-----------------------------------------------------------------------------
(* Exceptions.                                                             *)

(* _wrap_with_exception_handlers offers an exception to the handlers of    *)
(* the app, one of which may answer it.                                    *)
Answered(handled) == app.handlers /\ handled

(* On the first drive _call_handler_sync then plays Starlette's            *)
(* ExceptionMiddleware: it turns HTTPException into a response before a    *)
(* middleware sees it, and offers any other exception again.               *)
LeaveHandler(handled) ==
    /\ step = "wrap"
    /\ ReturnFrom(pos, IF \/ Answered(handled)
                          \/ ret = "http" /\ mode = "fast" /\ depth > 0
                       THEN "response" ELSE ret)
    /\ UNCHANGED <<app, mode, direct, passes, stamped, pend>>

-----------------------------------------------------------------------------
ExitOutcomes == {"keep"} \cup {x \in {"raise", "suppress"} : app.faulty}

PipelineNext ==
    \/ EnterMw \/ LeaveMw \/ ChainReturns \/ CallHandler
    \/ \E o \in {"ok", "http", "err"} : RunAdapter(o)
    \/ \E o \in {"ok", "rve", "http", "err"} : RunDelegated(o)
    \/ ValidationHandlerRaises
    \/ \E s \in Stacks, e \in ExitOutcomes : ThrowInto(s, e)
    \/ Settle \/ DrainPending
    \/ \E f \in Fails : \/ FunctionExit(f) \/ RunBackground(f) \/ CloseInner(f)
                        \/ CloseFile(f)
    \/ \E handled \in BOOLEAN : LeaveHandler(handled)

PipelineSpec == PipelineInit /\ [][PipelineNext]_pipelineVars

-----------------------------------------------------------------------------
finished == step = "done"

(***************************************************************************)
(* "Teardown mirrors `async with A, B, C`" (applications.py:4734): when    *)
(* the request is over, every pass of a delegated handler has closed each  *)
(* of its three stacks once, whatever its exits, its background task and   *)
(* the handler of a validation error did.                                  *)
(***************************************************************************)
StacksClosedOnce ==
    finished /\ app.route = "delegated" =>
        \A p \in DOMAIN passes : \A s \in Stacks : passes[p][s] = 1

(***************************************************************************)
(* What the handler and the drain do keep to: the stacks of a pass nest    *)
(* (function, then the background task, which sees live dependencies, then *)
(* inner, then file), nothing is closed or run twice, and by the end of    *)
(* the request all of it has been, whichever of the two did it.  Whatever  *)
(* the exits raise after the endpoint raised, nothing stays open; only a   *)
(* step that raises after a response or an answer to a validation error    *)
(* leaves the later ones undone.                                           *)
(***************************************************************************)
StacksCloseInOrder ==
    /\ \A p \in DOMAIN passes :
         LET x == passes[p] IN
         /\ \A s \in Stacks \cup {"bg"} : x[s] <= 1
         /\ x.bg + x.inner > 0 => x.fn = 1
         /\ x.inner = 1 /\ x.how = "ok" => x.bg = 1
         /\ x.file = 1 => x.inner = 1
         /\ x.fault => x.how \in {"ok", "rve"}
    /\ finished =>
         \A p \in DOMAIN passes :
            app.route = "delegated" /\ ~passes[p].fault =>
                /\ \A s \in Stacks : passes[p][s] = 1
                /\ passes[p].bg = IF passes[p].how = "ok" THEN 1 ELSE 0

(***************************************************************************)
(* Middleware that runs after its call_next still finds the request-scoped *)
(* dependencies of a successful handler open: they close when the chain    *)
(* has unwound, on the first drive and on the fallback after it.           *)
(***************************************************************************)
MiddlewareSeesOpenScope ==
    step \in {"out", "chain"} /\ stamped /\ cur > 0 =>
        \A p \in DOMAIN passes :
            passes[p].how = "ok" /\ app.route = "delegated" /\ ~passes[p].fault
              => passes[p].inner = 0

(***************************************************************************)
(* The chain calls a handler that finished again only because a middleware *)
(* around it suspended after its call_next, and then once, or because the  *)
(* ASGI class of a shim forwarded no response: no other way to fail makes  *)
(* wrapped_sync repeat the side effects of an endpoint.  (A coroutine that *)
(* _make_sync_wrapper gave up unfinished and submitted anew is one call of *)
(* the handler.)                                                           *)
(***************************************************************************)
RerunOnlyByMiddleware ==
    cur > 1 => \/ \E i \in DOMAIN app.mws :
                    app.mws[i] = [shape |-> "shim", does |-> "mute"]
               \/ /\ cur = 2 /\ mode = "slow"
                  /\ \E i \in DOMAIN app.mws : app.mws[i].does = "yieldOut"

=============================================================================
