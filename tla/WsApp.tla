------------------------------- MODULE WsApp -------------------------------
(***************************************************************************)
(* The Python side of one WebSocket connection: the wrapper that           *)
(* _wrap_websocket_endpoint puts around an endpoint (python/fastapi_turbo/ *)
(* _ws_support.py), the WebSocket object the endpoint talks to             *)
(* (websockets.py), and the two transports below it: the Rust socket, whose*)
(* handshake is WsHandshake, and the in-process door (applications.py,     *)
(* _asgi_ws_door) driven by the test session of testclient.py over two     *)
(* asyncio queues.  The wrapper resolves the dependency tree, runs the     *)
(* endpoint inside the WebSocket and raw ASGI middlewares, turns whatever  *)
(* it raises into a close, and releases the yield dependencies.            *)
(***************************************************************************)
EXTENDS WsHandshake, Sequences, SequencesExt, FiniteSets

CONSTANTS
  SubDeps,     \* the parameters of a dependency callable: a sequence of Items
  Overrides,   \* app.dependency_overrides, as a function on all callables
  Yields,      \* the callables that are (async) generators
  Forms,       \* the endpoints: [params, extra : Seq(Item), class : BOOLEAN]
  Configs,     \* [handlers : SUBSET {"validation", "error"}, chain, middleware : BOOLEAN]
  MaxOps       \* bound: calls of the endpoint and messages of the client

(***************************************************************************)
(* An Item is one parameter: [kind |-> "path"] for a path value, "value"   *)
(* for a query, header or cookie value, and [kind |-> "dep", dep, cached,  *)
(* scope] for a Depends().                                                 *)
(* The handler's own parameters are the items of the callable Root.        *)
(***************************************************************************)
Root == "root"

VARIABLES
  transport,  \* "rust" or "door": ws._ws is set, or the ASGI channels are
  form,       \* the endpoint of the route
  config,     \* what the application has registered
  entry,      \* control state of _ws_entry
  frames,     \* the calls of _resolve_dep_async in progress, innermost last
  cache,      \* the callables resolved with use_cache
  gens,       \* the local list of _build_kwargs
  held,       \* the list `generators` of _ws_entry
  entered,    \* history: the yield dependencies entered, in order
  released,   \* history: the ones resumed by _teardown_generators, in order
  raised,     \* the exception in flight, "none" when there is none
  hook,       \* has on_disconnect been called?
  ops,        \* calls made so far (bounded by MaxOps)
  rerun,      \* has the endpoint been started over on the worker loop?
  ws,         \* the WebSocket: [state, pending, closed]
  toServer,   \* _client_to_server
  toClient,   \* _server_to_client
  client,     \* control state of the test session
  seen        \* history: the messages the session took from toClient

coreVars == <<form, config, frames, cache, gens, held, entered, released, ops, rerun>>
wrapVars == <<coreVars, hook>>
sessVars == <<toServer, toClient, client, seen>>
appVars  == <<transport, form, config, entry, frames, cache, gens, held, entered, released,
              raised, hook, ops, rerun, ws, toServer, toClient, client, seen>>
allVars  == <<vars, appVars>>

-----------------------------------------------------------------------------
(* Registration *)

\* _check_scope_mismatch: below a Depends(), no request-scoped generator may
\* take a function-scoped one.  A callable is visited once per root.
RECURSIVE Walk(_, _)
Walk(item, visited) ==
  IF item.kind # "dep" \/ item.dep \in visited THEN [ok |-> TRUE, visited |-> visited]
  ELSE LET Clash(sub) == /\ sub.kind = "dep"
                         /\ {item.dep, sub.dep} \subseteq Yields
                         /\ item.scope = "request" /\ sub.scope = "function"
           Visit(r, sub) == IF ~r.ok \/ Clash(sub) THEN [r EXCEPT !.ok = FALSE]
                            ELSE Walk(sub, r.visited)
       IN FoldLeft(Visit, [ok |-> TRUE, visited |-> visited \union {item.dep}],
                   SubDeps[item.dep])

\* The decorator checks the endpoint's own parameters ...
ws_check_scope_mismatch(f) == \A i \in DOMAIN f.params : Walk(f.params[i], {}).ok

\* ... and the wrapper those and the route's extra dependencies.
Registered(f) ==
  /\ ws_check_scope_mismatch(f)
  /\ \A i \in DOMAIN f.extra : Walk(f.extra[i], {}).ok

AppInit ==
  /\ Init
  /\ transport \in {"rust", "door"}
  /\ transport = "door" => loopMode
  /\ form \in {f \in Forms : Registered(f)}
  /\ config \in Configs
  /\ entry = "start"
  /\ frames = <<>> /\ cache = {} /\ gens = <<>> /\ held = <<>>
  /\ entered = <<>> /\ released = <<>>
  /\ raised = "none" /\ hook = FALSE /\ ops = 0 /\ rerun = FALSE
  /\ ws = [state |-> "connecting", pending |-> FALSE, closed |-> FALSE]
  /\ toServer = IF transport = "door" THEN <<"connect">> ELSE <<>>
  /\ toClient = <<>>
  /\ client = IF transport = "door" THEN "entering" ELSE "none"
  /\ seen = <<>>

-----------------------------------------------------------------------------
(* websockets.py: a frame is "accept", "message" or "close". *)

IsDoor == transport = "door"

\* application_state: Rust's own state where there is a Rust socket.
application_state == IF IsDoor THEN ws.state ELSE state

\* Mutant: the guard against a second close is dropped.
SendCloseAgain(w) ==
  /\ toClient' = Append(toClient, "close")
  /\ ws' = [w EXCEPT !.closed = TRUE]

\* _asgi_send_close: one close frame at the most.
asgi_send_close(w) ==
  /\ toClient' = IF w.closed THEN toClient ELSE Append(toClient, "close")
  /\ ws' = [w EXCEPT !.closed = TRUE]

\* _asgi_queue_close: the first queued close stays, none after a sent one.
asgi_queue_close(w) ==
  IF w.closed \/ w.pending THEN w ELSE [w EXCEPT !.pending = TRUE]

\* _reject(status): the handshake is refused; the sender may be gone already.
ws_reject(status) ==
  /\ ws' = [ws EXCEPT !.state = "disconnected"]
  /\ IF pc = "handler" THEN Reject(status)
     ELSE state' = "disconnected" /\ UNCHANGED <<loopMode, pc, oneshot, listening, slot,
                                                  ready, route, sink, answer>>
  /\ UNCHANGED toClient

\* self._ws.close: a close frame for the writer task (WsOutbound).
RustClose ==
  /\ state' = "disconnected"
  /\ UNCHANGED <<loopMode, pc, oneshot, listening, slot, ready, route, sink, answer>>

\* close(): nothing after a disconnect, a refusal before accept().
close ==
  LET w == [ws EXCEPT !.state = "disconnected"]
  IN \/ ws.state = "disconnected" /\ UNCHANGED <<ws, toClient, vars>>
     \/ ws.state # "disconnected" /\ IsDoor /\ asgi_send_close(w) /\ UNCHANGED vars
     \/ /\ ~IsDoor /\ ws.state # "disconnected"
        /\ ws' = w
        /\ IF ws.state = "connected" THEN RustClose
           ELSE IF pc = "handler" THEN Reject(403) ELSE UNCHANGED vars
        /\ UNCHANGED toClient

\* A failure closes the connection: the door queues the close for
\* _asgi_ws_door to flush, a Rust handshake is refused with `status`, an open
\* Rust socket closed.
CloseFor(status) ==
  IF IsDoor
    THEN ws' = asgi_queue_close(ws) /\ UNCHANGED <<toClient, vars>>
    ELSE IF application_state = "connecting" THEN ws_reject(status)
         ELSE RustClose /\ UNCHANGED <<ws, toClient>>

-----------------------------------------------------------------------------
(* _ws_entry_with_asgi_chain and the WebSocket middlewares *)

\* _asgi_ws_door finds no route: a normal close.
DoorNoMatch ==
  /\ entry = "start" /\ IsDoor
  /\ toClient' = Append(toClient, "close")
  /\ entry' = "done"
  /\ UNCHANGED <<vars, transport, wrapVars, raised, ws, toServer, client, seen>>

\* The raw ASGI chain runs down to _ws_entry; a middleware that answers by
\* itself talks to a send() that drops what it says.
EnterChain ==
  /\ entry = "start"
  /\ \/ entry' = "wrapped"
     \/ config.chain /\ entry' = "flush"
  /\ UNCHANGED <<vars, transport, wrapVars, raised, ws, sessVars>>

\* A raw ASGI middleware raises, before it calls the application or after:
\* nothing above catches it, so _asgi_ws_door never comes to its flush, and
\* the Rust handshake's sender is dropped if it was never used.
ChainRaises ==
  /\ config.chain /\ entry \in {"start", "flush"}
  /\ entry' = "escaped"
  /\ IF ~IsDoor /\ pc = "handler" THEN HandlerExits ELSE UNCHANGED vars
  /\ UNCHANGED <<transport, wrapVars, raised, ws, sessVars>>

\* Thread or task is inside a Rust accept() that has not come back.
InAccept == ~IsDoor /\ ws.state = "connecting" /\ pc \notin {"handler", "rejected"}

\* A WebSocket middleware has the connection, on the way in or on the way out:
\* it talks to it over _bridge_send and _bridge_receive, which let no
\* exception of the WebSocket through.
Bridged == config.middleware /\ entry \in {"wrapped", "unwind"} /\ ~InAccept

\* The WebSocket middlewares run down to _run_handler_inner.
EnterMiddleware ==
  /\ entry = "wrapped" /\ ~InAccept
  /\ entry' = "build"
  /\ frames' = <<[dep |-> Root, cached |-> FALSE, at |-> 1]>>
  /\ UNCHANGED <<vars, transport, form, config, cache, gens, held, entered, released, hook,
                 ops, rerun, raised, ws, sessVars>>

\* The middleware returns without having called the application, or swallows
\* what it raised; or it raises an exception of its own.
MiddlewareEnds ==
  /\ Bridged
  /\ \E exc \in {"none", "wsexc", "error"} :
       /\ raised' = exc
       /\ entry' = IF exc = "none" THEN "teardown" ELSE "outcome"
  /\ UNCHANGED <<vars, transport, wrapVars, ws, sessVars>>

-----------------------------------------------------------------------------
(* _build_kwargs and _resolve_dep_async *)

Top == frames[Len(frames)]
Items(c) == IF c = Root THEN form.params \o form.extra ELSE SubDeps[Overrides[c]]
More == Top.at <= Len(Items(Top.dep))
Item == Items(Top.dep)[Top.at]
Advance(fs) == [fs EXCEPT ![Len(fs)].at = @ + 1]
buildRest == <<transport, form, config, held, released, hook, ops, rerun, ws,
               sessVars>>

\* _validate_scalar: a value fits the declared type or raises.
validate_scalar == {"ok", "validation"}

\* A value of the handler: missing, it is its default or a
\* WebSocketException(1008); a path value is always there.
HandlerValue ==
  /\ entry = "build" /\ More /\ Item.kind \in {"value", "path"} /\ Top.dep = Root
  /\ \E exc \in validate_scalar \union (IF Item.kind = "value" THEN {"wsexc"} ELSE {}) :
       IF exc = "ok" THEN frames' = Advance(frames) /\ UNCHANGED <<entry, raised>>
       ELSE raised' = exc /\ entry' = "buildfail" /\ UNCHANGED frames
  /\ UNCHANGED <<vars, cache, gens, entered, buildRest>>

\* A value of a dependency, read off the query, the headers or the cookies.
DepValue ==
  /\ entry = "build" /\ More /\ Item.kind = "value" /\ Top.dep # Root
  /\ \E exc \in validate_scalar \union {"wsexc"} :
       IF exc = "ok" THEN frames' = Advance(frames) /\ UNCHANGED <<entry, raised>>
       ELSE raised' = exc /\ entry' = "buildfail" /\ UNCHANGED frames
  /\ UNCHANGED <<vars, cache, gens, entered, buildRest>>

\* A Depends() is taken from the cache or resolved by a call of its own.
VisitDep ==
  /\ entry = "build" /\ More /\ Item.kind = "dep"
  /\ frames' = IF Item.cached /\ Item.dep \in cache THEN Advance(frames)
               ELSE Append(frames, [dep |-> Item.dep, cached |-> Item.cached, at |-> 1])
  /\ UNCHANGED <<vars, entry, raised, cache, gens, entered, buildRest>>

\* All its parameters are there: the callable, or its override, is called.
\* A generator runs to its yield and is kept for the teardown.
InvokeDep ==
  /\ entry = "build" /\ ~More /\ Top.dep # Root
  /\ \/ /\ frames' = Advance(Front(frames))
        /\ cache' = IF Top.cached THEN cache \union {Top.dep} ELSE cache
        /\ LET new == IF Overrides[Top.dep] \in Yields THEN <<Top.dep>> ELSE <<>>
           IN gens' = gens \o new /\ entered' = entered \o new
        /\ UNCHANGED <<entry, raised>>
     \/ \E exc \in {"wsexc", "error"} :
          /\ raised' = exc /\ entry' = "buildfail"
          /\ UNCHANGED <<frames, cache, gens, entered>>
  /\ UNCHANGED <<vars, buildRest>>

\* Mutant: the list is handed over in the order of the teardown already.
BuiltReversed ==
  /\ entry = "build" /\ ~More /\ Top.dep = Root
  /\ held' = Reverse(gens)
  /\ entry' = IF form.class THEN "connect" ELSE "body"
  /\ UNCHANGED <<vars, transport, form, config, frames, cache, gens, entered, released,
                 hook, ops, rerun, raised, ws, sessVars>>

\* kwargs, generators = await _build_kwargs(...)
Built ==
  /\ entry = "build" /\ ~More /\ Top.dep = Root
  /\ held' = gens
  /\ entry' = IF form.class THEN "connect" ELSE "body"
  /\ UNCHANGED <<vars, transport, form, config, frames, cache, gens, entered, released,
                 hook, ops, rerun, raised, ws, sessVars>>

\* _handle_ws_exc
handle_ws_exc == CloseFor(403)

\* A WebSocketException of the build is handled here: the middlewares see a
\* normal return.  Anything else goes up through them.
BuildFails ==
  /\ entry = "buildfail"
  /\ entry' = "unwind"
  /\ IF raised = "wsexc" THEN handle_ws_exc /\ raised' = "none"
     ELSE UNCHANGED <<vars, raised, ws, toClient>>
  /\ UNCHANGED <<transport, wrapVars, toServer, client, seen>>

-----------------------------------------------------------------------------
(* The endpoint: an arbitrary sequence of WebSocket calls.  A              *)
(* WebSocketEndpoint class runs on_connect, then one on_receive per        *)
(* message until the disconnect, and on_disconnect on every way out.       *)

InEndpoint == entry \in {"body", "connect", "message"} /\ ~InAccept
Calls == (InEndpoint \/ Bridged) /\ ops < MaxOps
callRest == <<transport, form, config, frames, cache, gens, held, entered, released, rerun,
              client, seen>>

\* Mutant: on_disconnect is called for a WebSocketDisconnect only.
RaiseUnhooked(exc) ==
  IF form.class /\ exc = "disconnect"
    THEN hook' = TRUE /\ raised' = "none" /\ entry' = "unwind"
    ELSE hook' = hook /\ raised' = exc /\ entry' = "unwind"

\* The endpoint raises.  The class adapter takes a WebSocketDisconnect for the
\* end, and calls on_disconnect before it passes anything else on.
Raise(exc) ==
  IF form.class /\ exc = "disconnect"
    THEN hook' = TRUE /\ raised' = "none" /\ entry' = "unwind"
    ELSE /\ hook' = (form.class \/ hook)
         /\ raised' = exc
         /\ entry' = "unwind"
Continues == UNCHANGED <<hook, raised, entry>>

\* A call fails: the endpoint sees it, a middleware does not.
Fails(exc) == IF Bridged THEN Continues ELSE Raise(exc)

\* accept() in the door: the connect message is consumed, then the accept sent.
DoorAccept ==
  /\ Calls /\ IsDoor /\ ws.state = "connecting" /\ toServer # <<>>
  /\ toServer' = Tail(toServer)
  /\ IF Head(toServer) = "connect"
       THEN ws' = [ws EXCEPT !.state = "connected"] /\ toClient' = Append(toClient, "accept")
       ELSE ws' = [ws EXCEPT !.state = "disconnected"] /\ UNCHANGED toClient
  /\ ops' = ops + 1
  /\ Continues /\ UNCHANGED <<vars, callRest>>

\* accept() on a Rust socket, and its return.
RustAccept ==
  /\ Calls /\ ~IsDoor /\ ws.state = "connecting"
  /\ Accept
  /\ ops' = ops + 1
  /\ Continues /\ UNCHANGED <<ws, toServer, toClient, callRest>>

AcceptReturns ==
  /\ InAccept /\ pc = "open"
  /\ ws' = [ws EXCEPT !.state = "connected"]
  /\ Continues /\ UNCHANGED <<vars, ops, toServer, toClient, callRest>>

\* send_text, send_bytes, send_json
Send ==
  /\ Calls
  /\ ops' = ops + 1
  /\ IF ws.state # "connected" THEN Fails("error") /\ UNCHANGED toClient
     ELSE /\ Continues
          /\ toClient' = IF IsDoor THEN Append(toClient, "message") ELSE toClient
  /\ UNCHANGED <<vars, ws, toServer, callRest>>

\* What a receive call finds: the end, a message, or nothing yet.
Ended == ws.state = "disconnected"
Arrived == ~Ended /\ IF IsDoor THEN toServer # <<>> ELSE ws.state = "connected"
IsDisconnect == IF IsDoor THEN Head(toServer) = "disconnect"
                ELSE state = "disconnected" \/ route = "gone"

\* The WebSocket object learns of the end, except from Rust's own awaitables.
SeesDisconnect ==
  \/ ws' = [ws EXCEPT !.state = "disconnected"]
  \/ ~IsDoor /\ UNCHANGED ws

\* receive() and receive_text() outside of an adapter; the async iterators
\* swallow both errors.
Receive ==
  /\ entry # "receive" /\ Calls
  /\ ops' = ops + 1
  /\ \/ Ended /\ (Fails("error") \/ Fails("disconnect") \/ Continues) /\ UNCHANGED <<ws, toServer>>
     \/ /\ Arrived
        /\ toServer' = IF IsDoor THEN Tail(toServer) ELSE toServer
        /\ \/ ~IsDisconnect /\ Continues /\ UNCHANGED ws
           \/ /\ IsDisconnect
              /\ Fails("disconnect") \/ Continues
              /\ SeesDisconnect
  /\ UNCHANGED <<vars, toClient, callRest>>

\* The adapter's loop, after on_connect and after every on_receive.
HookReturns ==
  /\ Calls /\ entry \in {"connect", "message"}
  /\ entry' = "receive"
  /\ UNCHANGED <<vars, hook, raised, ops, ws, toServer, toClient, callRest>>

AdapterReceives ==
  /\ entry = "receive" /\ ops < MaxOps
  /\ ops' = ops + 1
  /\ \/ Ended /\ (Raise("error") \/ Raise("disconnect")) /\ UNCHANGED <<ws, toServer>>
     \/ /\ Arrived
        /\ toServer' = IF IsDoor THEN Tail(toServer) ELSE toServer
        /\ IF IsDisconnect
             THEN Raise("disconnect") /\ SeesDisconnect
             ELSE entry' = "message" /\ UNCHANGED <<hook, raised, ws>>
  /\ UNCHANGED <<vars, toClient, callRest>>

Closes ==
  /\ Calls
  /\ ops' = ops + 1
  /\ close
  /\ Continues /\ UNCHANGED <<toServer, callRest>>

Raises ==
  /\ InEndpoint /\ Calls
  /\ \E exc \in {"wsexc", "error"} : Raise(exc)
  /\ UNCHANGED <<vars, ops, ws, toServer, toClient, callRest>>

\* "no running event loop": in thread mode the coroutine is driven without a
\* loop, and the endpoint starts over on the shared worker loop.
NoLoop ==
  /\ InEndpoint /\ Calls /\ ~IsDoor /\ ~loopMode /\ ~rerun
  /\ rerun' = TRUE
  /\ hook' = (form.class \/ hook)
  /\ entry' = IF form.class THEN "connect" ELSE "body"
  /\ UNCHANGED <<vars, transport, form, config, frames, cache, gens, held, entered,
                 released, raised, ops, ws, sessVars>>

Returns ==
  /\ entry = "body" /\ ~InAccept
  /\ entry' = "unwind"
  /\ UNCHANGED <<vars, raised, hook, ops, ws, toServer, toClient, callRest>>

Endpoint ==
  \/ DoorAccept \/ RustAccept \/ Send \/ Receive \/ HookReturns \/ AdapterReceives
  \/ Closes \/ Raises \/ NoLoop \/ Returns

-----------------------------------------------------------------------------
(* The ways out of _ws_entry *)

outRest == <<transport, wrapVars, toServer, client, seen>>

\* The WebSocket middlewares pass on what the handler returned or raised.
Unwind ==
  /\ entry = "unwind" /\ ~InAccept
  /\ entry' = IF raised = "none" THEN "teardown" ELSE "outcome"
  /\ UNCHANGED <<vars, raised, ws, toClient, outRest>>

WsExcOut ==
  /\ entry = "outcome" /\ raised = "wsexc"
  /\ handle_ws_exc
  /\ raised' = "none" /\ entry' = "teardown"
  /\ UNCHANGED outRest

\* A validation error, in an application with exception handlers: it is
\* given to the handler registered for it, ...
Routed == raised = "validation" /\ config.handlers # {}

ValidationOut ==
  /\ entry = "outcome" /\ Routed
  /\ entry' = "refuse"
  /\ \/ "validation" \in config.handlers /\ close
     \/ UNCHANGED <<vars, ws, toClient>>
  /\ UNCHANGED <<raised, outRest>>

\* ... and the connection is closed whatever the handler did.
ValidationRefused ==
  /\ entry = "refuse"
  /\ CloseFor(403)
  /\ raised' = "none" /\ entry' = "teardown"
  /\ UNCHANGED outRest

\* Any other exception with a handler that matches it and comes back: the
\* handler is expected to close.
HandledOut ==
  /\ entry = "outcome" /\ raised # "wsexc" /\ ~Routed
  /\ "error" \in config.handlers
  /\ close \/ UNCHANGED <<vars, ws, toClient>>
  /\ raised' = "none" /\ entry' = "teardown"
  /\ UNCHANGED outRest

\* No handler matches, or the handler failed itself.
UnhandledOut ==
  /\ entry = "outcome" /\ raised # "wsexc" /\ ~Routed
  /\ CloseFor(500)
  /\ raised' = "none" /\ entry' = "teardown"
  /\ UNCHANGED outRest

\* _teardown_generators: the last one entered is resumed first; what it
\* raises is dropped.
Release ==
  /\ entry = "teardown" /\ held # <<>>
  /\ held' = Front(held)
  /\ released' = Append(released, Last(held))
  /\ UNCHANGED <<vars, transport, form, config, entry, frames, cache, gens, entered, raised,
                 hook, ops, rerun, ws, sessVars>>

Released ==
  /\ entry = "teardown" /\ held = <<>>
  /\ entry' = "flush"
  /\ UNCHANGED <<vars, raised, ws, transport, wrapVars, sessVars>>

\* Mutant: the door returns without flushing.
FlushNothing ==
  /\ entry = "flush"
  /\ entry' = "done"
  /\ IF ~IsDoor /\ pc = "handler" THEN HandlerExits ELSE UNCHANGED vars
  /\ UNCHANGED <<ws, toClient, raised, outRest>>

\* The end of the coroutine.  _asgi_ws_door flushes a queued close; the Rust
\* handshake's sender is dropped if it was never used.
Finish ==
  /\ entry = "flush"
  /\ entry' = "done"
  /\ IF IsDoor /\ ws.pending THEN asgi_send_close(ws)
     ELSE UNCHANGED <<ws, toClient>>
  /\ IF ~IsDoor /\ pc = "handler" THEN HandlerExits ELSE UNCHANGED vars
  /\ UNCHANGED <<raised, outRest>>

Wrapper ==
  \/ DoorNoMatch \/ EnterChain \/ ChainRaises \/ EnterMiddleware \/ MiddlewareEnds
  \/ HandlerValue \/ DepValue \/ VisitDep \/ InvokeDep \/ Built
  \/ BuildFails \/ AcceptReturns \/ Unwind \/ WsExcOut \/ ValidationOut
  \/ ValidationRefused \/ HandledOut \/ UnhandledOut \/ Release \/ Released \/ Finish

-----------------------------------------------------------------------------
(* _InProcessWebSocketSession: the test's thread on one side, the session's *)
(* own loop with the application task on the other.                         *)

Ready(c) == client = c /\ toClient # <<>>
Take == toClient' = Tail(toClient) /\ seen' = Append(seen, Head(toClient))
sessRest == <<vars, transport, coreVars, raised, ws>>
Undisturbed == UNCHANGED <<entry, hook>>

\* _cancel_pending: a task that is not done is cancelled at its next await;
\* CancelledError is no Exception, so nothing below catches it.  Only the
\* class adapter has a finally clause.
Cancelled ==
  /\ entry' = CASE entry \in {"done", "escaped", "unbuilt"} -> entry
                [] entry = "build" -> "unbuilt"
                [] OTHER -> "cancelled"
  /\ hook' = (hook \/ entry \in {"connect", "receive", "message"})

\* __enter__ waits for the first message: an accept enters the block, a close
\* tears the loop down and raises.
Enter ==
  /\ Ready("entering")
  /\ Take
  /\ IF Head(toClient) = "accept" THEN client' = "inside" /\ Undisturbed
     ELSE client' = "left" /\ Cancelled
  /\ UNCHANGED <<toServer, sessRest>>

\* send_text, send_bytes, send_json of the session
ClientSends ==
  /\ client = "inside" /\ Len(toServer) < MaxOps
  /\ toServer' = Append(toServer, "message")
  /\ Undisturbed /\ UNCHANGED <<toClient, client, seen, sessRest>>

\* _next_message: a close marks the session closed and raises.
ClientReceives ==
  /\ Ready("inside")
  /\ Take
  /\ client' = IF Head(toClient) = "close" THEN "stopping" ELSE "inside"
  /\ Undisturbed /\ UNCHANGED <<toServer, sessRest>>

\* close(): the disconnect is put, and the task waited for.
ClientLeaves ==
  /\ client = "inside"
  /\ toServer' = Append(toServer, "disconnect")
  /\ client' = "closing"
  /\ Undisturbed /\ UNCHANGED <<toClient, seen, sessRest>>

\* wait_for comes back, or cancels the task after a second.
LeaveReturns ==
  /\ client = "closing"
  /\ client' = "stopping"
  /\ Cancelled
  /\ UNCHANGED <<toServer, toClient, seen, sessRest>>

\* __exit__: whatever is left on the loop is cancelled and the loop stopped.
Exit ==
  /\ client = "stopping"
  /\ client' = "left"
  /\ Cancelled
  /\ UNCHANGED <<toServer, toClient, seen, sessRest>>

Session == Enter \/ ClientSends \/ ClientReceives \/ ClientLeaves \/ LeaveReturns \/ Exit

\* The Rust side of the connection.
Socket == ~IsDoor /\ UNCHANGED appVars
          /\ (Accepting \/ Route \/ ClientAborts \/ UpgradeFails \/ ClientCloses \/ Teardown)

AppNext == Wrapper \/ Endpoint \/ Session \/ Socket

\* The loop runs the wrapper's own steps, the middlewares come to an end, and
\* the test waits for the first message.  Nothing obliges the endpoint.
AppFairness == WF_allVars(Wrapper) /\ WF_allVars(Enter)

AppSpec == AppInit /\ [][AppNext]_allVars /\ AppFairness

-----------------------------------------------------------------------------

\* Yield dependencies are released in the reverse of the order in which they
\* were entered, each at most once, and all of them when the arguments were
\* built and the entry returned, whatever the endpoint, the middlewares and
\* the exception handlers did (_teardown_generators, _ws_entry).
ReleasedInReverse ==
  /\ IsPrefix(released, Reverse(entered))
  /\ entry \in {"done", "escaped"} /\ frames # <<>> /\ Len(frames) = 1 /\ ~More
       => Len(released) = Len(entered)

\* The frames of an in-process connection: nothing but one close before the
\* accept, one accept, and nothing after the close, however often handler,
\* middleware, exception handler and wrapper ask for one.
FramesInOrder ==
  LET sent == seen \o toClient
  IN \A i \in DOMAIN sent :
       /\ sent[i] = "accept" => i = 1
       /\ sent[i] = "message" => sent[1] = "accept"
       /\ sent[i] = "close" => i = Len(sent)

\* A close queued from a synchronous path reaches a test that still waits in
\* __enter__: "the door flushes after the handler returns" (websockets.py:115),
\* so a failing dependency, value or handler does not leave the test hanging.
\* Only a raw ASGI middleware that raises on its way out, past the flush, does.
QueuedCloseArrives ==
  ws.pending /\ client = "entering" ~> client # "entering" \/ entry = "escaped"

\* A WebSocketEndpoint whose on_connect was called gets its on_disconnect on
\* every way out: return, error, and cancellation by the session.
DisconnectHookRuns ==
  form.class /\ frames # <<>> /\ ~More /\ Top.dep = Root
    /\ entry \notin {"build", "unbuilt", "connect", "receive", "message"} => hook

=============================================================================
