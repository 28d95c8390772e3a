-------------------------------- MODULE Door --------------------------------
(***************************************************************************)
(* The in-process ASGI door of an application (applications.py).           *)
(*                                                                         *)
(* The Rust engine serves from a router that _ensure_oneshot_registered    *)
(* builds out of the application's routes, middlewares, mounts, overrides  *)
(* and handlers.  It is rebuilt when _door_fingerprint, a tuple of counts, *)
(* has changed since the last build.  Requests are coroutines on one event *)
(* loop: everything between two awaits is one step, and registration calls *)
(* made by other coroutines come in between.                               *)
(*                                                                         *)
(* One request: mounts first, then the outer middleware chain (only when   *)
(* Tower-bound and raw-ASGI middlewares are mixed), registration, draining *)
(* the body, dispatch on a thread, the response start, the chunk pump and  *)
(* finally the exceptions captured on the application.                     *)
(***************************************************************************)
EXTENDS Routes, TLC

CONSTANTS
    Reqs,         \* ASGI http requests
    LiveForms,    \* the forms registered while requests are in flight
    LiveMws,      \* and the kinds of middleware
    Aims,         \* request -> names of the routes it may ask for
    MwKinds,      \* "tower", "short", "inst", "fn", "deco", "raw", "sentry"
    MwNames,      \* names of the middlewares, in order of registration
    Patched       \* an APM SDK has patched real FastAPI's routing

VARIABLES
    http,       \* app._http_middlewares
    log,        \* app._mw_registration_log: Tower-bound and raw-ASGI ones
    ov,         \* key set of app.dependency_overrides
    handlers,   \* keys of app.exception_handlers
    dyn,        \* dynamic docs routes present in app.router.routes
    installed,  \* app._in_process_dynamic_routes_installed
    table,      \* the registered router: what it was built from
    builds,     \* how many times a router was registered
    pc,         \* where each request is
    q,          \* per request: see NewReq
    captured    \* app._captured_server_exceptions

appVars == <<http, log, ov, handlers, dyn, installed>>
reqVars == <<table, builds, pc, q, captured>>
vars == <<treeVars, appVars, reqVars>>

Kinds(s) == {s[k].kind : k \in DOMAIN s}
Registered == Range(http) \cup Range(log)

-----------------------------------------------------------------------------
(* Middleware registration. *)

\* _keep_sentry_outermost: the auto-installed entry is moved to the end.
KeepSentryOutermost(h) ==
    SelectSeq(h, LAMBDA m : m.kind # "sentry") \o SelectSeq(h, LAMBDA m : m.kind = "sentry")

\* Tower-bound: the CORS, GZip and HTTPS-redirect classes ("tower") and every
\* string shorthand, also one like "trustedhost" that has no substitute among
\* Starlette's classes ("short").
IsTower(m) == m.kind \in {"tower", "short"}

IsShim(m) == m.kind \in {"raw", "sentry"}

\* Where add_middleware puts a middleware of each kind; @app.middleware only
\* appends.
HttpAfter(m) ==
    CASE IsTower(m)      -> KeepSentryOutermost(http)
      [] m.kind = "deco" -> Append(http, m)
      [] OTHER           -> KeepSentryOutermost(Append(http, m))

AddMiddleware(kind) ==
    /\ MayRegister /\ Cardinality(Registered) < Len(MwNames)
    /\ kind = "sentry" => "sentry" \notin Kinds(http)
    /\ LET m == [name |-> MwNames[Cardinality(Registered) + 1], kind |-> kind]
       IN  /\ http' = HttpAfter(m)
           /\ log' = IF IsTower(m) \/ IsShim(m) THEN Append(log, m) ELSE log
    /\ ops' = ops + 1
    /\ UNCHANGED <<own, kids, mounts, live, ov, handlers, dyn, installed, reqVars>>

Raw == SelectSeq(log, IsShim)
Stack == SelectSeq(log, IsTower)

\* _door_has_tower_raw_mix.
Mix == Raw # <<>> /\ Stack # <<>>

NamesOf(s) == [k \in DOMAIN s |-> s[k].name]

\* _door_outer_mw_list, outermost first: forward wrapping, last one outermost.
\* A shorthand without a Starlette class is left out.
OuterList ==
    IF Mix THEN NamesOf(Reverse(SelectSeq(log, LAMBDA m : m.kind # "short"))) ELSE <<>>

-----------------------------------------------------------------------------
(* _build_server_args. *)

Http(mix) == IF mix THEN SelectSeq(http, LAMBDA m : ~IsShim(m)) ELSE http

\* _adapter_route_info: the declines, in the order they matter here.
AdapterTakes(rd, mix) ==
    /\ rd.kind # "ws" /\ ~rd.mount
    /\ ~Patched
    /\ ov = {}
    /\ rd.obj /\ rd.lean # "no"
    /\ rd.lean = "status" => http = <<>>
    /\ rd.lean = "deps" => Http(mix) = <<>>

\* Adapter, else delegation to real FastAPI (forced when its first pass
\* declines too); what has no route object keeps its own endpoint.
Engine(rd, mix) ==
    CASE rd.kind = "ws"        -> "ws"
      [] AdapterTakes(rd, mix) -> "adapter"
      [] rd.obj                -> "delegated"
      [] OTHER                 -> "raw"

\* The middlewares baked into a handler, outermost first: the list reversed,
\* without the shims in a mix.
AdapterChain(mix) == NamesOf(Reverse(Http(mix)))
DelegatedChain(mix) == NamesOf(Reverse(Http(mix)))

\* Around a custom route class the shims are always left out; pass-through
\* endpoints, proxies and sockets get none.
CustomChain == NamesOf(Reverse(Http(TRUE)))

Baked(rd, mix) ==
    CASE Engine(rd, mix) = "adapter"   -> AdapterChain(mix)
      [] Engine(rd, mix) = "delegated" -> DelegatedChain(mix)
      [] rd.kind = "custom"            -> CustomChain
      [] OTHER                         -> <<>>

Entry(rd, mix) == [path |-> rd.path, name |-> rd.name, kind |-> rd.kind,
                   engine |-> Engine(rd, mix), baked |-> Baked(rd, mix)]

Tower(mix) == IF mix THEN <<>> ELSE NamesOf(Stack)

\* Is a 404 callback installed?
NotFoundInstalled == "404" \in handlers \/ http # <<>> \/ HasLowPriority \/ NeedsFallback

\* The routes handed to Rust, the Tower layers, and which 404 and validation
\* handlers were installed.
BuildServerArgs(forDoor) ==
    LET mix == forDoor /\ Mix
        served == SelectSeq(CollectAll, LAMBDA rd : ~rd.exclude)
    IN  [routes |-> [k \in DOMAIN served |-> Entry(served[k], mix)],
         tower  |-> Tower(mix),
         mix    |-> mix,
         fall   |-> HasLowPriority \/ NeedsFallback,
         nf     |-> NotFoundInstalled,
         rve    |-> "rve" \in handlers]

\* The fingerprint: counts only, except for the override keys.  Low-priority
\* routes are counted with the others below an include, on their own at the root.
RECURSIVE SubCount(_)
SubCount(r) ==
    Len(own[r]) + Len(kids[r])
    + FoldLeft(LAMBDA n, i : n + SubCount(i.child), 0, kids[r])

\* Mutant: routes of included routers are not counted.
FingerprintFlat(d) ==
    <<Len(NormalRoutes("root")) + Len(kids["app"]) + Cardinality(d), Len(http), Len(Stack),
      Len(Raw), Len(mounts), ov, handlers # {}, "sentry" \in Kinds(http), 0,
      Len(own["root"]) - Len(NormalRoutes("root"))>>

Fingerprint(d) ==
    <<Len(NormalRoutes("root")) + Len(kids["app"]) + Cardinality(d),
      Len(http), Len(Stack), Len(Raw), Len(mounts), ov, handlers # {},
      "sentry" \in Kinds(http),
      FoldLeft(LAMBDA n, i : n + SubCount(i.child), 0, kids["app"]),
      Len(own["root"]) - Len(NormalRoutes("root"))>>

Docs == {"openapi", "swagger_ui", "redoc", "swagger_ui_redirect"}

\* _install_in_process_dynamic_routes, on the first request.
WithDocs == IF installed THEN dyn ELSE dyn \cup Docs

\* _ensure_oneshot_registered, with the docs routes d in router.routes: the
\* build keeps only the openapi one, and the fingerprint is taken after it.
Fresh(d) == builds > 0 /\ table.fp = Fingerprint(d)

EnsureRegistered(d) ==
    IF Fresh(d)
    THEN UNCHANGED <<table, builds>> /\ dyn' = d
    ELSE /\ table' = BuildServerArgs(TRUE) @@ [fp |-> Fingerprint({"openapi"})]
         /\ builds' = builds + 1
         /\ dyn' = {"openapi"}

-----------------------------------------------------------------------------
(* Other registration calls. *)

Structural(A) == A /\ UNCHANGED <<http, log, ov, handlers, dyn, installed, reqVars>>

Offered(S) == IF live THEN S \cap LiveForms ELSE S

Register ==
    \/ \E r \in AllRouters, f \in Offered(RouteForms) : Structural(AddApiRoute(r, f))
    \/ \E p \in Routers \cup {"app"}, c \in Routers, f \in Offered(IncludeForms) :
           Structural(IncludeRouter(p, c, f))
    \/ \E f \in Offered(MountForms) : Structural(Mount(f))

SetOverrides(ks) ==
    /\ MayRegister /\ ks # ov
    /\ ov' = ks /\ ops' = ops + 1
    /\ UNCHANGED <<own, kids, mounts, live, http, log, handlers, dyn, installed, reqVars>>

AddExceptionHandler(k) ==
    /\ MayRegister /\ k \notin handlers
    /\ handlers' = handlers \cup {k} /\ ops' = ops + 1
    /\ UNCHANGED <<own, kids, mounts, live, http, log, ov, dyn, installed, reqVars>>

-----------------------------------------------------------------------------
(* One request. *)

NewReq == [target |-> "none", stable |-> FALSE, outer |-> <<>>, mws |-> {},
           applied |-> <<>>, engine |-> "none", watch |-> "none",
           gone |-> FALSE, body |-> "none", starts |-> 0,
           failed |-> FALSE, raised |-> "none"]

Init ==
    /\ \E a \in Apps : TreeInit(a) /\ http = a.http /\ log = a.log
    /\ ov = {} /\ handlers = {}
    /\ dyn = {} /\ installed = FALSE
    /\ table = <<>> /\ builds = 0
    /\ pc = [r \in Reqs |-> "idle"] /\ q = [r \in Reqs |-> NewReq]
    /\ captured = <<>>

Go(r, to, rec) == pc' = [pc EXCEPT ![r] = to] /\ q' = [q EXCEPT ![r] = rec]

\* What is remembered of a request once it is over.
Over(r) == [NewReq EXCEPT !.failed = q[r].failed, !.body = q[r].body]

\* __call__: install the docs routes once, then look at the mounts.  A request
\* for a route of the app goes through the outer chain when there is one.
Under(at, path) == RStrip(at) # <<>> /\ IsPrefix(RStrip(at), path)

UnderMount(path) == \E m \in Range(mounts) : Under(m.at, path)

\* A route of app.router itself with exactly this path keeps it from a mount.
Shadows(path) == \E rt \in Range(own["root"]) : HasPath(rt) /\ rt.path = path

Targets ==
    {rd.name : rd \in {x \in Range(CollectAll) :
        x.kind # "ws" /\ (UnderMount(x.path) => Shadows(x.path))}}
    \cup LowPriority \cup {"missing"}

Call(r, t) ==
    LET d == WithDocs
        rec == [q[r] EXCEPT !.target = t, !.outer = OuterList, !.mws = Registered]
    IN  /\ pc[r] = "idle" /\ live /\ t \in Targets
        /\ installed' = TRUE
        /\ \/ OuterList # <<>> /\ dyn' = d /\ Go(r, "outer", rec) /\ UNCHANGED <<table, builds>>
           \/ OuterList = <<>> /\ EnsureRegistered(d)
              /\ Go(r, "drain", rec)
        /\ UNCHANGED <<treeVars, http, log, ov, handlers, captured>>

\* The outer middlewares may await before they call the leaf, or answer
\* themselves (an HTTPS redirect) without calling it.
OuterLeaf(r) ==
    /\ pc[r] = "outer"
    /\ EnsureRegistered(dyn)
    /\ Go(r, "drain", q[r])
    /\ UNCHANGED <<treeVars, http, log, ov, handlers, installed, captured>>

OuterAnswers(r) ==
    /\ pc[r] = "outer"
    /\ Go(r, "done", Over(r))
    /\ UNCHANGED <<treeVars, appVars, table, builds, captured>>

\* _asgi_try_http_mount and _asgi_call_mounted: the sub-application is awaited in
\* place.  An HTTPException it raises before it has started a response is
\* rendered by the parent's handlers; after the start it is raised again.
CallMounted(r) ==
    /\ pc[r] = "idle" /\ live
    /\ \E m \in Range(mounts) : RStrip(m.at) # <<>> /\ ~Shadows(m.at)
    /\ installed' = TRUE
    /\ dyn' = WithDocs
    /\ Go(r, "mounted", [q[r] EXCEPT !.target = "mount", !.engine = "mount"])
    /\ UNCHANGED <<treeVars, http, log, ov, handlers, table, builds, captured>>

MountedStarts(r) ==
    /\ pc[r] = "mounted" /\ q[r].starts = 0
    /\ Go(r, "mounted", [q[r] EXCEPT !.starts = @ + 1])
    /\ UNCHANGED <<treeVars, appVars, table, builds, captured>>

MountedEnds(r) ==
    /\ pc[r] = "mounted" /\ q[r].starts = 1
    /\ Go(r, "done", Over(r))
    /\ UNCHANGED <<treeVars, appVars, table, builds, captured>>

MountedRaises(r) ==
    /\ pc[r] = "mounted"
    /\ Go(r, "done", IF q[r].starts > 0 THEN [Over(r) EXCEPT !.failed = TRUE, !.raised = r]
                     ELSE Over(r))
    /\ UNCHANGED <<treeVars, appVars, table, builds, captured>>

\* The body is complete, or the client left before it was.  The watcher task is
\* armed when some endpoint of app.router itself streams.
NeedsWatch == \E rt \in Range(own["root"]) : rt.kind \in {"api", "custom"} /\ rt.streams

Drained(r) ==
    /\ pc[r] = "drain"
    /\ \/ Go(r, "run", [q[r] EXCEPT !.watch = IF NeedsWatch THEN "armed" ELSE "none"])
       \/ Go(r, "done", Over(r))
    /\ UNCHANGED <<treeVars, appVars, table, builds, captured>>

\* Which middlewares the answer to r passes through, outermost first, and which
\* engine gives it.  A target the table does not hold is a routing miss: the
\* fallback matches the live routes, then a 404 handler answers, then the
\* middleware chain runs around a synthetic 404.
Hit(t) == {k \in DOMAIN table.routes : table.routes[k].name = t}

LiveMatch(t) == table.fall /\ t \in LowPriority \cup {rd.name : rd \in Range(CollectAll)}

\* Mutant: the fallback chain keeps the raw-ASGI shims in a mix.
DriveUnstripped == NamesOf(Reverse(Http(FALSE)))

\* _drive_route composes the middlewares around a route matched at the fallback.
DriveRoute == NamesOf(Reverse(Http(table.mix)))

NotFound(t) ==
    CASE LiveMatch(t)       -> [engine |-> "fallback", via |-> DriveRoute]
      [] "404" \in handlers -> [engine |-> "handler", via |-> <<>>]
      [] OTHER              -> [engine |-> "notfound", via |-> NamesOf(Reverse(Http(table.mix)))]

Served(t) ==
    CASE Hit(t) # {} -> LET e == table.routes[CHOOSE k \in Hit(t) : \A j \in Hit(t) : k <= j]
                        IN  [engine |-> e.engine, via |-> e.baked]
      [] Hit(t) = {} /\ table.nf -> NotFound(t)
      [] OTHER -> [engine |-> "notfound", via |-> <<>>]

Streams(t) == \E x \in AllRouters : \E rt \in Range(own[x]) : rt.name = t /\ rt.streams

\* process_request_streaming on a thread: it reads the registered router when
\* it runs, answers with a status and a body stream, and an unhandled exception
\* is recorded on the application.
Dispatch(r) ==
    /\ pc[r] = "run"
    /\ LET s == Served(q[r].target)
           rec == [q[r] EXCEPT !.stable = q[r].mws = Registered, !.engine = s.engine,
                               !.applied = q[r].outer \o table.tower \o s.via,
                               !.body = IF Streams(q[r].target) THEN "endless" ELSE "one"]
       IN  \E bad \in {b \in BOOLEAN : b => s.engine \in {"adapter", "delegated", "fallback"}} :
               /\ Go(r, "ready", [rec EXCEPT !.failed = bad, !.body = IF bad THEN "one" ELSE @])
               /\ captured' = IF bad THEN Append(captured, r) ELSE captured
    /\ UNCHANGED <<treeVars, appVars, table, builds>>

\* Mutant: the disconnect event is not looked at between chunks.
PumpBlind(r, rec) ==
    /\ Go(r, "chunk", rec)
    /\ UNCHANGED <<treeVars, appVars, table, builds, captured>>

\* A send has returned: a set disconnect event closes the stream, otherwise the
\* next chunk is asked for.
PumpTop(r, rec) ==
    /\ Go(r, IF rec.watch = "fired" THEN "close" ELSE "chunk", rec)
    /\ UNCHANGED <<treeVars, appVars, table, builds, captured>>

Started(r) == pc[r] = "ready" /\ PumpTop(r, q[r])

Sent(r) == pc[r] = "send" /\ PumpTop(r, q[r])

\* The send of a body chunk raises: caught, and the stream is closed.
SendFails(r) ==
    /\ pc[r] = "send" /\ q[r].gone
    /\ Go(r, "close", q[r])
    /\ UNCHANGED <<treeVars, appVars, table, builds, captured>>

\* The send of the response start, or of the last empty frame, raises: not
\* caught.  The exception leaves the coroutine, the stream object goes with the
\* frame, and the captured exceptions stay where they are.
SendEscapes(r) ==
    /\ pc[r] \in {"ready", "final"} /\ q[r].gone
    /\ Go(r, "done", [Over(r) EXCEPT !.raised = "send",
                                     !.body = IF @ = "endless" THEN "closed" ELSE @])
    /\ UNCHANGED <<treeVars, appVars, table, builds, captured>>

\* next_chunk has returned: a chunk, or None at the end of the body.
NextChunk(r) ==
    /\ pc[r] = "chunk"
    /\ \/ q[r].body = "endless" /\ Go(r, "send", q[r])
       \/ q[r].body = "one" /\ Go(r, "send", [q[r] EXCEPT !.body = "over"])
       \/ q[r].body = "over" /\ Go(r, "final", q[r])
    /\ UNCHANGED <<treeVars, appVars, table, builds, captured>>

\* The watcher is cancelled and the captured list drained: the first entry is
\* raised, the rest are dropped.
Drain(r, body) ==
    /\ Go(r, "done", [Over(r) EXCEPT !.body = body,
                          !.raised = IF captured = <<>> THEN "nothing" ELSE Head(captured)])
    /\ captured' = <<>>
    /\ UNCHANGED <<treeVars, appVars, table, builds>>


\* body_stream.close has returned: the generator is dropped, no final frame.
CloseStream(r) == pc[r] = "close" /\ Drain(r, "closed")

\* The last frame is out.
Finish(r) == pc[r] = "final" /\ Drain(r, q[r].body)

\* The environment: the client goes away; the watcher's receive returns.
ClientGoes(r) ==
    /\ pc[r] \in {"ready", "send", "chunk", "final"} /\ ~q[r].gone
    /\ Go(r, pc[r], [q[r] EXCEPT !.gone = TRUE])
    /\ UNCHANGED <<treeVars, appVars, table, builds, captured>>

WatcherSees(r) ==
    /\ q[r].gone /\ q[r].watch = "armed"
    /\ Go(r, pc[r], [q[r] EXCEPT !.watch = "fired"])
    /\ UNCHANGED <<treeVars, appVars, table, builds, captured>>

Pump(r) == Started(r) \/ Sent(r) \/ NextChunk(r) \/ CloseStream(r) \/ Finish(r)

\* A request that has been dispatched reads nothing that registrations change.
SomeoneReads == \E r \in Reqs : pc[r] \in {"idle", "outer", "drain", "run"}

Registration ==
    /\ MayRegister /\ SomeoneReads
    /\ \/ Register
       \/ \E k \in IF live THEN LiveMws ELSE MwKinds : AddMiddleware(k)
       \/ \E ks \in {{}, {"dep"}} : SetOverrides(ks)
       \/ \E k \in IF live THEN {"404"} ELSE {"404", "rve"} : AddExceptionHandler(k)

Next ==
    \/ Registration
    \/ \E r \in Reqs : \/ pc[r] = "idle" /\ \E t \in Targets \cap Aims[r] : Call(r, t)
                       \/ CallMounted(r) \/ MountedStarts(r) \/ MountedEnds(r) \/ MountedRaises(r)
                       \/ OuterLeaf(r) \/ OuterAnswers(r) \/ Drained(r) \/ Dispatch(r)
                       \/ Pump(r) \/ SendFails(r) \/ SendEscapes(r) \/ ClientGoes(r) \/ WatcherSees(r)

\* The event loop resumes a coroutine whose send or executor job has returned,
\* and every send and every job returns.
Spec == Init /\ [][Next]_vars
             /\ \A r \in Reqs : WF_vars(Pump(r)) /\ WF_vars(WatcherSees(r))

-----------------------------------------------------------------------------
(* Properties. *)

\* As long as the counts of the fingerprint are unchanged, the registered router
\* is the one a build would make now: the same routes in the same order, served
\* by the same engine behind the same middlewares, and the same fallback mode
\* (_ensure_oneshot_registered: "so the door never serves a stale router").
\* Routes under a mount are left out: the door awaits the sub-application.
NeverStale ==
    Fresh(dyn) =>
        LET b == BuildServerArgs(TRUE)
            ours(t) == SelectSeq(t.routes, LAMBDA e : ~UnderMount(e.path))
        IN  /\ ours(table) = ours(b)
            /\ table.tower = b.tower /\ table.mix = b.mix /\ table.fall = b.fall

Occurs(x, s) == Cardinality({k \in DOMAIN s : s[k] = x})

\* If no middleware was registered after a request arrived, none wraps it twice,
\* whether Tower, the outer chain, the wrapped handler, the 404 fallback or the
\* not-found path applies it, on a table that other requests may have replaced
\* meanwhile (_drive_route strips what the fallback has applied already); and on
\* compiled routes, fallback routes and misses each one wraps it exactly once.
\* Two gaps of the code are part of the statement: in a mix a shorthand without
\* a Starlette class wraps nothing, and pass-through endpoints and custom route
\* classes (engine "raw") get only some of the chain, or none of it.
RequestWrappedOnce ==
    \A r \in Reqs : q[r].stable =>
        \A m \in q[r].mws :
            LET n == Occurs(m.name, q[r].applied)
            IN  IF q[r].engine \in {"adapter", "delegated", "fallback", "notfound"}
                THEN n = IF m.kind = "short" /\ q[r].outer # <<>> THEN 0 ELSE 1
                ELSE n <= 1

InFlight(r) == pc[r] \in {"ready", "send", "chunk", "final", "close"}


\* A request whose response was sent raises the exception its own handler raised
\* and nothing otherwise (_asgi_oneshot_http: "Re-raise an unhandled server
\* exception AFTER the 500 response is sent (Starlette ServerErrorMiddleware
\* semantics)").  The code does not keep this: the list belongs to the app.
RaisesItsOwn ==
    \A r \in Reqs : pc[r] = "done" /\ q[r].raised \notin {"none", "send"} =>
        q[r].raised = IF q[r].failed THEN r ELSE "nothing"

\* When the client leaves an endless stream of a route of app.router, the
\* generator behind it is closed.
DisconnectClosesStream ==
    \A r \in Reqs :
        (q[r].gone /\ q[r].body = "endless" /\ q[r].watch = "armed") ~> q[r].body = "closed"
=============================================================================
