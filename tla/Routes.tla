------------------------------- MODULE Routes -------------------------------
(***************************************************************************)
(* Registration and collection of routes (applications.py, routing.py,     *)
(* _route_helpers.py).                                                     *)
(*                                                                         *)
(* An application is built by calls made in any order: decorators append   *)
(* routes to a router, include_router hangs a router below another one (or *)
(* below the app) with a record of include-level metadata, and mount adds  *)
(* sub-applications.  Nothing is flattened at registration time.  Two      *)
(* walkers read the tree later:                                            *)
(*   - _collect_all_routes flattens it into the route dicts ("rds") that   *)
(*     the Rust router and the OpenAPI generator are built from;           *)
(*   - the include contexts of the _IncludedRouter markers, folded pairwise*)
(*     by _TurboRouterIncludeContext.combine, serve the 404 fallback and   *)
(*     request.scope["fastapi"]["effective_route_context"].                *)
(*                                                                         *)
(* A layer (the app, a router, an include, a route) contributes its own    *)
(* name wherever it contributes dependencies, tags, callbacks, responses,  *)
(* a response class or an id function, so the merged value names the       *)
(* layers it came from, in order.  A path is a sequence of tokens, "/"     *)
(* among them.                                                             *)
(***************************************************************************)
EXTENDS Naturals, Sequences, FiniteSets, SequencesExt

CONSTANTS
    Routers,        \* APIRouter instances besides app.router
    RouterForm,     \* router (or "root") -> constructor arguments
    RouteForms,     \* the forms of route a decorator may be given
    IncludeForms,   \* the keyword arguments an include_router may be given
    MountForms,     \* [at: path, what: "app" | "router" | "asgi", to: router]
    SubApp,         \* rds the mounted FastAPI collects for itself
    RouteNames,     \* names given to routes, in order of registration
    IncludeNames,   \* names given to includes, in order of registration
    Apps,           \* the applications behaviours start from: their routes,
                    \* includes, middlewares, and whether requests arrive
    MaxOps,         \* bound on registration calls where no request arrives
    LiveOps         \* bound on registration calls where requests do

VARIABLES
    own,      \* router.routes without the include markers, and the low-priority routes
    kids,     \* router._included_routers; kids["app"] is app._included_routers
    mounts,   \* app._mounts
    ops,      \* registration calls made so far
    live      \* do requests arrive in this behaviour?

treeVars == <<own, kids, mounts, ops, live>>

MayRegister == ops < IF live THEN LiveOps ELSE MaxOps

AllRouters == Routers \cup {"root"}

\* Low-priority routes (frontend) live in a list of their own, router.
\* _low_priority_routes; they and routes without a path are never flattened.
NormalRoutes(r) == SelectSeq(own[r], LAMBDA rt : rt.kind # "low")

HasPath(rt) == rt.kind \notin {"pathless", "low"}

NumRoutes == FoldFunction(LAMBDA s, n : Len(s) + n, 0, own)
NumIncludes == FoldFunction(LAMBDA s, n : Len(s) + n, 0, kids)

TreeInit(a) ==
    /\ own = [r \in AllRouters |-> a.own[r]]
    /\ kids = [r \in Routers \cup {"app"} |-> a.kids[r]]
    /\ mounts = <<>> /\ ops = 0 /\ live = a.live

-----------------------------------------------------------------------------
(* Registration. *)

AddApiRoute(r, f) ==
    /\ MayRegister /\ NumRoutes < Len(RouteNames)
    /\ own' = [own EXCEPT ![r] = Append(@, f @@ [name |-> RouteNames[NumRoutes + 1]])]
    /\ ops' = ops + 1
    /\ UNCHANGED <<kids, mounts, live>>

\* Routers reachable from r through _included_routers, r included.
Below(r) ==
    LET step(S) == S \cup {i.child : i \in UNION {Range(kids[x]) : x \in S}}
    IN  IF kids[r] = <<>> THEN {r} ELSE step(step(step({r})))

\* Chains of includes, one below the other, that start below x.
RECURSIVE ChainsBelow(_)
ChainsBelow(x) ==
    {<<>>} \cup UNION {{<<i>> \o c : c \in ChainsBelow(i.child)} : i \in Range(kids[x])}

IncludePath(c) == FoldLeft(LAMBDA p, i : p \o i.pre \o RouterForm[i.child].pre, <<>>, c)

\* An effective route of r whose path is empty: FastAPI refuses to include it
\* under an empty prefix.
HasEmptyPath(r) ==
    \E c \in ChainsBelow(r) :
        LET last == IF c = <<>> THEN r ELSE c[Len(c)].child
        IN  \E rt \in Range(own[last]) :
                HasPath(rt) /\ IncludePath(c) \o rt.path = <<>>

IncludeMeta(c, f) ==
    f @@ [child |-> c, name |-> IncludeNames[NumIncludes + 1]]

\* The deprecated flag stored in include_meta: the keyword, else the router's.
WithDeprecated(i) ==
    [i EXCEPT !.dep = IF @ # "none" THEN @ ELSE RouterForm[i.child].dep]

CanInclude(p, c, f) ==
    IF p = "app"
    THEN (f.pre = <<>> /\ RouterForm[c].pre = <<>>) => ~HasEmptyPath(c)
    ELSE p \notin Below(c)

IncludeRouter(p, c, f) ==
    /\ MayRegister /\ NumIncludes < Len(IncludeNames)
    /\ CanInclude(p, c, f)
    /\ kids' = [kids EXCEPT ![p] = Append(@, WithDeprecated(IncludeMeta(c, f)))]
    /\ ops' = ops + 1
    /\ UNCHANGED <<own, mounts, live>>

Mount(f) ==
    /\ MayRegister /\ Len(mounts) < 1
    /\ mounts' = Append(mounts, f)
    /\ ops' = ops + 1
    /\ UNCHANGED <<own, kids, live>>

-----------------------------------------------------------------------------
(* _collect_routes_from_router. *)

Strip(p) ==
    LET names == {k \in 1..Len(p) : p[k] # "/"}
    IN  IF names = {} THEN <<>>
        ELSE SubSeq(p, CHOOSE k \in names : \A j \in names : k <= j,
                       CHOOSE k \in names : \A j \in names : k >= j)

Trailing(p) == p # <<>> /\ p[Len(p)] = "/"

NormPath(p) ==
    IF p = <<"/">> THEN p
    ELSE <<"/">> \o Strip(p) \o (IF Trailing(p) THEN <<"/">> ELSE <<>>)

RStrip(p) == IF Strip(p) = <<>> THEN <<>> ELSE <<"/">> \o Strip(p)

\* What an outer level hands down to a router: the keyword parameters of
\* _collect_routes_from_router.
Ctx0 == [pre |-> <<>>, tags |-> <<>>, deps |-> <<>>, resp |-> <<>>, cbs |-> <<"app">>,
         dep |-> "none", schema |-> TRUE, rc |-> "none", gid |-> "none"]

FirstSet(s) == LET set == SelectSeq(s, LAMBDA x : x # "none")
               IN  IF set = <<>> THEN "none" ELSE Head(set)

Sets(flag, name) == IF flag THEN name ELSE "none"

AllDependencies(ctx, r, rt) ==
    IF rt.kind = "dynamic" THEN <<>> ELSE <<"app">> \o ctx.deps \o <<r, rt.name>>

\* _normalize_gen_ids: including a router rewrites its unset id function into
\* Default(generate_unique_id), on it and on every router below it.
Normalised(r) ==
    \E p \in DOMAIN kids : \E i \in Range(kids[p]) : r \in Below(i.child)

\* The cascade route -> router -> include -> app of _apply_generate_unique_id;
\* a placeholder counts as unset.
UniqueIdBy(ctx, r, rt) ==
    IF ~rt.schema THEN "none"
    ELSE FirstSet(<<Sets(rt.gid, rt.name), Sets(RouterForm[r].gid, r), ctx.gid,
                    Sets(RouterForm["root"].gid, "app")>>)

\* The id function handed to a child: the include's own, else whatever is
\* stored on the router (a placeholder once the router is normalised), else
\* the outer one.
UniqueIdDown(ctx, r, i) ==
    IF i.gid THEN i.name
    ELSE IF RouterForm[r].gid THEN r
    ELSE IF Normalised(r) THEN "none" ELSE ctx.gid

StrictBy(r, rt) == FirstSet(<<rt.strict, RouterForm[r].strict, RouterForm["root"].strict>>)

\* Hooks that upstream consults per request keep a route, or everything below an
\* included router, out of the Rust router.
RouteHooked(rt) == rt.kind = "hooked"
RouterHooked(c) == RouterForm[c].hooked

\* The entry every kind of route starts from.
BaseRd(ctx, r, rt) ==
    [path |-> NormPath(ctx.pre \o RouterForm[r].pre \o rt.path),
     name |-> rt.name, kind |-> rt.kind, lean |-> rt.lean,
     tags |-> ctx.tags \o <<r, rt.name>>,
     deps |-> <<>>, resp |-> <<>>, cbs |-> <<>>, rc |-> "none", gid |-> "none", lax |-> FALSE,
     dep |-> FALSE, schema |-> TRUE, shown |-> rt.schema,
     exclude |-> RouteHooked(rt), obj |-> FALSE, mount |-> FALSE]

\* A socket endpoint is wrapped with all its dependencies.
SocketRd(ctx, r, rt) == [BaseRd(ctx, r, rt) EXCEPT !.deps = AllDependencies(ctx, r, rt)]

\* Starlette endpoints resolve no dependencies and cascade no response class.
PassthroughRd(ctx, r, rt) ==
    [BaseRd(ctx, r, rt) EXCEPT
        !.resp = <<"app">> \o ctx.resp \o <<r, rt.name>>,
        !.cbs = ctx.cbs \o <<r, rt.name>>,
        !.rc = Sets(rt.rc, rt.name),
        !.dep = "yes" \in {rt.dep, RouterForm[r].dep, ctx.dep},
        !.schema = rt.schema /\ ctx.schema]

\* A route class with its own get_route_handler, in addition an operation id.
CustomRd(ctx, r, rt) ==
    [PassthroughRd(ctx, r, rt) EXCEPT !.gid = UniqueIdBy(ctx, r, rt)]

ApiRd(ctx, r, rt) ==
    [CustomRd(ctx, r, rt) EXCEPT
        !.deps = AllDependencies(ctx, r, rt),
        !.rc = FirstSet(<<Sets(rt.rc, rt.name), Sets(RouterForm[r].rc, r), ctx.rc, "app">>),
        !.lax = StrictBy(r, rt) = "lax",
        !.obj = TRUE]

Collected(ctx, r, rt) ==
    CASE rt.kind = "ws"                     -> SocketRd(ctx, r, rt)
      [] rt.kind \in {"starlette", "proxy"} -> PassthroughRd(ctx, r, rt)
      [] rt.kind = "custom"                 -> CustomRd(ctx, r, rt)
      [] OTHER                              -> ApiRd(ctx, r, rt)

\* Mutant: the prefix of the including router is not handed down.
CtxSkips(ctx, r, i) ==
    [pre    |-> ctx.pre \o i.pre,
     tags   |-> ctx.tags \o <<r, i.name>>,
     deps   |-> ctx.deps \o <<r, i.name>>,
     resp   |-> ctx.resp \o <<r, i.name>>,
     cbs    |-> ctx.cbs \o <<r, i.name>>,
     dep    |-> ctx.dep, schema |-> ctx.schema, rc |-> ctx.rc, gid |-> ctx.gid]

\* What the walk of r hands to the router of include i.
CtxDown(ctx, r, i) ==
    [pre    |-> ctx.pre \o RouterForm[r].pre \o i.pre,
     tags   |-> ctx.tags \o <<r, i.name>>,
     deps   |-> ctx.deps \o <<r, i.name>>,
     resp   |-> ctx.resp \o <<r, i.name>>,
     cbs    |-> ctx.cbs \o <<r, i.name>>,
     dep    |-> IF i.dep # "none" THEN i.dep ELSE ctx.dep,
     schema |-> ctx.schema /\ i.schema,
     rc     |-> FirstSet(<<Sets(i.rc, i.name), Sets(RouterForm[r].rc, r), ctx.rc>>),
     gid    |-> UniqueIdDown(ctx, r, i)]

\* What _collect_all_routes hands to a router included by the app.
CtxOfApp(i) ==
    [pre |-> i.pre, tags |-> <<i.name>>, deps |-> <<i.name>>, resp |-> <<i.name>>,
     cbs |-> <<"app", i.name>>, dep |-> i.dep, schema |-> i.schema,
     rc |-> Sets(i.rc, i.name), gid |-> Sets(i.gid, i.name)]

Excluding(c, rds) ==
    IF RouterHooked(c)
    THEN [k \in DOMAIN rds |-> [rds[k] EXCEPT !.exclude = TRUE]] ELSE rds

RECURSIVE CollectFrom(_, _)
CollectFrom(r, ctx) ==
    LET flat == SelectSeq(own[r], HasPath)
        mine == [k \in DOMAIN flat |-> Collected(ctx, r, flat[k])]
        kid(i) == Excluding(i.child, CollectFrom(i.child, CtxDown(ctx, r, i)))
    IN  mine \o (IF r = "root" THEN <<>>
                 ELSE FlattenSeq([k \in DOMAIN kids[r] |-> kid(kids[r][k])]))

\* A mounted FastAPI's own routes under the mount path, and its schema route.
Prefixed(at, rd) ==
    LET p == RStrip(at) \o (IF rd.path = <<"/">> THEN <<>> ELSE rd.path)
    IN  [rd EXCEPT !.path = IF p = <<>> THEN <<"/">> ELSE p, !.mount = TRUE]

Plain(path, name) ==
    [Collected(Ctx0, "root", [name |-> name, kind |-> "proxy", path |-> <<>>, lean |-> FALSE,
                              dep |-> "none", schema |-> FALSE, gid |-> FALSE, rc |-> FALSE,
                              strict |-> "none"])
        EXCEPT !.path = path, !.mount = TRUE, !.tags = <<>>]

AsgiMountRoutes(at) ==
    <<Plain(IF RStrip(at) = <<>> THEN <<"/">> ELSE RStrip(at), "asgi"),
      Plain(RStrip(at) \o <<"/", "{rest}">>, "asgi")>>

CollectMount(m) ==
    CASE m.what = "app"    -> [k \in DOMAIN SubApp |-> Prefixed(m.at, SubApp[k])]
                              \o <<Plain(RStrip(m.at) \o <<"/", "openapi">>, "openapi_sub")>>
      [] m.what = "router" -> CollectFrom(m.to, [Ctx0 EXCEPT !.pre = m.at, !.cbs = <<>>])
      [] m.what = "asgi"   -> AsgiMountRoutes(m.at)

CollectAll ==
    CollectFrom("root", Ctx0)
    \o FlattenSeq([k \in DOMAIN kids["app"] |->
           LET i == kids["app"][k] IN Excluding(i.child, CollectFrom(i.child, CtxOfApp(i)))])
    \o FlattenSeq([k \in DOMAIN mounts |-> CollectMount(mounts[k])])

\* _door_needs_route_fallback after a collection: some collected route or
\* router has dispatch hooks, or has no path, which the Rust router cannot match.
Walked ==
    {"root"} \cup UNION {Below(i.child) : i \in Range(kids["app"])}
             \cup UNION {Below(m.to) : m \in {x \in Range(mounts) : x.what = "router"}}

NeedsFallback ==
    \/ \E r \in Walked : \E rt \in Range(own[r]) : rt.kind \in {"pathless", "hooked"}
    \/ \E p \in (Walked \ {"root"}) \cup {"app"} :
           \E i \in Range(kids[p]) : RouterHooked(i.child)

\* app_has_low_priority_routes, and the routes _match_low_priority may give.
Included == {"root"} \cup UNION {Below(i.child) : i \in Range(kids["app"])}

LowPriority == {rt.name : rt \in {x \in UNION {Range(own[r]) : r \in Included} : x.kind = "low"}}

HasLowPriority == LowPriority # {}

-----------------------------------------------------------------------------
(* The include contexts of the _IncludedRouter markers. *)

MarkerCtx(p, i) ==
    [pre |-> i.pre, own |-> RouterForm[i.child].pre,
     tags |-> <<i.name, i.child>>, deps |-> <<i.name, i.child>>, cbs |-> <<i.name, i.child>>,
     resp |-> <<p, i.name, i.child>>, dep |-> i.dep = "yes",
     schema |-> i.schema /\ RouterForm[i.child].schema]

Combine(outer, inner) ==
    [pre |-> outer.pre \o outer.own \o inner.pre, own |-> inner.own,
     tags |-> outer.tags \o inner.tags, deps |-> outer.deps \o inner.deps,
     cbs |-> outer.cbs \o inner.cbs, resp |-> outer.resp \o inner.resp,
     dep |-> outer.dep \/ inner.dep, schema |-> outer.schema /\ inner.schema]

PathFor(ctx, rt) == ctx.pre \o ctx.own \o rt.path

ParentIn(c, k) == IF k = 1 THEN "app" ELSE c[k - 1].child

EffectiveCtx(c) ==
    FoldLeft(LAMBDA x, k : Combine(x, MarkerCtx(ParentIn(c, k), c[k])),
             MarkerCtx("app", c[1]), [k \in 1..(Len(c) - 1) |-> k + 1])

IncludedRoutes ==
    {<<c, rt>> \in (ChainsBelow("app") \ {<<>>}) \X UNION {Range(own[r]) : r \in Routers} :
        rt \in Range(own[c[Len(c)].child]) /\ HasPath(rt)}

-----------------------------------------------------------------------------
(* _openapi_real_routes: which operations the schema documents.            *)

Documented(rd) == ~rd.mount /\ rd.kind # "ws" /\ rd.obj /\ rd.shown

OpenApiRoutes == SelectSeq(CollectAll, Documented)

-----------------------------------------------------------------------------
(* Properties of the two walkers. *)

\* The entries of the flatten for what the app includes.
IncludedRds ==
    FlattenSeq([k \in DOMAIN kids["app"] |->
        LET i == kids["app"][k] IN CollectFrom(i.child, CtxOfApp(i))])

\* The entry that the flatten and the include context agree on for route rt
\* reached through the includes c.
SameEntry(rd, c, rt) ==
    /\ rd.name = rt.name
    /\ rd.path = NormPath(PathFor(EffectiveCtx(c), rt))
    /\ rd.tags = EffectiveCtx(c).tags \o <<rt.name>>

\* The flatten has exactly one entry for each way to reach an included route,
\* however deep, repeated or shared the includes, at the path and with the tags
\* that the include contexts give it, and the schema documents the operation at
\* that path: what the Rust router serves, what the 404 fallback matches and
\* what openapi() shows are the same operations.
SameReach ==
    /\ Len(IncludedRds) = Cardinality(IncludedRoutes)
    /\ \A x \in IncludedRoutes : \E rd \in Range(IncludedRds) :
           /\ SameEntry(rd, x[1], x[2])
           /\ rd.kind \in {"api", "hooked"} /\ rd.shown =>
                  \E d \in Range(OpenApiRoutes) : d.name = rd.name /\ d.path = rd.path

\* An included route has the same dependencies and callbacks in the flatten and
\* in its include context (_append_included_router: "lands on the same effective
\* values as the door flatten").  The code does not keep this: the flatten adds
\* the application's own ones, and the context has no such layer.
WalkersAgree ==
    \A x \in IncludedRoutes : \E rd \in Range(IncludedRds) :
        LET ctx == EffectiveCtx(x[1])
            rt == x[2]
        IN  /\ SameEntry(rd, x[1], rt)
            /\ rt.kind # "ws" => rd.cbs = ctx.cbs \o <<rt.name>>
            /\ rt.kind \in {"api", "hooked", "ws"} => rd.deps = ctx.deps \o <<rt.name>>

=============================================================================
