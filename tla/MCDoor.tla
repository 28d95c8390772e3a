------------------------------- MODULE MCDoor -------------------------------
\* A small application: app.router and two APIRouters, two routes, two includes,
\* two middlewares, one mount and two concurrent requests.
EXTENDS Door

Form(pre) == [pre |-> pre, rc |-> FALSE, gid |-> FALSE, dep |-> "none", schema |-> TRUE]

MCRouterForm ==
    "root" :> (Form(<<>>) @@ [strict |-> "none", hooked |-> FALSE])
    @@ "A" :> ([Form(<<"/", "a">>) EXCEPT !.rc = TRUE] @@ [strict |-> "lax", hooked |-> FALSE])
    @@ "B" :> ([Form(<<>>) EXCEPT !.dep = "yes"] @@ [strict |-> "none", hooked |-> TRUE])

Route(kind, path, lean, streams) ==
    Form(<<>>) @@ [kind |-> kind, path |-> path, lean |-> lean, streams |-> streams,
                   strict |-> "none"]

MCRouteForms == {Route("api", <<"/", "x">>, "deps", FALSE),
                 [Route("hooked", <<>>, "no", FALSE) EXCEPT !.rc = TRUE],
                 Route("custom", <<"/", "c", "/">>, "status", FALSE),
                 Route("ws", <<"/", "w">>, "no", FALSE), Route("low", <<>>, "no", FALSE),
                 Route("pathless", <<>>, "no", FALSE)}

MCIncludeForms == {Form(<<>>), [Form(<<"/", "i">>) EXCEPT !.rc = TRUE, !.dep = "no"]}

MCMountForms == {[at |-> <<"/", "m">>, what |-> w, to |-> "A"] : w \in {"app", "router", "asgi"}}

MCSubApp == <<[path |-> <<"/", "s">>, name |-> "sub", kind |-> "api", lean |-> "yes",
               tags |-> <<"sub">>, deps |-> <<"sub">>, resp |-> <<"sub">>, cbs |-> <<"sub">>,
               rc |-> "sub", gid |-> "none", lax |-> FALSE, dep |-> FALSE, schema |-> TRUE,
               shown |-> TRUE, exclude |-> FALSE, obj |-> TRUE, mount |-> FALSE]>>

\* The empty application, where registration calls come in any order, and two
\* applications that requests reach: an endless stream and a route with dispatch
\* hooks, behind a raw-ASGI middleware; and a route and a frontend below an
\* include, behind a mix.
Nothing == [r \in {"root", "A", "B", "app"} |-> <<>>]

Named(f, n) == f @@ [name |-> n]

MCApps ==
    {[own |-> Nothing, kids |-> Nothing, http |-> <<>>, log |-> <<>>, live |-> FALSE],
     [own |-> [Nothing EXCEPT !["root"] = <<Named(Route("api", <<"/", "m">>, "yes", TRUE), "r1"),
                                           Named(Route("hooked", <<"/", "h">>, "no", FALSE), "r2")>>],
      kids |-> Nothing, http |-> <<[name |-> "m1", kind |-> "raw"]>>,
      log |-> <<[name |-> "m1", kind |-> "raw"]>>, live |-> TRUE],
     [own |-> [Nothing EXCEPT !["A"] = <<Named(Route("api", <<"/", "x">>, "deps", FALSE), "r1"),
                                        Named(Route("low", <<>>, "no", FALSE), "r2")>>],
      kids |-> [Nothing EXCEPT !["app"] = <<Form(<<>>) @@ [child |-> "A", name |-> "i1"]>>],
      http |-> <<[name |-> "m1", kind |-> "raw"], [name |-> "m3", kind |-> "fn"]>>,
      log |-> <<[name |-> "m1", kind |-> "raw"], [name |-> "m2", kind |-> "tower"]>>, live |-> TRUE]}

MCEmptyApp == {a \in MCApps : ~a.live}

MCLiveForms == {Route("api", <<"/", "x">>, "deps", FALSE), Form(<<>>),
                [at |-> <<"/", "m">>, what |-> "app", to |-> "A"]}

MCAims == "q1" :> {"r1"} @@ "q2" :> {"r2", "missing"}

Seq3 == <<"r1", "r2", "r3">>
Inc3 == <<"i1", "i2", "i3">>
MwSeq == <<"m1", "m2", "m3", "m4">>
=============================================================================
