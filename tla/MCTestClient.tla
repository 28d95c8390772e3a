---------------------------- MODULE MCTestClient ----------------------------
(***************************************************************************)
(* TLC instance of the test client and of what a request goes through in   *)
(* the application it reaches (Pipeline), one after the other: a request   *)
(* runs while no server has been started.                                  *)
(*                                                                         *)
(* Two TestClients and an AsyncTestClient of one application, an ASGI      *)
(* caller of another; two server threads, the second of which is given the *)
(* port number of the first while that is free or not bound yet.  The      *)
(* request meets no middleware, one of every kind, or two of the kinds     *)
(* that act on each other's results, around both kinds of route.           *)
(***************************************************************************)
EXTENDS TestClient, Pipeline

CONSTANTS p, a, b, c1, c2, c3, c4

MCPortOf == <<p, p>>
MCAppOf == [c \in Clients |-> IF c = c4 THEN b ELSE a]
MCInProcess ==
  [c \in Clients |-> CASE c = c1 -> "auto" [] c = c2 -> "no"
                       [] c = c3 -> "async" [] c = c4 -> "proxy"]

Mw(shape, deeds) == [shape : {shape}, does : deeds]
Mute == [shape |-> "shim", does |-> "mute"]
Singles == Mw("fn", Deeds) \cup Mw("inst", {"pass"})
             \cup Mw("shim", {"pass", "catch", "reject", "silent", "mute"})
Pairs   == Mw("fn", {"pass", "catch", "yieldIn", "yieldOut"})
             \cup Mw("inst", {"pass"}) \cup Mw("shim", {"pass", "catch", "mute"})

\* A mute shim repeats the handler, and so does what suspends on the way out:
\* of the chains of two that repeat it more than once, one is enough.
Tedious == {<<Mute, Mute>>, <<Mute, [shape |-> "fn", does |-> "yieldOut"]>>}

MCChains == {<<>>} \cup {<<m>> : m \in Singles}
              \cup ({<<m, n>> : m \in Pairs, n \in Pairs} \ Tedious)

\* The request of a run that is about the clients: a bare route, not called yet.
BareApp == [mws |-> <<>>, route |-> "adapter", handlers |-> FALSE, faulty |-> FALSE]
RequestRests == app = BareApp /\ PipelineInit

ClientInit == TestInit /\ PipelineInit

ClientNext ==
  \/ RequestRests /\ TestNext /\ UNCHANGED pipelineVars
  \/ TestInit /\ PipelineNext /\ UNCHANGED testVars

ClientSpec ==
  /\ ClientInit /\ [][ClientNext]_<<testVars, pipelineVars>>
  /\ TestFairness
=============================================================================
