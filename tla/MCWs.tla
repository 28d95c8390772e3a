-------------------------------- MODULE MCWs --------------------------------
(***************************************************************************)
(* TLC instance of a WebSocket connection: the handshake and the Python    *)
(* side of it (WsApp), and, once an endpoint on a Rust socket has accepted *)
(* and before it does anything else, the receive path (WsInbound) or the   *)
(* send path (WsOutbound), in the mode of the connection.                  *)
(*                                                                         *)
(* A chain of three yield dependencies shared by the endpoint and the      *)
(* route, an override, and a class endpoint.  Frames over a batch buffer   *)
(* of one and as many futures: bursts that outgrow the buffer, and wakes   *)
(* that arrive for an older future.  Sends over a channel of one: direct,  *)
(* deferred and queued ones, a full channel and its capacity waiter, then  *)
(* a close.                                                                *)
(***************************************************************************)
EXTENDS WsApp, WsInbound, WsOutbound

Value == [kind |-> "value"]
Dep(d, cached, scope) == [kind |-> "dep", dep |-> d, cached |-> cached, scope |-> scope]

\* session takes db; audit takes db again and is overridden by a
\* generator that takes db uncached; fast is a function-scoped generator.
MCSubDeps ==
  [db      |-> <<>>,
   session |-> <<Dep("db", TRUE, "request"), Value>>,
   audit   |-> <<Dep("db", TRUE, "request")>>,
   stub    |-> <<Dep("db", FALSE, "request")>>,
   slow    |-> <<Dep("fast", TRUE, "function")>>,
   fast    |-> <<>>]

MCOverrides == [d \in DOMAIN MCSubDeps |-> IF d = "audit" THEN "stub" ELSE d]
MCYields == {"db", "session", "stub", "slow", "fast"}

MCForms ==
  {[params |-> <<Dep("session", TRUE, "request")>>, extra |-> <<Dep("audit", TRUE, "request")>>,
    class |-> FALSE],
   [params |-> <<[kind |-> "path"]>>, extra |-> <<Dep("db", TRUE, "request")>>,
    class |-> TRUE],
   [params |-> <<Value>>, extra |-> <<>>, class |-> FALSE],
   [params |-> <<Dep("slow", TRUE, "request")>>, extra |-> <<>>, class |-> FALSE]}

MCConfigs ==
  {[handlers |-> {}, chain |-> TRUE, middleware |-> FALSE],
   [handlers |-> {"error"}, chain |-> FALSE, middleware |-> TRUE],
   [handlers |-> {"validation"}, chain |-> FALSE, middleware |-> FALSE]}

\* An endpoint without parameters has accepted a Rust socket, and nothing else
\* has happened.
Serving ==
  /\ entry = "body" /\ transport = "rust" /\ form.params = <<Value>>
  /\ config.handlers = {"validation"}
  /\ ops = 1 /\ ~rerun
  /\ ws.state = "connected" /\ route = "serving"

\* The largest combination is left to the in-process door.
ConnInit ==
  /\ AppInit /\ InboundInit /\ OutboundInit
  /\ transport = "rust" /\ config.middleware => Len(form.extra) = 0 \/ form.class
  /\ onLoop = loopMode /\ bounded = loopMode

ConnNext ==
  \/ /\ InboundInit /\ OutboundInit
     /\ AppNext /\ UNCHANGED <<inboundVars, outboundVars>>
  \/ /\ Serving /\ OutboundInit
     /\ InboundNext /\ UNCHANGED <<allVars, outboundVars>>
  \/ /\ Serving /\ InboundInit
     /\ OutboundNext /\ UNCHANGED <<allVars, inboundVars>>

ConnSpec ==
  /\ ConnInit /\ [][ConnNext]_<<allVars, inboundVars, outboundVars>>
  /\ AppFairness /\ Fairness /\ OutboundFairness
=============================================================================
