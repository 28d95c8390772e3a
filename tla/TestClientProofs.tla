-------------------------- MODULE TestClientProofs --------------------------
(***************************************************************************)
(* Proofs about the servers of a process, for any set of servers, ports,   *)
(* applications and clients: a notifier that a request has taken out of    *)
(* the map never gets back in, an application has one server besides that  *)
(* of its ASGI adapter, and a request is answered by the client's own      *)
(* application unless two servers raced for a port.                        *)
(***************************************************************************)
EXTENDS TestClient, TLAPS

-----------------------------------------------------------------------------
(* The registry *)

(* The control states of a server that has registered.                     *)
Registered == {"registered", "waiting", "stopped"}

(***************************************************************************)
(* A server registers once: whoever is in the map, or was found there, is  *)
(* past register_shutdown_notifier.  Without it TrippedOnce is not         *)
(* inductive, as a found server could register again.                      *)
(***************************************************************************)
RegisteredFirst ==
  /\ \A p \in Ports : entry[p] # NoServer =>
                        pc[entry[p]] \in Registered /\ PortOf[entry[p]] = p
  /\ \A s \in Servers : found[s] # "none" => pc[s] \in Registered

RegistryInv == TypeOK /\ TrippedOnce /\ RegisteredFirst

LEMMA RegistryInit == Init => RegistryInv
  BY RegistryAssumption DEF Init, RegistryInv, TypeOK, TrippedOnce, RegisteredFirst

LEMMA RegistryStep == RegistryInv /\ [Next]_vars => RegistryInv'
  <1> SUFFICES ASSUME RegistryInv, [Next]_vars PROVE RegistryInv'
    OBVIOUS
  <1> USE RegistryAssumption DEF RegistryInv, TypeOK, TrippedOnce, RegisteredFirst, Registered
  <1>1. ASSUME NEW s \in Servers, Bind(s) PROVE RegistryInv'
    BY <1>1 DEF Bind
  <1>2. ASSUME NEW s \in Servers, Register(s) PROVE RegistryInv'
    BY <1>2 DEF Register
  <1>3. ASSUME NEW s \in Servers, Subscribe(s) PROVE RegistryInv'
    BY <1>3 DEF Subscribe
  <1>4. ASSUME NEW s \in Servers, StopOnNotify(s) PROVE RegistryInv'
    BY <1>4 DEF StopOnNotify
  <1>5. ASSUME NEW s \in Servers, StopOnSignal(s) PROVE RegistryInv'
    BY <1>5 DEF StopOnSignal
  <1>6. ASSUME NEW p \in Ports, RequestServerShutdown(p) PROVE RegistryInv'
    BY <1>6 DEF RequestServerShutdown
  <1>7. CASE UNCHANGED vars
    BY <1>7 DEF vars
  <1> QED
    BY <1>1, <1>2, <1>3, <1>4, <1>5, <1>6, <1>7 DEF Next, Step

\* The registry's state keeps its types; in particular no request finds a
\* server whose router is not built yet (run_server binds before it registers).
THEOREM RegistryTypeCorrect == Spec => []TypeOK
  <1>1. RegistryInv => TypeOK
    BY DEF RegistryInv
  <1> QED
    BY RegistryInit, RegistryStep, <1>1, PTL DEF Spec

\* For any number of servers, request_server_shutdown answers True for each of
\* them at most once.
THEOREM TripsOnce == Spec => []TrippedOnce
  <1>1. RegistryInv => TrippedOnce
    BY DEF RegistryInv
  <1> QED
    BY RegistryInit, RegistryStep, <1>1, PTL DEF Spec

-----------------------------------------------------------------------------
(* The clients and their servers *)

ClientTypeOK ==
  /\ pc \in [Servers -> {"off", "listening", "registered", "waiting", "stopped"}]
  /\ at \in [Clients -> {"idle", "boot", "run", "raise", "join"}]
  /\ kind \in [Clients -> {"none", "request", "enter"}]
  /\ server \in [Clients -> Servers \cup {NoServer}]
  /\ owner \in [Servers -> Apps \cup {NoApp}]
  /\ cache \in [Apps -> Servers \cup {NoServer}]
  /\ adapter \in [Apps -> Servers \cup {NoServer}]
  /\ started \subseteq Clients /\ inproc \subseteq Clients /\ within \subseteq Clients

\* A live server is the cached one of its application, or that of its ASGI
\* adapter, or released.
LiveIsKnown ==
  \A s \in Servers \ released :
    Alive(s) => s \in {cache[owner[s]], adapter[owner[s]]}

\* The cache and the adapter of an application point at its own servers.
PointsToOwn ==
  \A app \in Apps :
    /\ cache[app] # NoServer => owner[cache[app]] = app
    /\ adapter[app] # NoServer => owner[adapter[app]] = app

\* A thread that has not been started is off, and two live servers were given
\* the same port only if they raced for it.
PortsApart ==
  /\ \A s \in Servers : owner[s] = NoApp => pc[s] = "off"
  /\ \A s, r \in Servers :
       Alive(s) /\ Alive(r) /\ PortOf[s] = PortOf[r] => s = r \/ s \in raced

\* The server of a client runs its application, and a client that uses
\* servers has one from its first start on.
ServerIsOwn ==
  \A c \in Clients :
    /\ server[c] # NoServer => owner[server[c]] = AppOf[c]
    /\ c \notin inproc /\ (c \in started \cup within \/ at[c] \in {"boot", "run"})
         => server[c] # NoServer

\* A TestClient that is past _ensure_started has seen the overrides.
OverridesSeen ==
  \A c \in Clients :
    at[c] \in {"boot", "run"} /\ InProcess[c] \in {"auto", "yes", "no"} /\ AppOf[c] \in overridden
      => c \in inproc

\* The inductive invariant.  The properties speak of live servers only; what
\* keeps them apart is who may point at whom, and that the kernel hands out
\* no port on which a server listens: one that lives and does not listen has
\* not bound its port yet, which is the race.
ClientInv ==
  ClientTypeOK /\ LiveIsKnown /\ PointsToOwn /\ PortsApart /\ ServerIsOwn /\ OverridesSeen

LEMMA ClientInit == TestInit => ClientInv
<1> SUFFICES ASSUME TestInit PROVE ClientInv
  OBVIOUS
<1> USE RegistryAssumption, ClientsAssumption DEF TestInit, Init
<1>1. ClientTypeOK
  BY DEF ClientTypeOK
<1>2. LiveIsKnown /\ PortsApart
  BY DEF LiveIsKnown, PortsApart, Alive
<1>3. PointsToOwn /\ ServerIsOwn /\ OverridesSeen
  BY DEF PointsToOwn, ServerIsOwn, OverridesSeen
<1> QED
  BY <1>1, <1>2, <1>3 DEF ClientInv

LEMMA ClientStep == ClientInv /\ [TestNext]_testVars => ClientInv'
<1> SUFFICES ASSUME ClientInv, [TestNext]_testVars PROVE ClientInv'
  OBVIOUS
<1> USE RegistryAssumption, ClientsAssumption DEF ClientInv, ClientTypeOK, LiveIsKnown, PointsToOwn,
     PortsApart, ServerIsOwn, OverridesSeen, Alive
<1>1. ASSUME NEW c \in Clients, EnsureSwitches(c) PROVE ClientInv'
  BY <1>1 DEF EnsureSwitches, Call, Begin, NeedsSwitch, switch_to_in_process, To, vars
<1>2. ASSUME NEW c \in Clients, EnsureStarted(c) PROVE ClientInv'
  BY <1>2 DEF EnsureStarted, Call, Begin, NeedsSwitch, To, vars
<1>3. ASSUME NEW c \in Clients, ProbeFails(c) PROVE ClientInv'
  BY <1>3 DEF ProbeFails, Starts, Call, Begin, NeedsSwitch, switch_to_in_process, To, vars
<1>4. ASSUME NEW c \in Clients, UseCached(c) PROVE ClientInv'
  BY <1>4 DEF UseCached, Starts, Call, Begin, NeedsSwitch, CachedServer, To, vars
<1>5. ASSUME NEW c \in Clients, NEW s \in Servers, StartServer(c, s) PROVE ClientInv'
  BY <1>5 DEF StartServer, Starts, Call, Begin, NeedsSwitch, CachedServer, Launch, Fresh, FreePort, Accepting,
     Listening, Unbound, To, vars
<1>6. ASSUME NEW c \in Clients, AdapterStarted(c) PROVE ClientInv'
  BY <1>6 DEF AdapterStarted, Begin, To, vars
<1>7. ASSUME NEW c \in Clients, AsyncRequest(c) PROVE ClientInv'
  BY <1>7 DEF AsyncRequest, Begin, To, vars
<1>8. ASSUME NEW c \in Clients, AsyncExit(c) PROVE ClientInv'
  BY <1>8 DEF AsyncExit, vars
<1>9. ASSUME NEW c \in Clients, NEW s \in Servers, AdapterStarts(c, s) PROVE ClientInv'
  BY <1>9 DEF AdapterStarts, Begin, Launch, Fresh, FreePort, Accepting, Listening, Unbound, To, vars
<1>10. ASSUME NEW c \in Clients, NEW s \in Servers, AsyncEnter(c, s) PROVE ClientInv'
  BY <1>10 DEF AsyncEnter, Begin, Launch, Fresh, FreePort, Accepting, Listening, Unbound, To, vars
<1>11. ASSUME NEW c \in Clients, Connected(c) PROVE ClientInv'
  BY <1>11 DEF Connected, To, vars
<1>12. ASSUME NEW c \in Clients, StartFails(c) PROVE ClientInv'
  BY <1>12 DEF StartFails, Return, To, vars
<1>13. ASSUME NEW c \in Clients, Request(c) PROVE ClientInv'
  BY <1>13 DEF Request, Return, To, vars
<1>14. ASSUME NEW c \in Clients, Entered(c) PROVE ClientInv'
  BY <1>14 DEF Entered, Return, To, vars
<1>15. ASSUME NEW c \in Clients, ExitRequestsShutdown(c) PROVE ClientInv'
  BY <1>15 DEF ExitRequestsShutdown, RequestServerShutdown, To, vars
<1>16. ASSUME NEW c \in Clients, ExitForgets(c) PROVE ClientInv'
  BY <1>16 DEF ExitForgets, To, vars
<1>17. ASSUME NEW app \in Apps, Override(app) PROVE ClientInv'
  BY <1>17 DEF Override, vars
<1>18. ASSUME NEW s \in Servers, RunServer(s) PROVE ClientInv'
  BY <1>18 DEF RunServer, Bind, Step, Register, Subscribe, StopOnNotify, clientVars
<1>19. ASSUME NEW s \in Servers, RunFails(s) PROVE ClientInv'
  BY <1>19 DEF RunFails, clientVars
<1>20. CASE UNCHANGED testVars
  BY <1>20 DEF testVars, vars, clientVars
<1> QED
  BY <1>1, <1>2, <1>3, <1>4, <1>5, <1>6, <1>7, <1>8, <1>9, <1>10, <1>11, <1>12, <1>13, <1>14,
     <1>15, <1>16, <1>17, <1>18, <1>19, <1>20, Zenon DEF TestNext, Client

LEMMA ClientInductive == TestSpec => []ClientInv
  BY ClientInit, ClientStep, PTL DEF TestSpec

\* OneServerPerApp for any number of clients and servers: _ensure_started and
\* _asgi_ensure_server never start a second server beside one that lives.
THEOREM SharesOneServer == TestSpec => []OneServerPerApp
<1>1. ClientInv => OneServerPerApp
  BY RegistryAssumption, ClientsAssumption
     DEF ClientInv, ClientTypeOK, LiveIsKnown, PointsToOwn, OneServerPerApp, Alive
<1> QED
  BY <1>1, ClientInductive, PTL

\* OwnApplication for any number of clients and servers, although ports are
\* handed out again: the request of a client whose server lives and had its
\* port for itself is answered by its application, under the overrides of the
\* moment.  Losing the race between _find_free_port and the bind is the one way
\* to be answered by another application.
THEOREM AnsweredByOwn == TestSpec => []OwnApplication
<1>1. ClientInv => OwnApplication
  <2> SUFFICES ASSUME ClientInv, NEW c \in Clients, Requests(c)
               PROVE  /\ InProcess[c] \in {"auto", "yes", "no"} /\ AppOf[c] \in overridden
                           => c \in inproc
                      /\ c \notin inproc /\ Alive(server[c]) /\ server[c] \notin raced
                           => \A s \in Answering(c) : owner[s] = AppOf[c]
    BY DEF OwnApplication
  <2>1. InProcess[c] \in {"auto", "yes", "no"} /\ AppOf[c] \in overridden => c \in inproc
    BY DEF ClientInv, OverridesSeen, Requests
  <2>2. ASSUME c \notin inproc, Alive(server[c]), server[c] \notin raced, NEW s \in Answering(c)
        PROVE  owner[s] = AppOf[c]
    <3>1. server[c] \in Servers /\ owner[server[c]] = AppOf[c]
      BY <2>2 DEF ClientInv, ClientTypeOK, ServerIsOwn, Requests
    <3>2. s \in Servers /\ PortOf[s] = PortOf[server[c]] /\ Alive(s)
      BY <2>2 DEF Answering, Accepting, Listening, Alive, ClientInv, PortsApart
    <3>3. s = server[c]
      BY <2>2, <3>1, <3>2 DEF ClientInv, PortsApart
    <3> QED
      BY <3>1, <3>3
  <2> QED
    BY <2>1, <2>2
<1> QED
  BY <1>1, ClientInductive, PTL

-----------------------------------------------------------------------------
(* The clients use the registry as its specification says, except that the *)
(* thread of a server may raise before it has bound its port.              *)

LEMMA RegistryUse ==
  ClientInv /\ [TestNext]_testVars => [Next]_vars \/ \E s \in Servers : RunFails(s)
<1> SUFFICES ASSUME ClientInv, TestNext, vars' # vars
             PROVE  Next \/ \E s \in Servers : RunFails(s)
  BY DEF testVars, vars
<1>1. ASSUME NEW c \in Clients, Client(c) PROVE Next
  <2>1. ExitRequestsShutdown(c)
    BY <1>1 DEF Client, EnsureSwitches, EnsureStarted, ProbeFails, UseCached, StartServer,
       AdapterStarted, AsyncRequest, AsyncExit, AdapterStarts, AsyncEnter, Connected,
       StartFails, Request, Entered, ExitForgets
  <2>2. server[c] \in Servers /\ RequestServerShutdown(PortOf[server[c]])
    BY <2>1 DEF ExitRequestsShutdown, ClientInv, ClientTypeOK
  <2>3. PortOf[server[c]] \in Ports
    BY <2>2, RegistryAssumption
  <2> QED
    BY <2>2, <2>3, ZenonT(40) DEF Next
<1> QED
  BY <1>1 DEF TestNext, Override, RunServer, Next

\* TrippedOnce with clients that exit, time out and start servers, whose
\* threads may raise: request_server_shutdown answers True for a server once.
THEOREM ClientsTripOnce == TestSpec => []TrippedOnce
<1>1. ClientInv /\ RegistryInv /\ [TestNext]_testVars => RegistryInv'
  <2>1. ASSUME NEW s \in Servers, RunFails(s), RegistryInv PROVE RegistryInv'
    BY <2>1 DEF RunFails, RegistryInv, TypeOK, TrippedOnce, RegisteredFirst, Registered
  <2> QED
    BY <2>1, RegistryUse, RegistryStep
<1>2. TestInit => RegistryInv
  BY RegistryInit DEF TestInit
<1>3. RegistryInv => TrippedOnce
  BY DEF RegistryInv
<1> QED
  BY <1>1, <1>2, <1>3, ClientInductive, PTL DEF TestSpec

=============================================================================
