----------------------------- MODULE TestClient -----------------------------
(***************************************************************************)
(* The three ways a process comes to run servers in background threads:    *)
(*   - TestClient (testclient.py): clients of an application share a       *)
(*     server, looked up in _app_servers under _app_lock, and stop it in   *)
(*     __exit__ through the registry of ShutdownRegistry; or they switch   *)
(*     to the in-process door;                                             *)
(*   - AsyncTestClient (testclient.py): every __aenter__ starts a server   *)
(*     of its own, and nothing stops it;                                   *)
(*   - the ASGI adapter (applications.py), which proxies the requests of   *)
(*     an application to one server when the in-process door is off.       *)
(* Each waits for its server by connecting to the port.                    *)
(***************************************************************************)
EXTENDS ShutdownRegistry

CONSTANTS
  Apps, NoApp,
  Clients,
  AppOf,       \* the application of each client
  InProcess,   \* in_process of each TestClient: "auto", "yes" or "no";
               \* "async" for an AsyncTestClient, "proxy" for an ASGI caller
  MaxCalls     \* bound on the calls a test makes

ASSUME ClientsAssumption ==
  /\ Servers \subseteq Nat
  /\ NoApp \notin Apps
  /\ AppOf \in [Clients -> Apps]
  /\ InProcess \in [Clients -> {"auto", "yes", "no", "async", "proxy"}]

VARIABLES
  at,          \* control state of each client
  kind,        \* its call in progress: "request", "enter" or "none"
  started,     \* clients whose `_started` is set
  inproc,      \* clients whose `_in_process` is set
  within,      \* clients inside their `with` block
  server,      \* the server its `_port` and `_thread` belong to
  owner,       \* the application whose run() each server thread executes
  cache,       \* _app_servers
  adapter,     \* the server of each application's _asgi_server_port
  overridden,  \* applications with dependency_overrides
  released,    \* servers an __exit__ has asked to stop or dropped from the
               \* cache, and those an AsyncTestClient started for itself
  raced,       \* servers given the same port, one before the other had bound it
  calls        \* calls made so far

clientVars == <<at, kind, started, inproc, within, server, owner, cache, adapter,
                overridden, released, raced, calls>>
testVars   == <<vars, clientVars>>

TestInit ==
  /\ Init
  /\ at = [c \in Clients |-> "idle"]
  /\ kind = [c \in Clients |-> "none"]
  /\ started = {} /\ within = {}
  /\ inproc = {c \in Clients : InProcess[c] = "yes"}
  /\ server = [c \in Clients |-> NoServer]
  /\ owner = [s \in Servers |-> NoApp]
  /\ cache = [a \in Apps |-> NoServer]
  /\ adapter = [a \in Apps |-> NoServer]
  /\ overridden = {}
  /\ released = {}
  /\ raced = {}
  /\ calls = 0

Listening(s) == pc[s] \in {"listening", "registered", "waiting"}
Accepting(p) == {s \in Servers : PortOf[s] = p /\ Listening(s)}

\* thread.is_alive()
Alive(s) == owner[s] # NoApp /\ pc[s] # "stopped"

\* The probe socket of _find_free_port is closed before the server binds, so
\* the kernel hands out any port on which no server listens, one that another
\* server was given and has not bound yet among them.
FreePort(p) == Accepting(p) = {}

\* The servers that run for this port and have not bound it.
Unbound(p) == {s \in Servers : PortOf[s] = p /\ Alive(s) /\ pc[s] = "off"}

\* Server threads are numbered in the order they are started.
Fresh(s) == owner[s] = NoApp /\ \A r \in Servers : r < s => owner[r] # NoApp

\* Both bind: run_server sets SO_REUSEPORT.
Launch(c, s) ==
  /\ Fresh(s) /\ FreePort(PortOf[s])
  /\ owner' = [owner EXCEPT ![s] = AppOf[c]]
  /\ server' = [server EXCEPT ![c] = s]
  /\ raced' = IF Unbound(PortOf[s]) = {} THEN raced
              ELSE raced \union Unbound(PortOf[s]) \union {s}

To(c, state) == at' = [at EXCEPT ![c] = state]
Return(c) == To(c, "idle") /\ kind' = [kind EXCEPT ![c] = "none"]

-----------------------------------------------------------------------------
(* The test *)

Begin(c, what) ==
  /\ at[c] = "idle" /\ calls < MaxCalls
  /\ kind' = [kind EXCEPT ![c] = what]
  /\ calls' = calls + 1

\* A request method, or __enter__, of a TestClient calls _ensure_started.
Call(c) ==
  /\ InProcess[c] \in {"auto", "yes", "no"}
  /\ Begin(c, "request") \/ (c \notin within /\ Begin(c, "enter"))

\* The test sets or clears app.dependency_overrides between its calls.
Override(a) ==
  /\ calls < MaxCalls /\ \A c \in Clients : AppOf[c] = a => at[c] = "idle"
  /\ calls' = calls + 1
  /\ overridden' = IF a \in overridden THEN overridden \ {a} ELSE overridden \union {a}
  /\ UNCHANGED <<vars, at, kind, started, inproc, within, server, owner, cache, adapter,
                 released, raced>>

-----------------------------------------------------------------------------
(* _ensure_started *)

\* An override switches a client that has started already; a client that is
\* in process needs no server.
NeedsSwitch(c) ==
  \/ c \notin inproc /\ AppOf[c] \in overridden
  \/ c \in inproc \ started

\* The client forgets its port and thread.
switch_to_in_process(c) ==
  /\ inproc' = inproc \union {c}
  /\ started' = started \union {c}
  /\ server' = [server EXCEPT ![c] = NoServer]
  /\ To(c, "run")

EnsureSwitches(c) ==
  /\ Call(c) /\ NeedsSwitch(c)
  /\ switch_to_in_process(c)
  /\ UNCHANGED <<vars, within, owner, cache, adapter,
                 overridden, released, raced>>

\* Mutant: the overrides are looked at when the client starts only.
EnsureStartedFirst(c) ==
  /\ Call(c) /\ c \in started
  /\ To(c, "run")
  /\ UNCHANGED <<vars, started, inproc, within, server, owner, cache, adapter,
                 overridden, released, raced>>

EnsureStarted(c) ==
  /\ Call(c) /\ ~NeedsSwitch(c) /\ c \in started
  /\ To(c, "run")
  /\ UNCHANGED <<vars, started, inproc, within, server, owner, cache, adapter,
                 overridden, released, raced>>

Starts(c) == Call(c) /\ ~NeedsSwitch(c) /\ c \notin started

\* _find_free_port fails: a default client falls back, another one raises.
ProbeFails(c) ==
  /\ Starts(c)
  /\ IF InProcess[c] = "auto"
       THEN switch_to_in_process(c)
       ELSE To(c, "raise") /\ UNCHANGED <<started, inproc, server>>
  /\ UNCHANGED <<vars, within, owner, cache, adapter,
                 overridden, released, raced>>

\* The cached server of the application, if its thread lives.
CachedServer(c) ==
  LET s == cache[AppOf[c]] IN
  IF s # NoServer /\ Alive(s) THEN s ELSE NoServer

\* Under _app_lock: reuse the cached server...
UseCached(c) ==
  /\ Starts(c) /\ CachedServer(c) # NoServer
  /\ server' = [server EXCEPT ![c] = CachedServer(c)]
  /\ To(c, "boot")
  /\ UNCHANGED <<vars, started, inproc, within, owner, cache, adapter,
                 overridden, released, raced>>

\* Mutant: the cache is not consulted.
StartAnother(c, s) ==
  /\ Starts(c)
  /\ Launch(c, s)
  /\ cache' = [cache EXCEPT ![AppOf[c]] = s]
  /\ To(c, "boot")
  /\ UNCHANGED <<vars, started, inproc, within, adapter, overridden, released>>

\* ... or start a thread on a free port and cache it.
StartServer(c, s) ==
  /\ Starts(c) /\ CachedServer(c) = NoServer
  /\ Launch(c, s)
  /\ cache' = [cache EXCEPT ![AppOf[c]] = s]
  /\ To(c, "boot")
  /\ UNCHANGED <<vars, started, inproc, within, adapter, overridden, released>>

-----------------------------------------------------------------------------
(* The ASGI adapter and AsyncTestClient *)

\* _asgi_ensure_server for the first request: the port is recorded before the
\* server is waited for.
AdapterStarts(c, s) ==
  /\ InProcess[c] = "proxy" /\ Begin(c, "request") /\ adapter[AppOf[c]] = NoServer
  /\ Launch(c, s) /\ To(c, "boot")
  /\ adapter' = [adapter EXCEPT ![AppOf[c]] = s]
  /\ UNCHANGED <<vars, started, inproc, within, cache, overridden, released>>

\* ... and for a later one: the port is known, whether or not it listens yet.
AdapterStarted(c) ==
  /\ InProcess[c] = "proxy" /\ Begin(c, "request") /\ adapter[AppOf[c]] # NoServer
  /\ server' = [server EXCEPT ![c] = adapter[AppOf[c]]]
  /\ To(c, "run")
  /\ UNCHANGED <<vars, started, inproc, within, owner, cache, adapter,
                 overridden, released, raced>>

\* __aenter__ starts a server whether or not the application has one.
AsyncEnter(c, s) ==
  /\ InProcess[c] = "async" /\ c \notin within /\ Begin(c, "enter")
  /\ Launch(c, s) /\ To(c, "boot")
  /\ released' = released \union {s}
  /\ UNCHANGED <<vars, started, inproc, within, cache, adapter, overridden>>

\* A request method asserts that the client is inside its `async with`.
AsyncRequest(c) ==
  /\ InProcess[c] = "async" /\ c \in within /\ Begin(c, "request")
  /\ To(c, "run")
  /\ UNCHANGED <<vars, started, inproc, within, server, owner, cache, adapter,
                 overridden, released, raced>>

\* __aexit__ closes the httpx client and leaves the server running.
AsyncExit(c) ==
  /\ InProcess[c] = "async" /\ at[c] = "idle" /\ c \in within
  /\ within' = within \ {c}
  /\ UNCHANGED <<vars, at, kind, started, inproc, server, owner, cache, adapter,
                 overridden, released, raced, calls>>

-----------------------------------------------------------------------------
(* Readiness *)

\* A connection to the port succeeds: the httpx client is made.
Connected(c) ==
  /\ at[c] = "boot" /\ Accepting(PortOf[server[c]]) # {}
  /\ started' = started \union {c}
  /\ To(c, "run")
  /\ UNCHANGED <<vars, kind, inproc, within, server, owner, cache, adapter,
                 overridden, released, raced, calls>>

\* The call raises: the probe failed, or ten seconds went by without one.
StartFails(c) ==
  /\ at[c] = "raise" \/ (at[c] = "boot" /\ Accepting(PortOf[server[c]]) = {})
  /\ Return(c)
  /\ UNCHANGED <<vars, started, inproc, within, server, owner, cache, adapter,
                 overridden, released, raced, calls>>

-----------------------------------------------------------------------------
(* The calls *)

\* The servers that may answer the request: those that listen on the port of
\* a client that is not in process.  Without one the request is refused.
Answering(c) == IF c \in inproc THEN {} ELSE Accepting(PortOf[server[c]])

Request(c) ==
  /\ at[c] = "run" /\ kind[c] = "request"
  /\ Return(c)
  /\ UNCHANGED <<vars, started, inproc, within, server, owner, cache, adapter,
                 overridden, released, raced, calls>>

\* __enter__ returns.
Entered(c) ==
  /\ at[c] = "run" /\ kind[c] = "enter"
  /\ within' = within \union {c}
  /\ Return(c)
  /\ UNCHANGED <<vars, started, inproc, server, owner, cache, adapter,
                 overridden, released, raced, calls>>

\* __exit__ asks the registry to stop the server on its port, if it has one
\* and the map has an entry for it.
ExitRequestsShutdown(c) ==
  /\ InProcess[c] # "async" /\ at[c] = "idle" /\ c \in within
  /\ released' = released \union ({server[c]} \ {NoServer})
  /\ IF server[c] # NoServer /\ entry[PortOf[server[c]]] # NoServer
       THEN RequestServerShutdown(PortOf[server[c]])
       ELSE UNCHANGED vars
  /\ To(c, "join")
  /\ UNCHANGED <<kind, started, inproc, within, server, owner, cache, adapter, overridden, raced, calls>>

\* thread.join returns or gives up after two seconds; then, under the lock,
\* the cache forgets the server if it is the one on this port.
ExitForgets(c) ==
  /\ at[c] = "join"
  /\ LET s == cache[AppOf[c]]
         mine == s # NoServer /\ server[c] # NoServer /\ PortOf[s] = PortOf[server[c]]
     IN /\ cache' = IF mine THEN [cache EXCEPT ![AppOf[c]] = NoServer] ELSE cache
        /\ released' = IF mine THEN released \union {s} ELSE released
  /\ started' = started \ {c}
  /\ within' = within \ {c}
  /\ To(c, "idle")
  /\ UNCHANGED <<vars, kind, inproc, server, owner, adapter, overridden, raced, calls>>

-----------------------------------------------------------------------------
(* The server threads *)

\* app.run in the thread: it binds and serves, stops, or raises on the way.
RunServer(s) ==
  /\ owner[s] # NoApp
  /\ Bind(s) \/ Step(s)
  /\ UNCHANGED clientVars

RunFails(s) ==
  /\ owner[s] # NoApp /\ pc[s] = "off"
  /\ pc' = [pc EXCEPT ![s] = "stopped"]
  /\ UNCHANGED <<entry, woken, found, clientVars>>

Client(c) ==
  \/ EnsureSwitches(c) \/ EnsureStarted(c) \/ ProbeFails(c)
  \/ UseCached(c) \/ \E s \in Servers : StartServer(c, s)
  \/ AdapterStarted(c) \/ AsyncRequest(c) \/ AsyncExit(c)
  \/ \E s \in Servers : AdapterStarts(c, s) \/ AsyncEnter(c, s)
  \/ Connected(c) \/ StartFails(c)
  \/ Request(c) \/ Entered(c)
  \/ ExitRequestsShutdown(c) \/ ExitForgets(c)

TestNext ==
  \/ \E c \in Clients : Client(c)
  \/ \E a \in Apps : Override(a)
  \/ \E s \in Servers : RunServer(s) \/ RunFails(s)

TestFairness == \A s \in Servers : WF_testVars(RunServer(s))

TestSpec == TestInit /\ [][TestNext]_testVars /\ TestFairness

-----------------------------------------------------------------------------

\* "Reuses a single background server per app instance" (_ensure_started): of
\* the live servers of an application all but one have been released by an __exit__,
\* whatever clients of it start, time out, switch and exit in between; and its
\* ASGI adapter has one server besides.
OneServerPerApp ==
  \A s, r \in Servers \ released :
    /\ owner[s] = owner[r] /\ Alive(s) /\ Alive(r)
    /\ s = adapter[owner[s]] <=> r = adapter[owner[r]]
    => s = r

\* The request of the client is about to be sent.
Requests(c) == at[c] = "run" /\ kind[c] = "request"

\* A request is answered by the client's application as it is now: no
\* "cross-test bleed" (TestClient._app_servers) as long as the server the
\* client was given lives, unless that server raced with another one for the
\* port between the probe of _find_free_port and the bind; and because "the
\* real loopback server's router is fixed at startup" a TestClient goes to the
\* in-process door when there are dependency_overrides, although it was started
\* before they were set.
OwnApplication ==
  \A c \in Clients : Requests(c) =>
    /\ InProcess[c] \in {"auto", "yes", "no"} /\ AppOf[c] \in overridden => c \in inproc
    /\ c \notin inproc /\ Alive(server[c]) /\ server[c] \notin raced =>
         \A s \in Answering(c) : owner[s] = AppOf[c]

=============================================================================
