------------------------- MODULE ShutdownRegistry -------------------------
(***************************************************************************)
(* The per-port shutdown registry of src/server.rs.  The servers of a      *)
(* process register a Notify under their port number (SO_REUSEPORT lets    *)
(* several share a port, and a test suite gets the same one again);        *)
(* request_server_shutdown, called by TestClient.__exit__, takes the entry *)
(* of a port out of the map and calls notify_waiters on it.                *)
(***************************************************************************)
EXTENDS Naturals, FiniteSets

CONSTANTS
  Servers,
  Ports,
  PortOf,     \* the port each server binds
  NoServer

ASSUME RegistryAssumption ==
  /\ NoServer \notin Servers
  /\ PortOf \in [Servers -> Ports]

VARIABLES
  pc,      \* control state of each server
  entry,   \* the server whose Notify the map holds for each port
  woken,   \* has the Notified future of the server been notified?
  found    \* the control state in which a request that returned True
           \* found the server, "none" when no request has

vars == <<pc, entry, woken, found>>

Init ==
  /\ pc = [s \in Servers |-> "off"]
  /\ entry = [p \in Ports |-> NoServer]
  /\ woken = [s \in Servers |-> FALSE]
  /\ found = [s \in Servers |-> "none"]

\* run_server binds the listener; connections are accepted from here on.
Bind(s) ==
  /\ pc[s] = "off"
  /\ pc' = [pc EXCEPT ![s] = "listening"]
  /\ UNCHANGED <<entry, woken, found>>

\* register_shutdown_notifier replaces whatever the map held for the port.
Register(s) ==
  /\ pc[s] = "listening"
  /\ pc' = [pc EXCEPT ![s] = "registered"]
  /\ entry' = [entry EXCEPT ![PortOf[s]] = s]
  /\ UNCHANGED <<woken, found>>

\* notify.notified(): from now on notify_waiters reaches the server.
Subscribe(s) ==
  /\ pc[s] = "registered"
  /\ pc' = [pc EXCEPT ![s] = "waiting"]
  /\ UNCHANGED <<entry, woken, found>>

\* Mutant: the notifier is taken out of the map but never tripped.
RequestWithoutNotify(p) ==
  /\ entry[p] # NoServer
  /\ found' = [found EXCEPT ![entry[p]] = pc[entry[p]]]
  /\ entry' = [entry EXCEPT ![p] = NoServer]
  /\ UNCHANGED <<pc, woken>>

\* request_server_shutdown when the map has an entry: the call returns True.
\* Without an entry it returns False and changes nothing.
RequestServerShutdown(p) ==
  /\ entry[p] # NoServer
  /\ found' = [found EXCEPT ![entry[p]] = pc[entry[p]]]
  /\ woken' = [woken EXCEPT ![entry[p]] = @ \/ pc[entry[p]] = "waiting"]
  /\ entry' = [entry EXCEPT ![p] = NoServer]
  /\ UNCHANGED pc

\* The select! of shutdown_signal_for_port resolves on the notification.
StopOnNotify(s) ==
  /\ pc[s] = "waiting"
  /\ woken[s]
  /\ pc' = [pc EXCEPT ![s] = "stopped"]
  /\ UNCHANGED <<entry, woken, found>>

\* SIGINT or SIGTERM: the same select! resolves on the other branch, and the
\* map keeps the entry.
StopOnSignal(s) ==
  /\ pc[s] = "waiting"
  /\ pc' = [pc EXCEPT ![s] = "stopped"]
  /\ UNCHANGED <<entry, woken, found>>

Step(s) == Register(s) \/ Subscribe(s) \/ StopOnNotify(s)

Next ==
  \/ \E s \in Servers : Bind(s) \/ Step(s) \/ StopOnSignal(s)
  \/ \E p \in Ports : RequestServerShutdown(p)

\* The runtime keeps polling the future axum waits on; no signal is assumed.
Spec == Init /\ [][Next]_vars /\ \A s \in Servers : WF_vars(Step(s))

-----------------------------------------------------------------------------

\* The types; a request never finds a server before it has registered, that
\* is before its router is built.
TypeOK ==
  /\ pc \in [Servers -> {"off", "listening", "registered", "waiting", "stopped"}]
  /\ entry \in [Ports -> Servers \cup {NoServer}]
  /\ woken \in [Servers -> BOOLEAN]
  /\ found \in [Servers -> {"none", "registered", "waiting", "stopped"}]

\* The map never holds the notifier of a server it was already taken for:
\* every notifier is tripped at most once, so a second request cannot be
\* told True for a server the first one is already stopping.
TrippedOnce ==
  \A s \in Servers : found[s] # "none" => entry[PortOf[s]] # s

\* A request that finds the server subscribed stops that server, whatever
\* other servers of the port have registered or been signalled meanwhile.
SubscribedStops ==
  \A s \in Servers : found[s] = "waiting" ~> pc[s] = "stopped"

=============================================================================
