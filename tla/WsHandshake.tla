---------------------------- MODULE WsHandshake ----------------------------
(***************************************************************************)
(* The deferred WebSocket upgrade of src/websocket.rs.  The Python handler *)
(* calls accept() or reject(), which send an action over a oneshot to the  *)
(* route handler handle_ws_upgrade; the route handler waits for it at most *)
(* 30 s, answers the HTTP request, and the on_upgrade callback publishes   *)
(* the write half and tells the handler that the socket is ready: over a   *)
(* crossbeam channel (thread mode) or by resolving the future in           *)
(* `ready_fut` through ReadyGuard (loop mode).                             *)
(***************************************************************************)
EXTENDS Naturals

VARIABLES
  loopMode,   \* does the handler run as a task of the worker loop?
  pc,         \* control state of the Python handler
  oneshot,    \* the accept oneshot: "idle", the action sent, or "dropped"
  listening,  \* is the receiving half of the oneshot alive?
  slot,       \* does ready_fut hold the future?
  ready,      \* what accept() waits for: "none", "pending" or "resolved"
  route,      \* control state of the route handler and its callback
  sink,       \* is the write half in its slot?
  answer,     \* the HTTP status sent to the client, 0 for none yet
  state       \* PyWebSocket.state: STATE_CONNECTING, CONNECTED, DISCONNECTED

vars == <<loopMode, pc, oneshot, listening, slot, ready, route, sink, answer, state>>

Init ==
  /\ loopMode \in BOOLEAN
  /\ pc = "handler"
  /\ oneshot = "idle"
  /\ listening = TRUE
  /\ slot = FALSE
  /\ ready = "none"
  /\ route = "waiting"
  /\ sink = FALSE
  /\ answer = 0
  /\ state = "connecting"

-----------------------------------------------------------------------------
(* The Python handler. *)

\* accept() takes the sender out of accept_tx.
Accept ==
  /\ pc = "handler"
  /\ pc' = "accepting"
  /\ UNCHANGED <<loopMode, oneshot, listening, slot, ready, route, sink, answer, state>>

\* Loop mode stores the ready future before it sends; thread mode waits on a
\* channel that exists from the start.
StashFuture ==
  /\ pc = "accepting"
  /\ pc' = "stashed"
  /\ slot' = loopMode
  /\ ready' = IF ready = "none" THEN "pending" ELSE ready
  /\ UNCHANGED <<loopMode, oneshot, listening, route, sink, answer, state>>

\* Mutant: an accept the route handler no longer waits for is forgotten.
SendAcceptIgnored ==
  /\ pc = "stashed"
  /\ pc' = IF loopMode THEN "storing" ELSE "awaiting"
  /\ oneshot' = IF listening THEN "accept" ELSE oneshot
  /\ UNCHANGED <<loopMode, listening, slot, ready, route, sink, answer, state>>

\* tx.send(Accept): when the route handler is gone, loop mode takes the
\* future back and completes it itself; in thread mode the dropped sender
\* ends the wait.
SendAccept ==
  /\ pc = "stashed"
  /\ pc' = IF loopMode THEN "storing" ELSE "awaiting"
  /\ IF listening
       THEN oneshot' = "accept" /\ UNCHANGED <<slot, ready>>
       ELSE /\ slot' = FALSE
            /\ ready' = IF loopMode THEN "resolved" ELSE ready
            /\ UNCHANGED oneshot
  /\ UNCHANGED <<loopMode, listening, route, sink, answer, state>>

\* The wait is over: the future is resolved, or ready_rx.recv() came back.
AcceptWakes ==
  /\ pc = "awaiting"
  /\ ready = "resolved"
  /\ pc' = IF loopMode THEN "open" ELSE "storing"
  /\ UNCHANGED <<loopMode, oneshot, listening, slot, ready, route, sink, answer, state>>

\* accept() stores STATE_CONNECTED: before it hands out the future in loop
\* mode, after the blocking wait in thread mode.
StoreConnected ==
  /\ pc = "storing"
  /\ pc' = IF loopMode THEN "awaiting" ELSE "open"
  /\ state' = "connected"
  /\ UNCHANGED <<loopMode, oneshot, listening, slot, ready, route, sink, answer>>

\* reject(status): 403 for a refusal, also by a close() before accept(), and
\* 500 for a handler that failed.
Reject(status) ==
  /\ pc = "handler"
  /\ pc' = "rejected"
  /\ oneshot' = IF ~listening THEN oneshot
                ELSE IF status = 403 THEN "reject" ELSE "fail"
  /\ state' = "disconnected"
  /\ UNCHANGED <<loopMode, listening, slot, ready, route, sink, answer>>

\* The handler ends (or could not be started): the sender is dropped.
HandlerExits ==
  /\ pc = "handler"
  /\ pc' = "exited"
  /\ oneshot' = "dropped"
  /\ UNCHANGED <<loopMode, listening, slot, ready, route, sink, answer, state>>

-----------------------------------------------------------------------------
(* handle_ws_upgrade *)

\* The guard fires: the future, if there is one in the slot, is resolved.
\* The thread-mode sender is sent or dropped at the same places.
Fire ==
  /\ slot' = FALSE
  /\ ready' = IF slot \/ ~loopMode THEN "resolved" ELSE ready

\* The wait ends with an action.
ReceiveAction ==
  /\ route = "waiting"
  /\ oneshot # "idle"
  /\ listening' = FALSE
  /\ route' = IF oneshot = "accept" THEN "upgrading" ELSE "leaving"
  /\ answer' = CASE oneshot = "accept" -> 101
                 [] oneshot = "reject" -> 403
                 [] OTHER -> 500   \* "fail", or the sender was dropped
  /\ UNCHANGED <<loopMode, pc, oneshot, slot, ready, sink, state>>

\* 30 s have passed; an action sent after the last poll is dropped unread.
AcceptTimeout ==
  /\ route = "waiting"
  /\ listening' = FALSE
  /\ route' = "leaving"
  /\ answer' = 500
  /\ UNCHANGED <<loopMode, pc, oneshot, slot, ready, sink, state>>

\* The client goes away: hyper drops the route handler's future.
ClientAborts ==
  /\ route = "waiting"
  /\ listening' = FALSE
  /\ route' = "leaving"
  /\ UNCHANGED <<loopMode, pc, oneshot, slot, ready, sink, answer, state>>

\* The locals of the route handler are dropped, the guard among them, after
\* the receiving half of the oneshot.
Leave ==
  /\ route = "leaving"
  /\ Fire
  /\ route' = "gone"
  /\ UNCHANGED <<loopMode, pc, oneshot, listening, sink, answer, state>>

\* The connection dies before hyper completes the upgrade: the callback and
\* the guard it owns are dropped.
UpgradeFails ==
  /\ route = "upgrading"
  /\ Fire
  /\ route' = "gone"
  /\ UNCHANGED <<loopMode, pc, oneshot, listening, sink, answer, state>>

\* The callback stores the write half ...
PublishSink ==
  /\ route = "upgrading"
  /\ sink' = TRUE
  /\ route' = "published"
  /\ UNCHANGED <<loopMode, pc, oneshot, listening, slot, ready, answer, state>>

\* ... and only then signals the handler and starts the select task.
SignalReady ==
  /\ route = "published"
  /\ Fire
  /\ route' = "serving"
  /\ UNCHANGED <<loopMode, pc, oneshot, listening, sink, answer, state>>

\* The select task reads the client's close frame.
ClientCloses ==
  /\ route = "serving"
  /\ route' = "closing"
  /\ state' = "disconnected"
  /\ UNCHANGED <<loopMode, pc, oneshot, listening, slot, ready, sink, answer>>

\* The select task's teardown empties the write slot.
Teardown ==
  /\ route \in {"serving", "closing"}
  /\ sink' = FALSE
  /\ route' = "gone"
  /\ UNCHANGED <<loopMode, pc, oneshot, listening, slot, ready, answer, state>>

Accepting == StashFuture \/ SendAccept \/ AcceptWakes \/ StoreConnected
Route == ReceiveAction \/ AcceptTimeout \/ Leave \/ PublishSink \/ SignalReady

Next ==
  \/ Accept \/ Reject(403) \/ Reject(500) \/ HandlerExits \/ Accepting
  \/ Route \/ ClientAborts \/ UpgradeFails \/ ClientCloses \/ Teardown

\* The runtime polls the route handler, whose timer is armed from the start;
\* the handler's own calls run to their end.
Spec == Init /\ [][Next]_vars /\ WF_vars(Accepting) /\ WF_vars(Route)

-----------------------------------------------------------------------------

\* The control states, and the statuses handle_ws_upgrade can answer with.
TypeOK ==
  /\ loopMode \in BOOLEAN /\ listening \in BOOLEAN /\ slot \in BOOLEAN /\ sink \in BOOLEAN
  /\ pc \in {"handler", "accepting", "stashed", "storing", "awaiting", "open",
            "rejected", "exited"}
  /\ oneshot \in {"idle", "accept", "reject", "fail", "dropped"}
  /\ ready \in {"none", "pending", "resolved"}
  /\ route \in {"waiting", "upgrading", "leaving", "published", "serving", "closing", "gone"}
  /\ answer \in {0, 101, 403, 500}
  /\ state \in {"connecting", "connected", "disconnected"}

\* A handler that awaits accept() is never stranded: as long as its future is
\* unresolved it is in the slot and the guard that will resolve it is alive,
\* also when the 30 s timeout races a late accept.
NeverStranded ==
  pc = "awaiting" /\ ready # "resolved" =>
    /\ loopMode => slot
    /\ route \in {"waiting", "upgrading", "leaving", "published"}

\* "once accept() returns, sends may take the direct path, which needs the
\* sink in its slot" (src/websocket.rs:1525): a handler whose accept() came
\* back finds the write half, unless the connection is already gone.
OpenHasSink ==
  pc = "open" => sink \/ route = "gone" \/ route = "leaving"

=============================================================================
