----------------------------- MODULE WsInbound -----------------------------
(***************************************************************************)
(* The receive path of one WebSocket connection (src/websocket.rs): the    *)
(* select task reads frames from the socket, pushes them on an unbounded   *)
(* channel and fires LoopWake; the handler takes frames from the shared    *)
(* batch buffer, then from the channel, and otherwise arms LoopWake and    *)
(* suspends on a fresh asyncio future (loop mode) or blocks on the channel *)
(* (thread mode).                                                          *)
(*                                                                         *)
(* Frames are numbered in the order the client sends them; Close is the    *)
(* client's close frame.  Futures are numbered in the order loop_next      *)
(* creates them, 0 is "no future".                                         *)
(***************************************************************************)
EXTENDS Naturals, Sequences, Functions, FiniteSetsExt

CONSTANTS
  MaxFrames,      \* bound on the frames the client sends
  MaxArms,        \* bound on the futures created
  BatchCap,       \* BATCH_DRAIN_CAP, 64 in the code
  Close           \* the client's close frame

ASSUME WsInboundAssumption ==
  /\ MaxFrames \in Nat /\ MaxArms \in Nat /\ BatchCap \in Nat
  /\ Close \notin Nat

VARIABLES
  onLoop,     \* does the handler run as a task of the worker loop?
  wire,       \* the frames the client has sent and the task has not read
  sent,       \* number of frames the client has sent
  chan,       \* the inbound channel
  open,       \* is the channel's sender alive?
  rpc,        \* control state of the select task
  armed,      \* LoopWake.armed
  fut,        \* LoopWake.fut
  made,       \* number of futures created; the newest is `made`
  scheduled,  \* futures whose resolution is queued on the loop
  done,       \* futures that are resolved or cancelled
  hpc,        \* control state of the handler
  buf,        \* the shared batch buffer
  got,        \* frames returned to the handler, in order
  dropped     \* did the select task discard frames (server-side close)?

inboundVars == <<onLoop, wire, sent, chan, open, rpc, armed, fut, made, scheduled,
                 done, hpc, buf, got, dropped>>

net    == <<wire, sent>>
wake   == <<armed, fut, made, scheduled, done>>
reader == <<rpc, open, dropped>>

InboundInit ==
  /\ onLoop \in BOOLEAN
  /\ wire = <<>> /\ sent = 0
  /\ chan = <<>> /\ open = TRUE
  /\ rpc = "read"
  /\ armed = FALSE /\ fut = 0 /\ made = 0 /\ scheduled = {} /\ done = {}
  /\ hpc = "running"
  /\ buf = <<>> /\ got = <<>>
  /\ dropped = FALSE

-----------------------------------------------------------------------------
(* The client. *)

\* Frames sent once the task has stopped reading reach nobody.
Sending == rpc \in {"read", "fire", "take"} /\ Close \notin Range(wire)

SendFrame ==
  /\ sent < MaxFrames
  /\ Sending
  /\ sent' = sent + 1
  /\ wire' = Append(wire, sent + 1)
  /\ UNCHANGED <<onLoop, chan, reader, wake, hpc, buf, got>>

SendClose ==
  /\ Sending
  /\ wire' = Append(wire, Close)
  /\ UNCHANGED <<onLoop, sent, chan, reader, wake, hpc, buf, got>>

-----------------------------------------------------------------------------
(* The select task. *)

\* A frame is pushed first, then the wake is fired; a close frame is pushed
\* and fired the same way, and then ends the task.
ReadFrame ==
  /\ rpc = "read"
  /\ wire # <<>>
  /\ hpc # "returned"
  /\ wire' = Tail(wire)
  /\ chan' = Append(chan, Head(wire))
  /\ rpc' = IF Head(wire) = Close THEN "fireClose" ELSE "fire"
  /\ UNCHANGED <<onLoop, sent, open, dropped, wake, hpc, buf, got>>

\* The stream ends or errors, the handler is gone (its receiver or its
\* command sender dropped), or the server closed and the drain discards
\* what the client still sends.
StopReading ==
  /\ rpc = "read"
  /\ rpc' = "drop"
  /\ wire' = <<>>
  /\ dropped' = TRUE
  /\ UNCHANGED <<onLoop, sent, chan, open, wake, hpc, buf, got>>

\* What the task does after the wake it fires in control state r.
AfterFire(r) ==
  CASE r \in {"fire", "take"} -> "read"
    [] r \in {"fireClose", "takeClose"} -> "drop"
    [] OTHER -> "gone"

\* LoopWake.fire: the swap of the flag ...
FireSwap ==
  /\ rpc \in {"fire", "fireClose", "fireLast"}
  /\ armed' = FALSE
  /\ rpc' = IF ~armed THEN AfterFire(rpc)
            ELSE CASE rpc = "fire" -> "take"
                   [] rpc = "fireClose" -> "takeClose"
                   [] OTHER -> "takeLast"
  /\ UNCHANGED <<onLoop, net, chan, open, dropped, fut, made, scheduled, done, hpc, buf, got>>

\* ... and, when it was set, the future is taken out of the slot and its
\* resolution queued with call_soon_threadsafe.
FireTake ==
  /\ rpc \in {"take", "takeClose", "takeLast"}
  /\ scheduled' = scheduled \cup ({fut} \ {0})
  /\ fut' = 0
  /\ rpc' = AfterFire(rpc)
  /\ UNCHANGED <<onLoop, net, chan, open, dropped, armed, made, done, hpc, buf, got>>

\* Mutant: teardown drops the sender and fires no wake.
DropSenderSilently ==
  /\ rpc = "drop"
  /\ open' = FALSE
  /\ rpc' = "gone"
  /\ UNCHANGED <<onLoop, net, chan, dropped, wake, hpc, buf, got>>

\* Teardown: drop(cb_tx), then a last fire.
DropSender ==
  /\ rpc = "drop"
  /\ open' = FALSE
  /\ rpc' = "fireLast"
  /\ UNCHANGED <<onLoop, net, chan, dropped, wake, hpc, buf, got>>

\* The worker loop runs the queued resolver; a done future is left alone.
Resolve(f) ==
  /\ f \in scheduled
  /\ scheduled' = scheduled \ {f}
  /\ done' = done \cup {f}
  /\ UNCHANGED <<onLoop, net, chan, reader, armed, fut, made, hpc, buf, got>>

-----------------------------------------------------------------------------
(* The handler. *)

Deliver(m) ==
  /\ got' = Append(got, m)
  /\ hpc' = IF m = Close THEN "ended" ELSE "running"

\* Mutant: the refill also buffers the frame that it returns.
PullKeepingFirst ==
  /\ chan # <<>>
  /\ Deliver(Head(chan))
  /\ buf' = chan
  /\ chan' = <<>>

\* try_pull, and the same refill in thread mode: return the first frame and
\* move up to BatchCap of the others to the buffer, which is empty here.
Pull ==
  /\ chan # <<>>
  /\ LET k == Min({BatchCap, Len(chan) - 1})
     IN /\ Deliver(Head(chan))
        /\ buf' = SubSeq(chan, 2, k + 1)
        /\ chan' = SubSeq(chan, k + 2, Len(chan))

Closed == chan = <<>> /\ ~open

\* __next__: the buffer first.
ReceiveBuffered ==
  /\ hpc \in {"running", "resumed"}
  /\ buf # <<>>
  /\ Deliver(Head(buf))
  /\ buf' = Tail(buf)
  /\ UNCHANGED <<onLoop, net, chan, reader, wake>>

\* __next__ in loop mode, the first try_pull of loop_next: a frame, the end
\* of the channel, or nothing yet.
ReceiveNow ==
  /\ hpc \in {"running", "resumed"}
  /\ buf = <<>>
  /\ onLoop
  /\ \/ Pull
     \/ Closed /\ hpc' = "ended" /\ UNCHANGED <<chan, buf, got>>
     \/ chan = <<>> /\ open /\ hpc' = "suspending" /\ UNCHANGED <<chan, buf, got>>
  /\ UNCHANGED <<onLoop, net, reader, wake>>

\* loop_next creates the future and stores it in the slot ...
MakeFuture ==
  /\ hpc = "suspending"
  /\ made < MaxArms
  /\ made' = made + 1
  /\ fut' = made + 1
  /\ hpc' = "arming"
  /\ UNCHANGED <<onLoop, net, chan, reader, armed, scheduled, done, buf, got>>

\* Mutant: the task suspends as soon as it has armed the wake.
ArmAndPark ==
  /\ hpc = "arming"
  /\ armed' = TRUE
  /\ hpc' = "parked"
  /\ UNCHANGED <<onLoop, net, chan, reader, fut, made, scheduled, done, buf, got>>

\* ... arms the wake ...
Arm ==
  /\ hpc = "arming"
  /\ armed' = TRUE
  /\ hpc' = "recheck"
  /\ UNCHANGED <<onLoop, net, chan, reader, fut, made, scheduled, done, buf, got>>

\* ... and looks again: a frame or the end disarms the wake, an empty channel
\* suspends the task.
Recheck ==
  /\ hpc = "recheck"
  /\ \/ Pull /\ armed' = FALSE
     \/ Closed /\ hpc' = "ended" /\ armed' = FALSE /\ UNCHANGED <<chan, buf, got>>
     \/ chan = <<>> /\ open /\ hpc' = "parked" /\ UNCHANGED <<armed, chan, buf, got>>
  /\ UNCHANGED <<onLoop, net, reader, fut, made, scheduled, done>>

\* The task is resumed by its future and re-enters __next__.
Resume ==
  /\ hpc = "parked"
  /\ made \in done
  /\ hpc' = "resumed"
  /\ UNCHANGED <<onLoop, net, chan, reader, wake, buf, got>>

\* The await is cancelled (asyncio.wait_for): the future is cancelled, the
\* wake stays armed, the application goes on and may receive again.
CancelReceive ==
  /\ hpc = "parked"
  /\ done' = done \cup {made}
  /\ hpc' = "running"
  /\ UNCHANGED <<onLoop, net, chan, reader, armed, fut, made, scheduled, buf, got>>

\* Thread mode: block on the channel until a frame or the end.
ReceiveBlocking ==
  /\ hpc = "running"
  /\ buf = <<>>
  /\ ~onLoop
  /\ \/ Pull
     \/ Closed /\ hpc' = "ended" /\ UNCHANGED <<chan, buf, got>>
  /\ UNCHANGED <<onLoop, net, reader, wake>>

\* The handler returns or raises: its end of the channel goes away.
Return ==
  /\ hpc \in {"running", "ended"}
  /\ hpc' = "returned"
  /\ UNCHANGED <<onLoop, net, chan, reader, wake, buf, got>>

SelectTask == ReadFrame \/ FireSwap \/ FireTake \/ DropSender
Handler == ReceiveBuffered \/ ReceiveNow \/ MakeFuture \/ Arm \/ Recheck \/ Resume
           \/ ReceiveBlocking

InboundNext ==
  \/ SendFrame \/ SendClose
  \/ SelectTask \/ StopReading
  \/ \E f \in scheduled : Resolve(f)
  \/ Handler \/ CancelReceive \/ Return

InboundSpec == InboundInit /\ [][InboundNext]_inboundVars

\* The runtime polls the select task, the worker loop runs its callbacks and
\* steps a resumed task.  The client, cancellation and the return are free.
Fairness ==
  /\ WF_inboundVars(SelectTask)
  /\ WF_inboundVars(\E f \in scheduled : Resolve(f))
  /\ WF_inboundVars(Resume)

InboundFairSpec == InboundSpec /\ Fairness

-----------------------------------------------------------------------------

Frame == Nat \cup {Close}

\* The types; the batch buffer of RecvAwaitable stays within its cap.
InboundTypeOK ==
  /\ wire \in Seq(Frame) /\ chan \in Seq(Frame)
  /\ buf \in Seq(Frame) /\ got \in Seq(Frame)
  /\ onLoop \in BOOLEAN /\ open \in BOOLEAN /\ armed \in BOOLEAN /\ dropped \in BOOLEAN
  /\ sent \in 0 .. MaxFrames /\ made \in 0 .. MaxArms
  /\ fut \in 0 .. made
  /\ scheduled \subseteq 1 .. made /\ done \subseteq 1 .. made
  /\ rpc \in {"read", "fire", "take", "fireClose", "takeClose", "drop",
              "fireLast", "takeLast", "gone"}
  /\ hpc \in {"running", "resumed", "suspending", "arming", "recheck", "parked",
             "ended", "returned"}
  /\ Len(buf) <= BatchCap

\* Receive order: what the handler got, what it has buffered, what is on the
\* channel and (until the task stops reading) what is on the wire is exactly
\* what the client sent, in order, through batching, cancelled receives and
\* spurious wakes; after a close frame there is nothing.
ReceivedInOrder ==
  LET all == got \o buf \o chan \o wire
      n   == IF all # <<>> /\ all[Len(all)] = Close THEN Len(all) - 1 ELSE Len(all)
  IN /\ SubSeq(all, 1, n) = [i \in 1 .. n |-> i]
     /\ ~dropped => n = sent

\* The future a suspended handler waits for is going to be resolved: it is
\* done, its resolution is queued, or the select task is on its way to it.
WakeComing ==
  \/ made \in done \cup scheduled
  \/ rpc \in {"fire", "fireClose", "fireLast"} /\ armed /\ fut = made
  \/ rpc \in {"take", "takeClose", "takeLast"} /\ fut = made
  \/ rpc = "drop" /\ armed /\ fut = made

\* "The arm-then-double-check ordering makes a lost wakeup impossible"
\* (src/websocket.rs:472): a handler suspended although a frame is on the
\* channel or the sender is gone is about to be woken; and until then it stays
\* reachable by a later frame or by teardown, so that no wake meant for an
\* older future leaves it deaf.
NoLostWakeup ==
  hpc = "parked" =>
    /\ (chan # <<>> \/ ~open) => WakeComing
    /\ rpc # "gone" => WakeComing \/ (armed /\ fut = made)

\* A handler suspended on receive when the connection ends is resumed: it
\* sees the close or the end of the channel, and does not stay on the shared
\* loop for ever.
DisconnectWakes ==
  rpc = "drop" /\ hpc = "parked" ~> hpc # "parked"

=============================================================================
