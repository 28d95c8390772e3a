----------------------------- MODULE WsOutbound -----------------------------
(***************************************************************************)
(* The send path of one WebSocket connection (src/websocket.rs).  A frame  *)
(* is written by the calling thread when nothing is queued and the sink's  *)
(* lock is free (try_direct_send), with the flush possibly deferred to the *)
(* end of a burst; otherwise it goes through the command channel to the    *)
(* select task.  Deferred bytes are flushed by the next undeferred send,   *)
(* by a receive that is about to suspend, or by a 1 ms debounce timer.     *)
(* close_and_wait queues a Close and a Flush whose acknowledgement it      *)
(* awaits; the teardown of the connection acknowledges what is left.       *)
(*                                                                         *)
(* One handler sends; it is suspended while a capacity waiter delivers its *)
(* frame.  Frames are numbered in the order of the send calls.             *)
(***************************************************************************)
EXTENDS Naturals, Sequences

CONSTANTS
  MaxSends,    \* bound on the frames sent
  OutCap,      \* WS_OUT_CAP of the loop-mode channel, 256 in the code
  CloseFrame,  \* the Close frame
  Flush        \* the Flush command

ASSUME WsOutboundAssumption ==
  /\ MaxSends \in Nat /\ OutCap \in Nat \ {0}
  /\ CloseFrame \notin Nat /\ Flush \notin Nat /\ CloseFrame # Flush

VARIABLES
  bounded,     \* bounded channel (loop mode) or unbounded (thread mode)
  caller,      \* control state of the handler
  n,           \* frames passed to send_text or send_bytes
  cmds,        \* the command channel
  cmdsOpen,    \* has the select task not closed the channel?
  permit,      \* a Flush whose sender holds a permit and has not pushed
  waiter,      \* commands the spawned capacity waiter still has to deliver
  queued,      \* the `queued` counter
  lock,        \* who holds the sink's lock
  writeHalf,   \* the write half: "up", "broken" (errors or closed), "taken"
  out,         \* frames committed to the sink with start_send
  flushed,     \* how many of them have been flushed to the socket
  unflushed,   \* is the `unflushed` byte count positive?
  timerArmed,  \* flush_armed
  sleeping,    \* debounce timers asleep
  firing,      \* debounce timers that have reset flush_armed
  flushers,    \* tasks about to lock the sink and flush it
  spc,         \* control state of the select task
  cmd,         \* the command the select task is executing
  acked        \* has the Flush been acknowledged?

outboundVars == <<bounded, caller, n, cmds, cmdsOpen, permit, waiter, queued, lock, writeHalf, out,
          flushed, unflushed, timerArmed, sleeping, firing, flushers, spc, cmd, acked>>

channel == <<cmds, cmdsOpen, permit, waiter, queued>>
bytes   == <<out, flushed, unflushed>>
timers  == <<timerArmed, sleeping, firing, flushers>>
select  == <<spc, cmd>>

OutboundInit ==
  /\ bounded \in BOOLEAN
  /\ caller = "running" /\ n = 0
  /\ cmds = <<>> /\ cmdsOpen = TRUE /\ permit = <<>> /\ waiter = <<>> /\ queued = 0
  /\ lock = "free" /\ writeHalf = "up"
  /\ out = <<>> /\ flushed = 0 /\ unflushed = FALSE
  /\ timerArmed = FALSE /\ sleeping = 0 /\ firing = 0 /\ flushers = 0
  /\ spc = "idle" /\ cmd = Flush
  /\ acked = FALSE

ChannelHasRoom == ~bounded \/ Len(cmds) + Len(permit) < OutCap

-----------------------------------------------------------------------------
(* queue_send *)

\* Mutant: the direct path does not look at the queue.
MayWriteUnordered == lock = "free" /\ writeHalf # "taken"

\* try_direct_send may write: nothing queued, lock free, write half present.
MayWrite == queued = 0 /\ lock = "free" /\ writeHalf # "taken"

\* A broken sink consumes the frame silently.
SendSunk ==
  /\ caller = "running" /\ n < MaxSends
  /\ MayWrite /\ writeHalf = "broken"
  /\ n' = n + 1
  /\ UNCHANGED <<bounded, caller, channel, lock, writeHalf, bytes, timers, select, acked>>

\* start_send and poll_flush: everything committed is written, or a flush
\* driver is spawned because the kernel buffer is full.
SendDirect ==
  /\ caller = "running" /\ n < MaxSends
  /\ MayWrite /\ writeHalf = "up"
  /\ n' = n + 1
  /\ out' = Append(out, n + 1)
  /\ unflushed' = FALSE
  /\ \/ flushed' = Len(out) + 1 /\ UNCHANGED flushers
     \/ flushers' = flushers + 1 /\ UNCHANGED flushed
  /\ UNCHANGED <<bounded, caller, channel, lock, writeHalf, timerArmed, sleeping, firing,
                 select, acked>>

\* More inbound frames are pending: start_send without the flush.
SendDeferred ==
  /\ caller = "running" /\ n < MaxSends
  /\ MayWrite /\ writeHalf = "up"
  /\ n' = n + 1
  /\ out' = Append(out, n + 1)
  /\ unflushed' = TRUE
  /\ caller' = "arming"
  /\ UNCHANGED <<bounded, channel, lock, writeHalf, flushed, timers, select, acked>>

\* The deferred send arms one debounce timer per burst.
ArmTimer ==
  /\ caller = "arming"
  /\ caller' = "running"
  /\ timerArmed' = TRUE
  /\ sleeping' = IF timerArmed THEN sleeping ELSE sleeping + 1
  /\ UNCHANGED <<bounded, n, channel, lock, writeHalf, bytes, firing, flushers, select, acked>>

\* The channel path, also taken when poll_ready is Pending: counted, then
\* pushed; a full channel gets a capacity waiter, a closed one raises.
SendQueued ==
  /\ caller = "running" /\ n < MaxSends
  /\ n' = n + 1
  /\ queued' = queued + 1
  /\ \/ cmdsOpen /\ ChannelHasRoom /\ cmds' = Append(cmds, n + 1) /\ UNCHANGED <<caller, waiter>>
     \/ cmdsOpen /\ ~ChannelHasRoom /\ waiter' = <<n + 1>> /\ caller' = "capacity" /\ UNCHANGED cmds
     \/ ~cmdsOpen /\ caller' = "failed" /\ UNCHANGED <<cmds, waiter>>
  /\ UNCHANGED <<bounded, cmdsOpen, permit, lock, writeHalf, bytes, timers, select, acked>>

\* The waiter reserves a slot and delivers its next command; when the
\* receiver is gone it drops frames and acknowledges a Flush.  The future of
\* a suspended send is resolved at its end.
WaiterDelivers ==
  /\ waiter # <<>>
  /\ waiter' = Tail(waiter)
  /\ \/ cmdsOpen /\ ChannelHasRoom /\ cmds' = Append(cmds, Head(waiter)) /\ UNCHANGED acked
     \/ ~cmdsOpen /\ acked' = (acked \/ Head(waiter) = Flush) /\ UNCHANGED cmds
  /\ caller' = IF caller = "capacity" /\ Len(waiter) = 1 THEN "running" ELSE caller
  /\ UNCHANGED <<bounded, n, cmdsOpen, permit, queued, lock, writeHalf, bytes, timers, select>>

-----------------------------------------------------------------------------
(* The handler's other calls. *)

\* A receive about to suspend calls flush_deferred: one poll under try_lock,
\* or a flush driver.
SuspendReceive ==
  /\ caller = "running"
  /\ caller' = "suspended"
  /\ unflushed' = FALSE
  /\ \/ ~unflushed /\ UNCHANGED <<flushed, flushers>>
     \/ unflushed /\ lock = "free" /\ writeHalf # "up" /\ UNCHANGED <<flushed, flushers>>
     \/ unflushed /\ lock = "free" /\ writeHalf = "up" /\ flushed' = Len(out) /\ UNCHANGED flushers
     \/ unflushed /\ flushers' = flushers + 1 /\ UNCHANGED flushed
  /\ UNCHANGED <<bounded, n, channel, lock, writeHalf, out, timerArmed, sleeping, firing,
                 select, acked>>

ResumeReceive ==
  /\ caller = "suspended"
  /\ caller' = "running"
  /\ UNCHANGED <<bounded, n, channel, lock, writeHalf, bytes, timers, select, acked>>

\* close_and_wait: queue_seq counts the Close and pushes it; on a full
\* channel one waiter delivers both commands, on a closed one the Flush is
\* acknowledged at once.
CloseAndWait ==
  /\ caller = "running"
  /\ queued' = queued + 1
  /\ \/ cmdsOpen /\ ChannelHasRoom /\ caller' = "flushing" /\ cmds' = Append(cmds, CloseFrame)
        /\ UNCHANGED <<waiter, acked>>
     \/ cmdsOpen /\ ~ChannelHasRoom /\ caller' = "closing" /\ waiter' = <<CloseFrame, Flush>>
        /\ UNCHANGED <<cmds, acked>>
     \/ ~cmdsOpen /\ caller' = "closing" /\ acked' = TRUE /\ UNCHANGED <<cmds, waiter>>
  /\ UNCHANGED <<bounded, n, cmdsOpen, permit, lock, writeHalf, bytes, timers, select>>

\* The Flush follows the Close through the same ordered path.  tokio's
\* Receiver::close lets a sender that holds a permit push after the close, so
\* the permit and the push are two steps.
PushFlush ==
  /\ caller = "flushing"
  /\ caller' = "closing"
  /\ \/ cmdsOpen /\ ChannelHasRoom /\ permit' = <<Flush>> /\ UNCHANGED <<cmds, waiter, acked>>
     \/ cmdsOpen /\ ~ChannelHasRoom /\ waiter' = <<Flush>> /\ UNCHANGED <<cmds, permit, acked>>
     \/ ~cmdsOpen /\ acked' = TRUE /\ UNCHANGED <<cmds, permit, waiter>>
  /\ UNCHANGED <<bounded, n, cmdsOpen, queued, lock, writeHalf, bytes, timers, select>>

\* A permit holder pushes its command, whether or not the channel was closed
\* after it got the permit.
PushPermitted ==
  /\ permit # <<>>
  /\ cmds' = cmds \o permit
  /\ permit' = <<>>
  /\ UNCHANGED <<bounded, caller, n, cmdsOpen, waiter, queued, lock, writeHalf, bytes, timers,
                 select, acked>>

\* close(): the Close alone, nothing is awaited.
CloseNoWait ==
  /\ caller = "running"
  /\ caller' = "closed"
  /\ queued' = queued + 1
  /\ \/ cmdsOpen /\ ChannelHasRoom /\ cmds' = Append(cmds, CloseFrame) /\ UNCHANGED waiter
     \/ cmdsOpen /\ ~ChannelHasRoom /\ waiter' = <<CloseFrame>> /\ UNCHANGED cmds
     \/ ~cmdsOpen /\ UNCHANGED <<cmds, waiter>>
  /\ UNCHANGED <<bounded, n, cmdsOpen, permit, lock, writeHalf, bytes, timers, select, acked>>

\* The awaited acknowledgement arrives.
AckArrives ==
  /\ caller = "closing"
  /\ acked
  /\ caller' = "closed"
  /\ UNCHANGED <<bounded, n, channel, lock, writeHalf, bytes, timers, select, acked>>

-----------------------------------------------------------------------------
(* Debounce timers and flush drivers. *)

\* Mutant: a timer that fires stays armed.
TimerWakesArmed ==
  /\ sleeping > 0
  /\ sleeping' = sleeping - 1
  /\ firing' = firing + 1
  /\ UNCHANGED <<bounded, caller, n, channel, lock, writeHalf, bytes, timerArmed, flushers,
                 select, acked>>

\* The timer first disarms ...
TimerWakes ==
  /\ sleeping > 0
  /\ sleeping' = sleeping - 1
  /\ firing' = firing + 1
  /\ timerArmed' = FALSE
  /\ UNCHANGED <<bounded, caller, n, channel, lock, writeHalf, bytes, flushers, select, acked>>

\* ... then takes over the unflushed bytes, if there are any.
TimerTakes ==
  /\ firing > 0
  /\ firing' = firing - 1
  /\ unflushed' = FALSE
  /\ flushers' = IF unflushed THEN flushers + 1 ELSE flushers
  /\ UNCHANGED <<bounded, caller, n, channel, lock, writeHalf, out, flushed, timerArmed,
                 sleeping, select, acked>>

\* A flush driver (or fired timer) locks the sink and awaits its flush.
FlusherLocks ==
  /\ flushers > 0
  /\ lock = "free"
  /\ lock' = "flusher"
  /\ flushers' = flushers - 1
  /\ UNCHANGED <<bounded, caller, n, channel, writeHalf, bytes, timerArmed, sleeping, firing,
                 select, acked>>

FlusherDone ==
  /\ lock = "flusher"
  /\ lock' = "free"
  /\ flushed' = IF writeHalf = "up" THEN Len(out) ELSE flushed
  /\ UNCHANGED <<bounded, caller, n, channel, writeHalf, out, unflushed, timers, select, acked>>

-----------------------------------------------------------------------------
(* The select task. *)

\* A Flush is acknowledged on the spot.
TakeCommand ==
  /\ spc = "idle"
  /\ cmds # <<>>
  /\ cmds' = Tail(cmds)
  /\ cmd' = Head(cmds)
  /\ IF Head(cmds) = Flush
       THEN acked' = TRUE /\ UNCHANGED spc
       ELSE spc' = "locking" /\ UNCHANGED acked
  /\ UNCHANGED <<bounded, caller, n, cmdsOpen, permit, waiter, queued, lock, writeHalf, bytes,
                 timers>>

LockSink ==
  /\ spc = "locking"
  /\ lock = "free"
  /\ lock' = "select"
  /\ spc' = "writing"
  /\ UNCHANGED <<bounded, caller, n, channel, writeHalf, bytes, timers, cmd, acked>>

\* sink.send commits the frame and flushes everything, or the sink breaks;
\* it also takes no frame after a Close.
WriteFrame ==
  /\ spc = "writing"
  /\ lock' = "free"
  /\ \/ /\ writeHalf = "up"
        /\ spc' = "sent"
        /\ out' = Append(out, cmd)
        /\ flushed' = Len(out) + 1
        /\ writeHalf' = IF cmd = CloseFrame THEN "broken" ELSE writeHalf
     \/ /\ spc' = "unsent"
        /\ writeHalf' = "broken"
        /\ UNCHANGED <<out, flushed>>
  /\ UNCHANGED <<bounded, caller, n, channel, unflushed, timers, cmd, acked>>

\* The counter goes down after the write; a failed write ends the
\* connection, a Close goes on to the drain of the read side.
CountWritten ==
  /\ spc \in {"sent", "unsent"}
  /\ queued' = queued - 1
  /\ spc' = IF spc = "unsent" THEN "teardown"
            ELSE IF cmd = CloseFrame THEN "draining" ELSE "idle"
  /\ UNCHANGED <<bounded, caller, n, cmds, cmdsOpen, permit, waiter, lock, writeHalf, bytes,
                 timers,
                 cmd, acked>>

\* The client echoed the Close, or 200 ms passed: close the sink.
DrainEnds ==
  /\ spc = "draining"
  /\ lock = "free"
  /\ spc' = "teardown"
  /\ writeHalf' = "broken"
  /\ UNCHANGED <<bounded, caller, n, channel, lock, bytes, timers, cmd, acked>>

\* The read side ended or failed (the biased select looks at commands first).
ReadEnds ==
  /\ spc = "idle"
  /\ cmds = <<>>
  /\ spc' = "teardown"
  /\ UNCHANGED <<bounded, caller, n, channel, lock, writeHalf, bytes, timers, cmd, acked>>

\* The client sent a Close: echo it and close the sink.
PeerCloses ==
  /\ spc = "idle"
  /\ cmds = <<>>
  /\ lock = "free"
  /\ spc' = "teardown"
  /\ writeHalf' = "broken"
  /\ \/ writeHalf = "up" /\ out' = Append(out, CloseFrame) /\ flushed' = Len(out) + 1
     \/ UNCHANGED <<out, flushed>>
  /\ UNCHANGED <<bounded, caller, n, channel, lock, unflushed, timers, cmd, acked>>

\* The handler is gone and so is every sender of the channel.
RecvNone ==
  /\ spc = "idle"
  /\ cmds = <<>> /\ waiter = <<>> /\ permit = <<>>
  /\ caller = "returned"
  /\ spc' = "teardown"
  /\ UNCHANGED <<bounded, caller, n, channel, lock, writeHalf, bytes, timers, cmd, acked>>

CloseChannel ==
  /\ spc = "teardown"
  /\ cmdsOpen' = FALSE
  /\ spc' = "acking"
  /\ UNCHANGED <<bounded, caller, n, cmds, permit, waiter, queued, lock, writeHalf, bytes,
                 timers, cmd, acked>>

\* try_recv until the channel is empty, acknowledging every Flush.
DrainQueue ==
  /\ spc = "acking"
  /\ acked' = (acked \/ \E i \in DOMAIN cmds : cmds[i] = Flush)
  /\ cmds' = <<>>
  /\ spc' = "taking"
  /\ UNCHANGED <<bounded, caller, n, cmdsOpen, permit, waiter, queued, lock, writeHalf, bytes,
                 timers, cmd>>

\* The write half is taken out of its slot and the task ends, dropping the
\* receiver: a thread-mode Flush dropped with it unblocks its CloseAwaitable.
TakeSink ==
  /\ spc = "taking"
  /\ lock = "free"
  /\ writeHalf' = "taken"
  /\ spc' = "gone"
  /\ cmds' = <<>>
  /\ acked' = (acked \/ (~bounded /\ \E i \in DOMAIN cmds : cmds[i] = Flush))
  /\ UNCHANGED <<bounded, caller, n, cmdsOpen, permit, waiter, queued, lock, bytes, timers, cmd>>

\* The handler's function ends; the last sender goes with it.
HandlerReturns ==
  /\ caller \in {"running", "closed", "failed"}
  /\ caller' = "returned"
  /\ UNCHANGED <<bounded, n, channel, lock, writeHalf, bytes, timers, select, acked>>

-----------------------------------------------------------------------------
SendCalls ==
  \/ SendSunk \/ SendDirect \/ SendDeferred \/ ArmTimer \/ SendQueued
  \/ SuspendReceive \/ ResumeReceive \/ CloseAndWait \/ PushFlush \/ PushPermitted
  \/ CloseNoWait \/ AckArrives \/ HandlerReturns

Flushing == TimerWakes \/ TimerTakes \/ FlusherLocks \/ FlusherDone

CommandTask ==
  \/ TakeCommand \/ LockSink \/ WriteFrame \/ CountWritten \/ DrainEnds \/ RecvNone
  \/ CloseChannel \/ DrainQueue \/ TakeSink

OutboundNext == SendCalls \/ WaiterDelivers \/ Flushing \/ CommandTask \/ ReadEnds \/ PeerCloses

OutboundSpec == OutboundInit /\ [][OutboundNext]_outboundVars

\* tokio polls every runnable task; a write or a flush ends because the peer
\* reads or the connection breaks; a call that the handler is inside returns.
OutboundFairness ==
  /\ WF_outboundVars(ArmTimer \/ PushFlush \/ PushPermitted \/ AckArrives)
  /\ WF_outboundVars(WaiterDelivers)
  /\ WF_outboundVars(Flushing)
  /\ WF_outboundVars(CommandTask)

OutboundFairSpec == OutboundSpec /\ OutboundFairness

-----------------------------------------------------------------------------
(* Properties. *)

Current == IF spc \in {"locking", "writing"} THEN <<cmd>> ELSE <<>>
Pending == Current \o cmds \o permit \o waiter

\* Frames reach the sink in the order of the send calls with none skipped,
\* whichever of the three paths (direct, channel, capacity waiter) each one
\* took, and a Close is the last; and none is missing while the connection is
\* up: what is pending continues what is out, the close behind the frames.
SentInOrder ==
  /\ \A i \in DOMAIN out : (i <= n /\ out[i] = i) \/ (i = Len(out) /\ out[i] = CloseFrame)
  /\ (writeHalf = "up" /\ cmdsOpen) =>
       LET all == out \o Pending
       IN /\ n <= Len(all)
          /\ \A i \in DOMAIN all : IF i <= n THEN all[i] = i
                                             ELSE all[i] \in {CloseFrame, Flush}

\* A handler that feeds replies and then does something else cannot strand
\* them in the sink's buffer (websocket.rs:133-134).
RepliesFlushed ==
  (writeHalf = "up" /\ flushed < Len(out)) ~> (writeHalf # "up" \/ flushed = Len(out))

\* The teardown acknowledges the queued Flushes "so close_and_wait callers
\* can't hang" (websocket.rs:1677-1678): every close_and_wait returns.  A Flush
\* whose sender holds its permit when the channel is closed breaks it: it is
\* pushed behind the drain of the queue and nobody acknowledges it.
CloseReturns == caller \in {"flushing", "closing"} ~> caller = "closed"

=============================================================================
