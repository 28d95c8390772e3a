-------------------------- MODULE WsOutboundProofs --------------------------
(***************************************************************************)
(* Proofs about WsOutbound, for any number of frames and any capacity of   *)
(* the outbound channel: the three ways a frame takes to the sink keep the *)
(* order of the send calls.                                                *)
(*                                                                         *)
(* Every command has one place in the stream of the connection. The        *)
(* invariant says that each queue holds what belongs at its places, and    *)
(* that the counter the direct path reads is the number of commands that   *)
(* are not out: when it is zero, the next frame may overtake nobody.       *)
(***************************************************************************)
EXTENDS WsOutbound, Integers, TLAPS

\* What travels to the select task: frame number k, a Close or a Flush.
Command == Nat \cup {CloseFrame, Flush}

\* The types of the counter, the sequences and the slots.
OutboundTypeOK ==
  /\ n \in Nat /\ queued \in Int
  /\ out \in Seq(Command) /\ cmds \in Seq(Command) /\ waiter \in Seq(Command)
  /\ permit \in {<<>>, <<Flush>>}
  /\ cmd \in Command
  /\ cmdsOpen \in BOOLEAN

(* Command c may be at place p of the stream when m frames have been sent. *)
Fits(c, p, m) == IF p <= m THEN c = p ELSE c \in {CloseFrame, Flush}

(* The handler may still send: it has not called close.                    *)
BeforeClose == caller \in {"running", "arming", "suspended", "capacity"}

\* Commands the select task has taken and not written; and written and not yet
\* taken off the counter.
InProgress == IF spc \in {"locking", "writing"} THEN 1 ELSE 0
Written    == IF spc = "sent" THEN 1 ELSE 0

(* The commands ahead of the channel, and ahead of the capacity waiter.    *)
Ahead  == Len(out) + InProgress
Queued == Ahead + Len(cmds)

(* What is out is the frames in order, a Close the last.                   *)
OutInOrder ==
  /\ \A i \in 1..Len(out) : (i <= n /\ out[i] = i) \/ (i = Len(out) /\ out[i] = CloseFrame)
  /\ writeHalf = "up" => Len(out) <= n /\ \A i \in 1..Len(out) : out[i] = i

(* Every command still to be written is at its place.                      *)
PendingInPlace ==
  (writeHalf = "up" /\ cmdsOpen) =>
    /\ InProgress = 1 => Fits(cmd, Len(out) + 1, n)
    /\ \A j \in 1..Len(cmds) : Fits(cmds[j], Ahead + j, n)
    /\ \A j \in 1..Len(waiter) : Fits(waiter[j], Queued + j, n)
    /\ permit # <<>> => n <= Queued
    /\ n <= Queued + Len(waiter)
    /\ BeforeClose => n = Queued + Len(waiter)

(* The counter that the direct path reads.                                 *)
CounterCounts ==
  writeHalf = "up" /\ BeforeClose => n + Written = Len(out) + queued

(* Where the handler and the select task stand.                            *)
OutboundControl ==
  /\ caller \in {"running", "arming", "suspended", "flushing"} => waiter = <<>> /\ permit = <<>>
  /\ caller = "capacity" => Len(waiter) = 1
  /\ BeforeClose => permit = <<>>
  /\ permit # <<>> => waiter = <<>>
  /\ cmdsOpen <=> spc \notin {"acking", "taking", "gone"}
  /\ InProgress = 1 => cmd # Flush
  /\ spc = "unsent" => writeHalf # "up"

\* The inductive invariant.
OutboundInv ==
  OutboundTypeOK /\ OutInOrder /\ PendingInPlace /\ CounterCounts /\ OutboundControl

-----------------------------------------------------------------------------
(* Queues of commands                                                      *)

\* The two ends of a queue of commands.
LEMMA CommandAppended ==
  ASSUME NEW s \in Seq(Command), NEW c \in Command
  PROVE  /\ Append(s, c) \in Seq(Command)
         /\ Len(Append(s, c)) = Len(s) + 1
         /\ \A j \in 1..Len(s) : Append(s, c)[j] = s[j]
         /\ Append(s, c)[Len(s) + 1] = c
  OBVIOUS

LEMMA CommandTaken ==
  ASSUME NEW s \in Seq(Command), s # <<>>
  PROVE  /\ Head(s) \in Command /\ Tail(s) \in Seq(Command)
         /\ Len(s) \in Nat \ {0} /\ Head(s) = s[1]
         /\ Len(Tail(s)) = Len(s) - 1
         /\ \A j \in 1..(Len(s) - 1) : Tail(s)[j] = s[j + 1]
  OBVIOUS

\* A command that fits behind the queue may join it ...
LEMMA AppendFits ==
  ASSUME NEW s \in Seq(Command), NEW c \in Command, NEW a \in Nat, NEW m \in Nat,
         \A j \in 1..Len(s) : Fits(s[j], a + j, m),
         Fits(c, a + Len(s) + 1, m)
  PROVE  \A j \in 1..Len(Append(s, c)) : Fits(Append(s, c)[j], a + j, m)
<1> SUFFICES ASSUME NEW j \in 1..Len(Append(s, c)) PROVE Fits(Append(s, c)[j], a + j, m)
  OBVIOUS
<1>1. Len(Append(s, c)) = Len(s) + 1 /\ Len(s) \in Nat
  OBVIOUS
<1>2. CASE j \in 1..Len(s)
  <2>1. Append(s, c)[j] = s[j]
    BY <1>2
  <2> QED
    BY <1>2, <2>1
<1>3. CASE j = Len(s) + 1
  <2>1. Append(s, c)[j] = c /\ a + j = a + Len(s) + 1
    BY <1>1, <1>3
  <2> QED
    BY <2>1
<1> QED
  BY <1>1, <1>2, <1>3

\* ... and taking the head moves the others up with the stream.
LEMMA TailFits ==
  ASSUME NEW s \in Seq(Command), s # <<>>, NEW a \in Nat, NEW m \in Nat,
         \A j \in 1..Len(s) : Fits(s[j], a + j, m)
  PROVE  \A j \in 1..(Len(s) - 1) : Fits(Tail(s)[j], (a + 1) + j, m)
<1> SUFFICES ASSUME NEW j \in 1..(Len(s) - 1) PROVE Fits(Tail(s)[j], (a + 1) + j, m)
  OBVIOUS
<1>1. Len(s) \in Nat \ {0} /\ Tail(s)[j] = s[j + 1]
  BY CommandTaken
<1>2. j + 1 \in 1..Len(s) /\ a + (j + 1) = (a + 1) + j
  BY <1>1
<1> QED
  BY <1>1, <1>2

(* The handler or the capacity waiter puts a command on the channel.       *)
LEMMA EnqueueFits ==
  ASSUME OutboundTypeOK, NEW c \in Command, NEW m \in Nat, cmds' = Append(cmds, c), n' = m,
         \A j \in 1..Len(cmds) : Fits(cmds[j], Ahead + j, m),
         Fits(c, Queued + 1, m),
         UNCHANGED <<spc, out>>
  PROVE  /\ Ahead \in Nat /\ Ahead' = Ahead /\ Queued \in Nat /\ Queued' = Queued + 1
         /\ \A j \in 1..Len(cmds') : Fits(cmds'[j], Ahead' + j, n')
<1>1. Ahead \in Nat /\ Ahead' = Ahead /\ Queued = Ahead + Len(cmds) /\ cmds \in Seq(Command)
  BY DEF Ahead, Queued, InProgress, OutboundTypeOK
<1>2. Len(cmds') = Len(cmds) + 1 /\ Len(cmds) \in Nat
  BY <1>1
<1>3. Queued' = Queued + 1 /\ Queued \in Nat
  BY <1>1, <1>2 DEF Queued
<1>4. \A j \in 1..Len(cmds') : Fits(cmds'[j], Ahead + j, m)
  BY <1>1, AppendFits, Zenon
<1> QED
  BY <1>1, <1>3, <1>4

-----------------------------------------------------------------------------
(* Steps that move a command                                               *)

\* A queued send: the frame joins the channel, or goes to a capacity waiter,
\* or the channel is closed.
LEMMA SendQueuedKeeps == ASSUME OutboundInv, SendQueued PROVE OutboundInv'
<1> USE WsOutboundAssumption DEF OutboundInv
<1>1. /\ caller = "running" /\ n' = n + 1 /\ queued' = queued + 1
      /\ n \in Nat /\ n + 1 \in Command /\ queued \in Int /\ cmds \in Seq(Command)
      /\ waiter = <<>> /\ permit = <<>>
      /\ UNCHANGED <<cmdsOpen, permit, writeHalf, out, spc, cmd>>
  BY DEF SendQueued, channel, bytes, select, OutboundTypeOK, OutboundControl, Command
<1>2. CASE cmdsOpen /\ cmds' = Append(cmds, n + 1) /\ UNCHANGED <<caller, waiter>>
  <2>1. cmds' \in Seq(Command) /\ Len(cmds') = Len(cmds) + 1 /\ Len(cmds) \in Nat
         /\ (\A j \in 1..Len(cmds) : cmds'[j] = cmds[j]) /\ cmds'[Len(cmds) + 1] = n + 1
    BY <1>1, <1>2, CommandAppended
  <2>2. OutboundTypeOK'
    BY <1>1, <1>2, <2>1 DEF OutboundTypeOK
  <2>3. PendingInPlace'
    <3> SUFFICES ASSUME writeHalf = "up" PROVE PendingInPlace'
      BY <1>1 DEF PendingInPlace
    <3>1. /\ n = Queued /\ \A j \in 1..Len(cmds) : Fits(cmds[j], Ahead + j, n)
          /\ (InProgress = 1 => Fits(cmd, Len(out) + 1, n))
      BY <1>1, <1>2 DEF PendingInPlace, BeforeClose, Queued, Ahead, OutboundTypeOK, InProgress
    <3>2. \A j \in 1..Len(cmds) : Fits(cmds[j], Ahead + j, n + 1)
      <4> SUFFICES ASSUME NEW j \in 1..Len(cmds) PROVE Fits(cmds[j], Ahead + j, n + 1)
        OBVIOUS
      <4>1. Ahead \in Nat /\ Queued = Ahead + Len(cmds) /\ Len(cmds) \in Nat
        BY <1>1 DEF Queued, Ahead, OutboundTypeOK, InProgress
      <4>2. Ahead + j <= n /\ Ahead + j <= n + 1
        BY <1>1, <3>1, <4>1
      <4> QED
        BY <3>1, <4>2 DEF Fits
    <3>3. Fits(n + 1, Queued + 1, n + 1)
      BY <1>1, <3>1 DEF Fits
    <3>4. /\ Queued \in Nat /\ Queued' = Queued + 1
          /\ \A j \in 1..Len(cmds') : Fits(cmds'[j], Ahead' + j, n')
      BY <1>1, <1>2, <3>2, <3>3, EnqueueFits
    <3>5. InProgress' = 1 => Fits(cmd', Len(out') + 1, n')
      BY <1>1, <2>1, <3>1 DEF Fits, InProgress, Queued, Ahead, OutboundTypeOK
    <3> QED
      BY <1>1, <1>2, <3>1, <3>4, <3>5 DEF PendingInPlace
  <2>4. OutInOrder' /\ CounterCounts'
    BY <1>1, <1>2 DEF OutInOrder, CounterCounts, BeforeClose, Written, OutboundTypeOK
  <2>5. OutboundControl'
    BY <1>1, <1>2 DEF OutboundControl, BeforeClose, InProgress
  <2> QED
    BY <2>2, <2>3, <2>4, <2>5
<1>3. CASE cmdsOpen /\ waiter' = <<n + 1>> /\ caller' = "capacity" /\ UNCHANGED cmds
  <2>1. waiter' \in Seq(Command) /\ Len(waiter') = 1 /\ waiter'[1] = n + 1
    BY <1>1, <1>3
  <2>2. OutboundTypeOK'
    BY <1>1, <1>3, <2>1 DEF OutboundTypeOK
  <2>3. PendingInPlace'
    BY <1>1, <1>3, <2>1
    DEF PendingInPlace, OutboundTypeOK, Fits, BeforeClose, InProgress, Ahead, Queued
  <2>4. OutInOrder' /\ CounterCounts'
    BY <1>1, <1>3 DEF OutInOrder, CounterCounts, BeforeClose, Written, OutboundTypeOK
  <2>5. OutboundControl'
    BY <1>1, <1>3, <2>1 DEF OutboundControl, BeforeClose, InProgress
  <2> QED
    BY <2>2, <2>3, <2>4, <2>5
<1>4. CASE ~cmdsOpen /\ caller' = "failed" /\ UNCHANGED <<cmds, waiter>>
  <2>2. OutboundTypeOK'
    BY <1>1, <1>4 DEF OutboundTypeOK
  <2>3. PendingInPlace' /\ OutInOrder' /\ CounterCounts'
    BY <1>1, <1>4 DEF PendingInPlace, OutInOrder, CounterCounts, BeforeClose, OutboundTypeOK
  <2>5. OutboundControl'
    BY <1>1, <1>4 DEF OutboundControl, BeforeClose, InProgress
  <2> QED
    BY <2>2, <2>3, <2>5
<1> QED
  BY <1>2, <1>3, <1>4 DEF SendQueued

(* Close and Flush fit anywhere behind the frames.                         *)
LEMMA CloseAndWaitKeeps == ASSUME OutboundInv, CloseAndWait PROVE OutboundInv'
<1> USE WsOutboundAssumption DEF OutboundInv
<1>1. /\ caller = "running" /\ caller' \in {"flushing", "closing"} /\ queued' = queued + 1
      /\ n \in Nat /\ queued \in Int /\ cmds \in Seq(Command)
      /\ CloseFrame \in Command /\ Flush \in Command
      /\ waiter = <<>> /\ permit = <<>>
      /\ UNCHANGED <<n, cmdsOpen, permit, writeHalf, out, spc, cmd>>
  BY DEF CloseAndWait, channel, bytes, select, OutboundTypeOK, OutboundControl, Command
<1>2. CounterCounts' /\ OutInOrder'
  BY <1>1 DEF CounterCounts, BeforeClose, OutInOrder
<1>3. CASE cmdsOpen /\ caller' = "flushing" /\ cmds' = Append(cmds, CloseFrame) /\ UNCHANGED waiter
  <2>1. cmds' \in Seq(Command) /\ Len(cmds') = Len(cmds) + 1 /\ Len(cmds) \in Nat
         /\ (\A j \in 1..Len(cmds) : cmds'[j] = cmds[j]) /\ cmds'[Len(cmds) + 1] = CloseFrame
    BY <1>1, <1>3, CommandAppended
  <2>2. OutboundTypeOK'
    BY <1>1, <1>3, <2>1 DEF OutboundTypeOK
  <2>3. PendingInPlace'
    <3> SUFFICES ASSUME writeHalf = "up" PROVE PendingInPlace'
      BY <1>1 DEF PendingInPlace
    <3>1. /\ n = Queued /\ \A j \in 1..Len(cmds) : Fits(cmds[j], Ahead + j, n)
          /\ (InProgress = 1 => Fits(cmd, Len(out) + 1, n))
      BY <1>1, <1>3 DEF PendingInPlace, BeforeClose, Queued, Ahead, OutboundTypeOK, InProgress
    <3>2. Fits(CloseFrame, Queued + 1, n)
      BY <1>1, <3>1 DEF Fits
    <3>3. /\ Queued \in Nat /\ Queued' = Queued + 1
          /\ \A j \in 1..Len(cmds') : Fits(cmds'[j], Ahead' + j, n')
      BY <1>1, <1>3, <3>1, <3>2, EnqueueFits
    <3>4. (InProgress' = 1 => Fits(cmd', Len(out') + 1, n')) /\ ~BeforeClose'
      BY <1>1, <1>3, <3>1 DEF InProgress, BeforeClose
    <3> QED
      BY <1>1, <1>3, <3>1, <3>3, <3>4 DEF PendingInPlace
  <2>5. OutboundControl'
    BY <1>1, <1>3 DEF OutboundControl, BeforeClose, InProgress
  <2> QED
    BY <1>2, <2>2, <2>3, <2>5
<1>4. CASE cmdsOpen /\ caller' = "closing" /\ waiter' = <<CloseFrame, Flush>> /\ UNCHANGED cmds
  <2>1. /\ waiter' \in Seq(Command) /\ Len(waiter') = 2
        /\ waiter'[1] = CloseFrame /\ waiter'[2] = Flush
    BY <1>1, <1>4
  <2>2. OutboundTypeOK'
    BY <1>1, <1>4, <2>1 DEF OutboundTypeOK
  <2>3. PendingInPlace'
    BY <1>1, <1>4, <2>1
    DEF PendingInPlace, OutboundTypeOK, Fits, BeforeClose, InProgress, Ahead, Queued
  <2>5. OutboundControl'
    BY <1>1, <1>4 DEF OutboundControl, BeforeClose, InProgress
  <2> QED
    BY <1>2, <2>2, <2>3, <2>5
<1>5. CASE ~cmdsOpen /\ caller' = "closing" /\ UNCHANGED <<cmds, waiter>>
  <2>2. OutboundTypeOK' /\ PendingInPlace'
    BY <1>1, <1>5 DEF OutboundTypeOK, PendingInPlace
  <2>5. OutboundControl'
    BY <1>1, <1>5 DEF OutboundControl, BeforeClose, InProgress
  <2> QED
    BY <1>2, <2>2, <2>5
<1> QED
  BY <1>3, <1>4, <1>5 DEF CloseAndWait

\* close() in thread mode.
LEMMA CloseNoWaitKeeps == ASSUME OutboundInv, CloseNoWait PROVE OutboundInv'
<1> USE WsOutboundAssumption DEF OutboundInv
<1>1. /\ caller = "running" /\ caller' = "closed" /\ queued' = queued + 1
      /\ n \in Nat /\ queued \in Int /\ cmds \in Seq(Command)
      /\ CloseFrame \in Command
      /\ waiter = <<>> /\ permit = <<>>
      /\ UNCHANGED <<n, cmdsOpen, permit, writeHalf, out, spc, cmd>>
  BY DEF CloseNoWait, channel, bytes, select, OutboundTypeOK, OutboundControl, Command
<1>2. CounterCounts' /\ OutInOrder'
  BY <1>1 DEF CounterCounts, BeforeClose, OutInOrder
<1>3. CASE cmdsOpen /\ cmds' = Append(cmds, CloseFrame) /\ UNCHANGED waiter
  <2>1. cmds' \in Seq(Command) /\ Len(cmds') = Len(cmds) + 1 /\ Len(cmds) \in Nat
         /\ (\A j \in 1..Len(cmds) : cmds'[j] = cmds[j]) /\ cmds'[Len(cmds) + 1] = CloseFrame
    BY <1>1, <1>3, CommandAppended
  <2>2. OutboundTypeOK'
    BY <1>1, <1>3, <2>1 DEF OutboundTypeOK
  <2>3. PendingInPlace'
    <3> SUFFICES ASSUME writeHalf = "up" PROVE PendingInPlace'
      BY <1>1 DEF PendingInPlace
    <3>1. /\ n = Queued /\ \A j \in 1..Len(cmds) : Fits(cmds[j], Ahead + j, n)
          /\ (InProgress = 1 => Fits(cmd, Len(out) + 1, n))
      BY <1>1, <1>3 DEF PendingInPlace, BeforeClose, Queued, Ahead, OutboundTypeOK, InProgress
    <3>2. Fits(CloseFrame, Queued + 1, n)
      BY <1>1, <3>1 DEF Fits
    <3>3. /\ Queued \in Nat /\ Queued' = Queued + 1
          /\ \A j \in 1..Len(cmds') : Fits(cmds'[j], Ahead' + j, n')
      BY <1>1, <1>3, <3>1, <3>2, EnqueueFits
    <3>4. (InProgress' = 1 => Fits(cmd', Len(out') + 1, n')) /\ ~BeforeClose'
      BY <1>1, <1>3, <3>1 DEF InProgress, BeforeClose
    <3> QED
      BY <1>1, <1>3, <3>1, <3>3, <3>4 DEF PendingInPlace
  <2>5. OutboundControl'
    BY <1>1, <1>3 DEF OutboundControl, BeforeClose, InProgress
  <2> QED
    BY <1>2, <2>2, <2>3, <2>5
<1>4. CASE cmdsOpen /\ waiter' = <<CloseFrame>> /\ UNCHANGED cmds
  <2>1. waiter' \in Seq(Command) /\ Len(waiter') = 1 /\ waiter'[1] = CloseFrame
    BY <1>1, <1>4
  <2>2. OutboundTypeOK'
    BY <1>1, <1>4, <2>1 DEF OutboundTypeOK
  <2>3. PendingInPlace'
    BY <1>1, <1>4, <2>1
    DEF PendingInPlace, OutboundTypeOK, Fits, BeforeClose, InProgress, Ahead, Queued
  <2>5. OutboundControl'
    BY <1>1, <1>4 DEF OutboundControl, BeforeClose, InProgress
  <2> QED
    BY <1>2, <2>2, <2>3, <2>5
<1>5. CASE ~cmdsOpen /\ UNCHANGED <<cmds, waiter>>
  <2>2. OutboundTypeOK' /\ PendingInPlace'
    BY <1>1, <1>5 DEF OutboundTypeOK, PendingInPlace
  <2>5. OutboundControl'
    BY <1>1, <1>5 DEF OutboundControl, BeforeClose, InProgress
  <2> QED
    BY <1>2, <2>2, <2>5
<1> QED
  BY <1>3, <1>4, <1>5 DEF CloseNoWait

\* The Flush that follows a Close gets its permit, or a capacity waiter.
LEMMA PushFlushKeeps == ASSUME OutboundInv, PushFlush PROVE OutboundInv'
<1> USE WsOutboundAssumption DEF OutboundInv
<1>1. /\ caller = "flushing" /\ caller' = "closing" /\ waiter = <<>> /\ permit = <<>> /\ Flush \in Command
      /\ UNCHANGED <<n, cmds, cmdsOpen, queued, writeHalf, out, spc, cmd>>
  BY DEF PushFlush, bytes, select, OutboundControl, Command
<1>2. \/ permit' = <<Flush>> /\ waiter' = <<>>
      \/ permit' = <<>> /\ waiter' = <<Flush>>
      \/ permit' = <<>> /\ waiter' = <<>>
  BY <1>1 DEF PushFlush
<1>3. /\ waiter' \in Seq(Command) /\ Len(waiter') \in {0, 1}
      /\ \A j \in 1..Len(waiter') : waiter'[j] = Flush
  <2>1. CASE waiter' = <<>>
    BY <2>1
  <2>2. CASE waiter' = <<Flush>>
    BY <1>1, <2>2
  <2> QED
    BY <1>2, <2>1, <2>2
<1>4. permit' \in {<<>>, <<Flush>>} /\ (permit' # <<>> => waiter' = <<>>)
  BY <1>2
<1>5. OutboundTypeOK'
  BY <1>1, <1>3, <1>4 DEF OutboundTypeOK
<1>6. OutInOrder' /\ CounterCounts'
  BY <1>1 DEF OutInOrder, CounterCounts, BeforeClose
<1>7. PendingInPlace'
  BY <1>1, <1>3 DEF PendingInPlace, OutboundTypeOK, Fits, BeforeClose, InProgress, Ahead, Queued
<1>8. OutboundControl'
  BY <1>1, <1>4 DEF OutboundControl, BeforeClose, InProgress
<1> QED
  BY <1>5, <1>6, <1>7, <1>8

\* The reserved Flush is pushed.
LEMMA PushPermittedKeeps == ASSUME OutboundInv, PushPermitted PROVE OutboundInv'
<1> USE WsOutboundAssumption DEF OutboundInv
<1>1. /\ permit = <<Flush>> /\ permit' = <<>> /\ waiter = <<>> /\ Flush \in Command
      /\ cmds \in Seq(Command) /\ ~BeforeClose
      /\ UNCHANGED <<caller, n, cmdsOpen, waiter, queued, writeHalf, out, spc, cmd>>
  BY DEF PushPermitted, bytes, select, OutboundControl, OutboundTypeOK, Command
<1>2. cmds' = Append(cmds, Flush)
  BY <1>1 DEF PushPermitted
<1>3. cmds' \in Seq(Command) /\ Len(cmds') = Len(cmds) + 1 /\ Len(cmds) \in Nat
       /\ (\A j \in 1..Len(cmds) : cmds'[j] = cmds[j]) /\ cmds'[Len(cmds) + 1] = Flush
  BY <1>1, <1>2, CommandAppended
<1>4. OutboundTypeOK'
  BY <1>1, <1>3 DEF OutboundTypeOK
<1>5. OutInOrder' /\ CounterCounts'
  BY <1>1 DEF OutInOrder, CounterCounts, BeforeClose
<1>6. PendingInPlace'
  <2> SUFFICES ASSUME writeHalf = "up", cmdsOpen PROVE PendingInPlace'
    BY <1>1 DEF PendingInPlace
  <2>1. /\ n <= Queued /\ \A j \in 1..Len(cmds) : Fits(cmds[j], Ahead + j, n)
        /\ (InProgress = 1 => Fits(cmd, Len(out) + 1, n))
    BY <1>1 DEF PendingInPlace
  <2>2. Fits(Flush, Queued + 1, n) /\ n \in Nat
    BY <1>1, <2>1 DEF Fits, Queued, Ahead, OutboundTypeOK, InProgress
  <2>3. /\ Queued \in Nat /\ Queued' = Queued + 1
        /\ \A j \in 1..Len(cmds') : Fits(cmds'[j], Ahead' + j, n')
    BY <1>1, <1>2, <2>1, <2>2, EnqueueFits
  <2>4. (InProgress' = 1 => Fits(cmd', Len(out') + 1, n')) /\ ~BeforeClose'
    BY <1>1, <2>1 DEF InProgress, BeforeClose
  <2>5. n' <= Queued' + Len(waiter') /\ n' <= Queued' /\ Len(waiter') = 0
    BY <1>1, <2>1, <2>2, <2>3
  <2> QED
    BY <2>3, <2>4, <2>5 DEF PendingInPlace
<1>7. OutboundControl'
  BY <1>1 DEF OutboundControl, BeforeClose, InProgress
<1> QED
  BY <1>4, <1>5, <1>6, <1>7

\* A capacity waiter delivers its first command.
LEMMA WaiterDeliversKeeps == ASSUME OutboundInv, WaiterDelivers PROVE OutboundInv'
<1> USE WsOutboundAssumption DEF OutboundInv
<1>1. /\ waiter # <<>> /\ waiter' = Tail(waiter) /\ permit = <<>>
      /\ cmds \in Seq(Command) /\ waiter \in Seq(Command)
      /\ caller' = IF caller = "capacity" /\ Len(waiter) = 1 THEN "running" ELSE caller
      /\ UNCHANGED <<n, cmdsOpen, permit, queued, writeHalf, out, spc, cmd>>
  BY DEF WaiterDelivers, bytes, select, OutboundControl, OutboundTypeOK
<1>2. /\ Head(waiter) \in Command /\ waiter' \in Seq(Command)
      /\ Len(waiter) \in Nat \ {0} /\ Head(waiter) = waiter[1]
      /\ Len(waiter') = Len(waiter) - 1
      /\ \A j \in 1..(Len(waiter) - 1) : waiter'[j] = waiter[j + 1]
  BY <1>1, CommandTaken
<1>3. OutboundControl'
  BY <1>1, <1>2 DEF OutboundControl, BeforeClose, InProgress
<1>4. OutInOrder' /\ CounterCounts'
  BY <1>1 DEF OutInOrder, CounterCounts, BeforeClose, Written
<1>5. CASE cmdsOpen /\ cmds' = Append(cmds, Head(waiter))
  <2>1. cmds' \in Seq(Command) /\ Len(cmds') = Len(cmds) + 1 /\ Len(cmds) \in Nat
         /\ (\A j \in 1..Len(cmds) : cmds'[j] = cmds[j]) /\ cmds'[Len(cmds) + 1] = waiter[1]
    BY <1>1, <1>2, <1>5, CommandAppended
  <2>2. OutboundTypeOK'
    BY <1>1, <1>2, <2>1 DEF OutboundTypeOK
  <2>3. BeforeClose' => BeforeClose
    BY <1>1 DEF BeforeClose
  <2>4. PendingInPlace'
    <3> SUFFICES ASSUME writeHalf = "up" PROVE PendingInPlace'
      BY <1>1 DEF PendingInPlace
    <3>1. /\ n <= Queued + Len(waiter) /\ \A j \in 1..Len(cmds) : Fits(cmds[j], Ahead + j, n)
          /\ (BeforeClose => n = Queued + Len(waiter))
          /\ (InProgress = 1 => Fits(cmd, Len(out) + 1, n))
          /\ \A j \in 1..Len(waiter) : Fits(waiter[j], Queued + j, n)
      BY <1>5 DEF PendingInPlace
    <3>2. Fits(waiter[1], Queued + 1, n) /\ n \in Nat
      BY <1>2, <3>1 DEF OutboundTypeOK
    <3>3. /\ Queued \in Nat /\ Queued' = Queued + 1
          /\ \A j \in 1..Len(cmds') : Fits(cmds'[j], Ahead' + j, n')
      BY <1>1, <1>2, <1>5, <3>1, <3>2, EnqueueFits
    <3>4. \A j \in 1..(Len(waiter) - 1) : Fits(Tail(waiter)[j], (Queued + 1) + j, n)
      BY <1>1, <3>1, <3>2, <3>3, TailFits
    <3>5. InProgress' = 1 => Fits(cmd', Len(out') + 1, n')
      BY <1>1, <3>1 DEF InProgress
    <3>6. \A j \in 1..Len(waiter') : Fits(waiter'[j], Queued' + j, n')
      BY <1>1, <1>2, <3>3, <3>4
    <3>7. Queued' + Len(waiter') = Queued + Len(waiter)
      BY <1>2, <3>3
    <3> QED
      BY <1>1, <2>3, <3>1, <3>3, <3>5, <3>6, <3>7 DEF PendingInPlace
  <2> QED
    BY <1>3, <1>4, <2>2, <2>4
<1>6. CASE ~cmdsOpen /\ UNCHANGED cmds
  <2>1. OutboundTypeOK'
    BY <1>1, <1>2, <1>6 DEF OutboundTypeOK
  <2>2. PendingInPlace'
    BY <1>1, <1>6 DEF PendingInPlace
  <2> QED
    BY <1>3, <1>4, <2>1, <2>2
<1> QED
  BY <1>5, <1>6 DEF WaiterDelivers

\* The select task takes the next command.
LEMMA TakeCommandKeeps == ASSUME OutboundInv, TakeCommand PROVE OutboundInv'
<1> USE WsOutboundAssumption DEF OutboundInv
<1>1. /\ spc = "idle" /\ cmds # <<>> /\ cmds \in Seq(Command) /\ n \in Nat
      /\ cmds' = Tail(cmds) /\ cmd' = Head(cmds)
      /\ spc' = IF Head(cmds) = Flush THEN "idle" ELSE "locking"
      /\ UNCHANGED <<caller, n, cmdsOpen, permit, waiter, queued, writeHalf, out>>
  BY DEF TakeCommand, bytes, OutboundTypeOK
<1>2. /\ Head(cmds) \in Command /\ cmds' \in Seq(Command)
      /\ Len(cmds) \in Nat \ {0} /\ Head(cmds) = cmds[1]
      /\ Len(cmds') = Len(cmds) - 1
      /\ \A j \in 1..(Len(cmds) - 1) : cmds'[j] = cmds[j + 1]
  BY <1>1, CommandTaken
<1>3. OutboundTypeOK'
  BY <1>1, <1>2 DEF OutboundTypeOK
<1>4. OutInOrder' /\ CounterCounts'
  BY <1>1 DEF OutInOrder, CounterCounts, BeforeClose, Written
<1>5. OutboundControl'
  BY <1>1 DEF OutboundControl, BeforeClose, InProgress
<1>6. CASE Head(cmds) # Flush
  <2>1. spc' = "locking" /\ InProgress = 0 /\ InProgress' = 1
    BY <1>1, <1>6 DEF InProgress
  <2>2. PendingInPlace'
    <3> SUFFICES ASSUME writeHalf = "up", cmdsOpen PROVE PendingInPlace'
      BY <1>1 DEF PendingInPlace
    <3>1. /\ Ahead = Len(out) /\ Ahead \in Nat /\ Ahead' = Ahead + 1 /\ Queued' = Queued
      BY <1>1, <1>2, <2>1 DEF Ahead, Queued, OutboundTypeOK
    <3>2. \A j \in 1..Len(cmds) : Fits(cmds[j], Ahead + j, n)
      BY DEF PendingInPlace
    <3>3. Fits(cmd', Len(out') + 1, n')
      BY <1>1, <1>2, <3>1, <3>2
    <3>4. \A j \in 1..(Len(cmds) - 1) : Fits(Tail(cmds)[j], (Ahead + 1) + j, n)
      BY <1>1, <3>1, <3>2, TailFits, Zenon
    <3>5. \A j \in 1..Len(cmds') : Fits(cmds'[j], Ahead' + j, n')
      BY <1>1, <1>2, <3>1, <3>4, SMTT(30)
    <3> QED
      BY <1>1, <3>1, <3>3, <3>5 DEF PendingInPlace, BeforeClose
  <2> QED
    BY <1>3, <1>4, <1>5, <2>2
<1>7. CASE Head(cmds) = Flush
  <2>1. InProgress = 0 /\ InProgress' = 0
    BY <1>1, <1>7 DEF InProgress
  <2>2. ASSUME writeHalf = "up", cmdsOpen PROVE n <= Len(out)
    BY <1>1, <1>2, <1>7, <2>1, <2>2 DEF PendingInPlace, OutboundTypeOK, Fits, Ahead
  <2>3. PendingInPlace'
    BY <1>1, <1>2, <2>1, <2>2 DEF PendingInPlace, OutboundTypeOK, Fits, BeforeClose, Ahead, Queued
  <2> QED
    BY <1>3, <1>4, <1>5, <2>3
<1> QED
  BY <1>6, <1>7

\* The select task writes it: the next frame in order, or the Close.
LEMMA WriteFrameKeeps == ASSUME OutboundInv, WriteFrame PROVE OutboundInv'
<1> USE WsOutboundAssumption DEF OutboundInv
<1>1. /\ spc = "writing" /\ cmdsOpen /\ cmd # Flush /\ cmd \in Command
      /\ out \in Seq(Command) /\ n \in Nat
      /\ InProgress = 1 /\ Written = 0
      /\ UNCHANGED <<caller, n, cmds, cmdsOpen, permit, waiter, queued, cmd>>
  BY DEF WriteFrame, channel, OutboundTypeOK, OutboundControl, InProgress, Written
<1>2. CASE /\ writeHalf = "up" /\ spc' = "sent" /\ out' = Append(out, cmd)
           /\ writeHalf' = IF cmd = CloseFrame THEN "broken" ELSE writeHalf
  <2>1. /\ out' \in Seq(Command) /\ Len(out') = Len(out) + 1 /\ Len(out) \in Nat
        /\ (\A j \in 1..Len(out) : out'[j] = out[j]) /\ out'[Len(out) + 1] = cmd
    BY <1>1, <1>2, CommandAppended
  <2>2. IF Len(out) + 1 <= n THEN cmd = Len(out) + 1 ELSE cmd = CloseFrame
    BY <1>1, <1>2 DEF PendingInPlace, Fits
  <2>3. OutboundTypeOK'
    BY <1>1, <2>1 DEF OutboundTypeOK
  <2>4. OutInOrder'
    BY <1>1, <1>2, <2>1, <2>2 DEF OutInOrder
  <2>5. InProgress' = 0 /\ Written' = 1
    BY <1>2 DEF InProgress, Written
  <2>6. CounterCounts'
    BY <1>1, <1>2, <2>1, <2>5 DEF CounterCounts, BeforeClose, OutboundTypeOK
  <2>7. PendingInPlace'
    BY <1>1, <1>2, <2>1, <2>5 DEF PendingInPlace, OutboundTypeOK, Fits, BeforeClose, Ahead, Queued
  <2>8. OutboundControl'
    BY <1>1, <1>2, <2>5 DEF OutboundControl, BeforeClose
  <2> QED
    BY <2>3, <2>4, <2>6, <2>7, <2>8
<1>3. CASE spc' = "unsent" /\ writeHalf' = "broken" /\ UNCHANGED out
  <2>1. OutboundTypeOK' /\ CounterCounts' /\ PendingInPlace'
    BY <1>1, <1>3 DEF OutboundTypeOK, CounterCounts, PendingInPlace
  <2>2. OutInOrder'
    BY <1>1, <1>3 DEF OutInOrder
  <2>3. OutboundControl'
    BY <1>1, <1>3 DEF OutboundControl, BeforeClose, InProgress
  <2> QED
    BY <2>1, <2>2, <2>3
<1> QED
  BY <1>2, <1>3 DEF WriteFrame

\* A client Close is echoed behind what is out, and ends the sink.
LEMMA ClientClosesKeeps == ASSUME OutboundInv, PeerCloses PROVE OutboundInv'
<1> USE WsOutboundAssumption DEF OutboundInv
<1>1. /\ spc = "idle" /\ spc' = "teardown" /\ writeHalf' = "broken" /\ out \in Seq(Command) /\ n \in Nat
      /\ CloseFrame \in Command
      /\ UNCHANGED <<caller, n, cmds, cmdsOpen, permit, waiter, queued, cmd>>
  BY DEF PeerCloses, channel, OutboundTypeOK, Command
<1>2. PendingInPlace' /\ CounterCounts'
  BY <1>1 DEF PendingInPlace, CounterCounts
<1>3. OutboundControl'
  BY <1>1 DEF OutboundControl, BeforeClose, InProgress
<1>4. CASE writeHalf = "up" /\ out' = Append(out, CloseFrame)
  <2>1. /\ out' \in Seq(Command) /\ Len(out') = Len(out) + 1 /\ Len(out) \in Nat
        /\ (\A j \in 1..Len(out) : out'[j] = out[j]) /\ out'[Len(out) + 1] = CloseFrame
    BY <1>1, <1>4, CommandAppended
  <2>2. OutboundTypeOK' /\ OutInOrder'
    BY <1>1, <1>4, <2>1 DEF OutboundTypeOK, OutInOrder
  <2> QED
    BY <1>2, <1>3, <2>2
<1>5. CASE UNCHANGED out
  <2>1. OutboundTypeOK' /\ OutInOrder'
    BY <1>1, <1>5 DEF OutboundTypeOK, OutInOrder
  <2> QED
    BY <1>2, <1>3, <2>1
<1> QED
  BY <1>4, <1>5 DEF PeerCloses

(* Steps that move neither a command nor the counter: the handler suspends,*)
(* resumes, ends or gets its acknowledgement, and the timers and flushers.  *)
LEMMA NothingSent ==
  ASSUME OutboundInv, UNCHANGED <<n, cmds, cmdsOpen, permit, waiter, queued, writeHalf, out, spc, cmd>>,
         \/ caller' = caller
         \/ {caller, caller'} \subseteq {"running", "arming", "suspended"}
         \/ caller' \in {"closed", "returned"}
  PROVE  OutboundInv'
<1>1. OutboundTypeOK' /\ OutInOrder'
  BY DEF OutboundInv, OutboundTypeOK, OutInOrder
<1>2. (BeforeClose' => BeforeClose) /\ InProgress' = InProgress /\ Written' = Written
  BY DEF BeforeClose, InProgress, Written
<1>3. PendingInPlace' /\ CounterCounts'
  BY <1>2 DEF OutboundInv, PendingInPlace, CounterCounts, Ahead, Queued
<1>4. OutboundControl'
  BY <1>2 DEF OutboundInv, OutboundControl
<1> QED
  BY <1>1, <1>3, <1>4 DEF OutboundInv

\* The direct path writes only when the counter is zero, so that everything
\* sent is out: the three direct sends.
LEMMA SendSunkKeeps == ASSUME OutboundInv, SendSunk PROVE OutboundInv'
<1> USE DEF SendSunk, MayWrite, channel, bytes, select, OutboundInv
<1>1. OutboundTypeOK'
  BY DEF OutboundTypeOK, Command
<1>2. OutInOrder'
  BY DEF OutInOrder, OutboundTypeOK, CounterCounts, BeforeClose, Written
<1>3. PendingInPlace'
  BY DEF PendingInPlace, OutInOrder, CounterCounts, OutboundTypeOK, OutboundControl, Fits,
     BeforeClose, InProgress, Written, Ahead, Queued
<1>4. CounterCounts'
  BY DEF CounterCounts, OutInOrder, OutboundTypeOK, OutboundControl, BeforeClose, Written
<1>5. OutboundControl'
  BY DEF OutboundControl, BeforeClose, InProgress
<1> QED
  BY <1>1, <1>2, <1>3, <1>4, <1>5

LEMMA SendDirectKeeps == ASSUME OutboundInv, SendDirect PROVE OutboundInv'
<1> USE DEF SendDirect, MayWrite, channel, bytes, select, OutboundInv
<1>1. OutboundTypeOK'
  BY DEF OutboundTypeOK, Command
<1>2. OutInOrder'
  BY DEF OutInOrder, OutboundTypeOK, CounterCounts, BeforeClose, Written
<1>3. PendingInPlace'
  BY DEF PendingInPlace, OutInOrder, CounterCounts, OutboundTypeOK, OutboundControl, Fits,
     BeforeClose, InProgress, Written, Ahead, Queued
<1>4. CounterCounts'
  BY DEF CounterCounts, OutInOrder, OutboundTypeOK, OutboundControl, BeforeClose, Written
<1>5. OutboundControl'
  BY DEF OutboundControl, BeforeClose, InProgress
<1> QED
  BY <1>1, <1>2, <1>3, <1>4, <1>5

LEMMA SendDeferredKeeps == ASSUME OutboundInv, SendDeferred PROVE OutboundInv'
<1> USE DEF SendDeferred, MayWrite, channel, bytes, select, OutboundInv
<1>1. OutboundTypeOK'
  BY DEF OutboundTypeOK, Command
<1>2. OutInOrder'
  BY DEF OutInOrder, OutboundTypeOK, CounterCounts, BeforeClose, Written
<1>3. PendingInPlace'
  BY DEF PendingInPlace, OutInOrder, CounterCounts, OutboundTypeOK, OutboundControl, Fits,
     BeforeClose, InProgress, Written, Ahead, Queued
<1>4. CounterCounts'
  BY DEF CounterCounts, OutInOrder, OutboundTypeOK, OutboundControl, BeforeClose, Written
<1>5. OutboundControl'
  BY DEF OutboundControl, BeforeClose, InProgress
<1> QED
  BY <1>1, <1>2, <1>3, <1>4, <1>5

\* The counter follows the write.
LEMMA CountWrittenKeeps == ASSUME OutboundInv, CountWritten PROVE OutboundInv'
<1> USE DEF CountWritten, channel, bytes, select, OutboundInv
<1>1. OutboundTypeOK'
  BY DEF OutboundTypeOK, Command
<1>2. OutInOrder'
  BY DEF OutInOrder, OutboundTypeOK, CounterCounts, BeforeClose, Written
<1>3. PendingInPlace'
  BY DEF PendingInPlace, OutInOrder, CounterCounts, OutboundTypeOK, OutboundControl, Fits,
     BeforeClose, InProgress, Written, Ahead, Queued
<1>4. CounterCounts'
  BY DEF CounterCounts, OutInOrder, OutboundTypeOK, OutboundControl, BeforeClose, Written
<1>5. OutboundControl'
  BY DEF OutboundControl, BeforeClose, InProgress
<1> QED
  BY <1>1, <1>2, <1>3, <1>4, <1>5

(* Steps of the select task that write nothing: it locks the sink, ends the *)
(* loop, closes the channel, empties it or takes the write half away.       *)
LEMMA TaskMovesOn ==
  ASSUME OutboundInv, UNCHANGED <<n, permit, waiter, queued, out, caller, cmd>>,
         cmds' \in {cmds, <<>>}, cmdsOpen' = (spc' \notin {"acking", "taking", "gone"}),
         spc # "sent", spc' \notin {"sent", "unsent"}, InProgress' = 1 => InProgress = 1,
         writeHalf' = "up" => writeHalf = "up",
         \/ writeHalf' # "up" \/ ~cmdsOpen'
         \/ cmds' = cmds /\ cmdsOpen /\ InProgress' = InProgress
  PROVE  OutboundInv'
<1>0. OutboundTypeOK'
  <2>1. <<>> \in Seq(Command)
    OBVIOUS
  <2>2. cmds' \in Seq(Command)
    BY <2>1, Zenon DEF OutboundInv, OutboundTypeOK
  <2>3. cmdsOpen' \in BOOLEAN
    BY Zenon
  <2> QED
    BY <2>2, <2>3 DEF OutboundInv, OutboundTypeOK
<1>1. OutInOrder'
  BY DEF OutboundInv, OutInOrder
<1>2. BeforeClose' = BeforeClose /\ Written = 0 /\ Written' = 0
  BY DEF BeforeClose, Written
<1>3. PendingInPlace'
  <2>1. CASE writeHalf' # "up" \/ ~cmdsOpen'
    BY <2>1 DEF PendingInPlace
  <2>2. CASE cmds' = cmds /\ cmdsOpen /\ InProgress' = InProgress
    BY <1>2, <2>2 DEF OutboundInv, PendingInPlace, Ahead, Queued
  <2> QED
    BY <2>1, <2>2
<1>4. CounterCounts'
  BY <1>2 DEF OutboundInv, CounterCounts
<1>5. OutboundControl'
  BY <1>2, Zenon DEF OutboundInv, OutboundControl
<1> QED
  BY <1>0, <1>1, <1>3, <1>4, <1>5 DEF OutboundInv

-----------------------------------------------------------------------------
(* The invariant, and what follows from it                                 *)

\* Nothing has been sent.
LEMMA OutboundInitInv == OutboundInit => OutboundInv
  BY WsOutboundAssumption DEF OutboundInit, OutboundInv, OutboundTypeOK, OutInOrder, PendingInPlace,
     CounterCounts, OutboundControl, Command, BeforeClose, InProgress, Written, Ahead, Queued

\* One step per action.
LEMMA OutboundStep == OutboundInv /\ [OutboundNext]_outboundVars => OutboundInv'
<1> SUFFICES ASSUME OutboundInv, [OutboundNext]_outboundVars PROVE OutboundInv'
  OBVIOUS
<1>1. CASE ArmTimer \/ SuspendReceive \/ ResumeReceive \/ AckArrives \/ HandlerReturns
  BY <1>1, NothingSent DEF ArmTimer, SuspendReceive, ResumeReceive, AckArrives, HandlerReturns,
     channel, bytes, select
<1>2. CASE Flushing
  BY <1>2, NothingSent DEF Flushing, TimerWakes, TimerTakes, FlusherLocks, FlusherDone,
     channel, bytes, select
<1>3. CASE UNCHANGED outboundVars
  BY <1>3, NothingSent DEF outboundVars
<1>4. CASE SendCalls
  BY <1>1, <1>4, SendSunkKeeps, SendDirectKeeps, SendDeferredKeeps, SendQueuedKeeps,
     CloseAndWaitKeeps, PushFlushKeeps, PushPermittedKeeps, CloseNoWaitKeeps, Zenon
  DEF SendCalls
<1>6. CASE LockSink \/ ReadEnds \/ RecvNone \/ DrainEnds
  <2>1. cmdsOpen = (spc \notin {"acking", "taking", "gone"})
    BY DEF OutboundInv, OutboundTypeOK, OutboundControl
  <2> QED
    BY <1>6, <2>1, TaskMovesOn
    DEF LockSink, ReadEnds, RecvNone, DrainEnds, InProgress, channel, bytes
<1>7. CASE CloseChannel \/ DrainQueue \/ TakeSink
  <2>1. cmdsOpen = (spc \notin {"acking", "taking", "gone"})
    BY DEF OutboundInv, OutboundTypeOK, OutboundControl
  <2> QED
    BY <1>7, <2>1, TaskMovesOn, Zenon DEF CloseChannel, DrainQueue, TakeSink, InProgress, channel, bytes
<1>5. CASE CommandTask
  BY <1>5, <1>6, <1>7, TakeCommandKeeps, WriteFrameKeeps, CountWrittenKeeps, Zenon DEF CommandTask
<1> QED
  BY <1>2, <1>3, <1>4, <1>5, <1>6, WaiterDeliversKeeps, ClientClosesKeeps, Zenon DEF OutboundNext

\* Queues that continue each other.
LEMMA ConcatFits ==
  ASSUME NEW s \in Seq(Command), NEW t \in Seq(Command),
         NEW a \in Nat, NEW b \in Nat, NEW m \in Nat,
         b = a + Len(s),
         \A j \in 1..Len(s) : Fits(s[j], a + j, m),
         \A j \in 1..Len(t) : Fits(t[j], b + j, m)
  PROVE  /\ s \o t \in Seq(Command) /\ Len(s \o t) = Len(s) + Len(t)
         /\ \A j \in 1..Len(s \o t) : Fits((s \o t)[j], a + j, m)
<1>1. s \o t \in Seq(Command) /\ Len(s \o t) = Len(s) + Len(t) /\ Len(s) \in Nat /\ Len(t) \in Nat
  OBVIOUS
<1>2. ASSUME NEW j \in 1..Len(s \o t) PROVE Fits((s \o t)[j], a + j, m)
  <2>1. CASE j <= Len(s)
    <3>1. (s \o t)[j] = s[j] /\ j \in 1..Len(s)
      BY <1>1, <1>2, <2>1
    <3> QED
      BY <3>1
  <2>2. CASE j > Len(s)
    <3>1. (s \o t)[j] = t[j - Len(s)] /\ j - Len(s) \in 1..Len(t)
      BY <1>1, <1>2, <2>2
    <3>2. b + (j - Len(s)) = a + j
      BY <1>1, <1>2
    <3> QED
      BY <3>1, <3>2
  <2>3. j <= Len(s) \/ j > Len(s)
    BY <1>1, <1>2
  <2> QED
    BY <2>1, <2>2, <2>3
<1> QED
  BY <1>1, <1>2, ZenonT(40)

\* What is out, the command in progress, the channel, the permit and the
\* capacity waiter continue each other.
LEMMA OutboundInvSentInOrder == OutboundInv => SentInOrder
<1> SUFFICES ASSUME OutboundInv PROVE SentInOrder
  OBVIOUS
<1>1. /\ out \in Seq(Command) /\ cmds \in Seq(Command) /\ waiter \in Seq(Command) /\ n \in Nat
      /\ permit \in Seq(Command)
  <2>1. \A c \in Command : <<c>> \in Seq(Command)
    OBVIOUS
  <2>2. Flush \in Command /\ <<>> \in Seq(Command)
    BY DEF Command
  <2> QED
    BY <2>1, <2>2, Zenon DEF OutboundInv, OutboundTypeOK
<1>4. Current \in Seq(Command) /\ Len(Current) = InProgress
  <2>1. \A c \in Command : <<c>> \in Seq(Command) /\ Len(<<c>>) = 1
    OBVIOUS
  <2>2. <<>> \in Seq(Command) /\ Len(<<>>) = 0
    OBVIOUS
  <2> QED
    BY <2>1, <2>2 DEF OutboundInv, OutboundTypeOK, Current, InProgress
<1>2. \A i \in DOMAIN out : (i <= n /\ out[i] = i) \/ (i = Len(out) /\ out[i] = CloseFrame)
  BY <1>1 DEF OutboundInv, OutInOrder
<1>3. ASSUME writeHalf = "up", cmdsOpen
      PROVE  /\ n <= Len(out \o Pending)
             /\ \A i \in DOMAIN (out \o Pending) :
                  IF i <= n THEN (out \o Pending)[i] = i
                            ELSE (out \o Pending)[i] \in {CloseFrame, Flush}
  <2>1. /\ Len(out) \in Nat /\ Ahead \in Nat /\ Queued \in Nat
        /\ Len(waiter) \in Nat /\ Len(permit) \in Nat
        /\ Ahead = Len(out) + Len(Current) /\ Queued = Ahead + Len(cmds)
    BY <1>1, <1>4 DEF Ahead, Queued, InProgress
  <2>2. \A j \in 1..Len(out) : Fits(out[j], 0 + j, n)
    BY <1>1, <1>3 DEF OutboundInv, OutInOrder, Fits
  <2>3. \A j \in 1..Len(Current) : Fits(Current[j], Len(out) + j, n)
    BY <1>1, <1>4, <1>3 DEF OutboundInv, PendingInPlace, Current, InProgress
  <2>4. \A j \in 1..Len(cmds) : Fits(cmds[j], Ahead + j, n)
    BY <1>3 DEF OutboundInv, PendingInPlace
  <2>5. \A j \in 1..Len(permit) : Fits(permit[j], Queued + j, n)
    <3>1. CASE permit = <<>>
      BY <3>1
    <3>2. CASE permit = <<Flush>>
      <4>1. n <= Queued
        BY <1>3, <3>2 DEF OutboundInv, PendingInPlace
      <4> QED
        BY <1>1, <2>1, <3>2, <4>1 DEF Fits
    <3> QED
      BY <3>1, <3>2 DEF OutboundInv, OutboundTypeOK
  <2>6. \A j \in 1..Len(waiter) : Fits(waiter[j], (Queued + Len(permit)) + j, n)
    <3>1. CASE waiter = <<>>
      BY <3>1
    <3>2. CASE permit = <<>>
      <4>1. Queued + Len(permit) = Queued
        BY <2>1, <3>2
      <4> QED
        BY <1>3, <4>1 DEF OutboundInv, PendingInPlace
    <3> QED
      BY <3>1, <3>2 DEF OutboundInv, OutboundControl
  <2> DEFINE cc == Current \o cmds
             ccp == cc \o permit
  <2>13. /\ cc \in Seq(Command) /\ Len(cc) = Len(Current) + Len(cmds)
        /\ \A j \in 1..Len(cc) : Fits(cc[j], Len(out) + j, n)
    BY <1>1, <1>4, <2>1, <2>3, <2>4, ConcatFits, Zenon
  <2>14. Pending = ccp \o waiter
    BY DEF Pending
  <2> HIDE DEF cc
  <2>15. Queued = Len(out) + Len(cc) /\ Len(cc) \in Nat
    BY <1>4, <1>1, <2>1, <2>13
  <2>8. /\ ccp \in Seq(Command) /\ Len(ccp) = Len(cc) + Len(permit)
        /\ \A j \in 1..Len(ccp) : Fits(ccp[j], Len(out) + j, n)
    BY <1>1, <2>1, <2>5, <2>13, <2>15, ConcatFits, Zenon
  <2> HIDE DEF ccp
  <2>16. /\ Queued + Len(permit) = Len(out) + Len(ccp)
        /\ Queued + Len(permit) \in Nat /\ Len(ccp) \in Nat
    <3>1. Len(ccp) = Len(cc) + Len(permit)
      BY <2>8
    <3> QED
      BY <2>1, <2>15, <3>1
  <2>9. /\ Pending \in Seq(Command) /\ Len(Pending) = Len(ccp) + Len(waiter)
        /\ \A j \in 1..Len(Pending) : Fits(Pending[j], Len(out) + j, n)
    <3> DEFINE b == Queued + Len(permit)
    <3>1. /\ b \in Nat /\ b = Len(out) + Len(ccp) /\ Len(out) \in Nat
          /\ \A j \in 1..Len(waiter) : Fits(waiter[j], b + j, n)
      BY <2>1, <2>6, <2>16
    <3> HIDE DEF b
    <3>2. /\ ccp \o waiter \in Seq(Command) /\ Len(ccp \o waiter) = Len(ccp) + Len(waiter)
          /\ \A j \in 1..Len(ccp \o waiter) : Fits((ccp \o waiter)[j], Len(out) + j, n)
      BY <1>1, <2>8, <3>1, ConcatFits, ZenonT(40)
    <3> QED
      BY <2>14, <3>2, Zenon
  <2>10. /\ out \o Pending \in Seq(Command) /\ Len(out \o Pending) = Len(out) + Len(Pending)
         /\ \A j \in 1..Len(out \o Pending) : Fits((out \o Pending)[j], 0 + j, n)
    <3>1. Len(out) = 0 + Len(out) /\ 0 \in Nat
      BY <2>1
    <3> QED
      BY <1>1, <2>1, <2>2, <2>9, <3>1, ConcatFits, Zenon
  <2>11. n <= Queued + Len(waiter)
    BY <1>3 DEF OutboundInv, PendingInPlace
  <2>12. n <= Len(out \o Pending)
    BY <1>1, <2>1, <2>16, <2>9, <2>10, <2>11
  <2> QED
    BY <2>10, <2>12 DEF Fits
<1> QED
  BY <1>2, <1>3 DEF SentInOrder

\* Frames reach the sink in the order of the send calls, none skipped,
\* whichever of the three paths each took; a Close is the last; and while the
\* connection is up what is pending continues what is out. For any number of
\* frames and any channel capacity.
THEOREM SendsInOrder == OutboundSpec => []SentInOrder
  BY OutboundInitInv, OutboundStep, OutboundInvSentInOrder, PTL DEF OutboundSpec
=============================================================================
