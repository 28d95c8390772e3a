------------------------------ MODULE WsProofs ------------------------------
(***************************************************************************)
(* Proofs about the way in to a WebSocket handler.                         *)
(*                                                                         *)
(* WsHandshake: whatever the route handler, the client, the 30 s timer and *)
(* hyper do, an accept() in progress is never stranded, and a returned one *)
(* finds the write half.                                                   *)
(*                                                                         *)
(* WsInbound, for any number of frames, futures and any batch size: no     *)
(* wake-up is lost, and frames are received in order.                      *)
(***************************************************************************)
EXTENDS WsHandshake, WsInbound, SequenceTheorems, TLAPS

-----------------------------------------------------------------------------
(* The handshake                                                           *)

(* The route handler saw an accept and has not torn the connection down.   *)
Upgraded == {"upgrading", "published", "serving", "closing"}

(***************************************************************************)
(* The oneshot: the action in it is the handler's own, and the receiving   *)
(* half lives exactly as long as the route handler waits.                  *)
(***************************************************************************)
OneshotOK ==
  /\ listening <=> route = "waiting"
  /\ oneshot = "accept" => pc \in {"storing", "awaiting", "open"}
  /\ oneshot \in {"reject", "fail"} => pc = "rejected"
  /\ route \in Upgraded => oneshot = "accept" /\ answer = 101
  /\ sink <=> route \in Upgraded \ {"upgrading"}

(***************************************************************************)
(* The ready signal: a loop-mode future is in the slot until somebody      *)
(* resolves it, and whoever resolves it has published the write half or    *)
(* leaves the connection for good.                                         *)
(***************************************************************************)
ReadyOK ==
  /\ slot => loopMode
  /\ loopMode /\ pc \in {"stashed", "storing", "awaiting"}
       => slot \/ ready = "resolved"
  /\ pc \in {"storing", "awaiting"} /\ ready # "resolved"
       => route \in {"waiting", "upgrading", "leaving", "published"}
  /\ ~loopMode /\ route \in {"serving", "closing", "gone"} => ready = "resolved"
  /\ ready = "resolved" => sink \/ route \in {"leaving", "gone"}
  /\ pc = "open" \/ (pc = "storing" /\ ~loopMode) => ready = "resolved"

Protocol == OneshotOK /\ ReadyOK

IInv == TypeOK /\ Protocol

LEMMA InitInv == Init => IInv
  <1> SUFFICES ASSUME Init PROVE IInv
    OBVIOUS
  <1>1. TypeOK
    BY Zenon DEF Init, TypeOK
  <1>2. OneshotOK
    BY DEF Init, OneshotOK, Upgraded
  <1>3. ReadyOK
    BY DEF Init, ReadyOK
  <1> QED
    BY <1>1, <1>2, <1>3 DEF IInv, Protocol

\* What a step may write to the flags.
LEMMA FlagWrites ==
  [Next]_vars => /\ loopMode' = loopMode
                 /\ listening' = listening \/ listening' = FALSE
                 /\ slot' = slot \/ slot' = loopMode \/ slot' = FALSE
                 /\ sink' = sink \/ sink' = TRUE \/ sink' = FALSE
  BY DEF Next, vars, Accepting, Route, Accept, Reject, HandlerExits, StashFuture,
         SendAccept, AcceptWakes, StoreConnected, ReceiveAction, AcceptTimeout,
         ClientAborts, Leave, UpgradeFails, PublishSink, SignalReady, ClientCloses,
         Teardown, Fire

LEMMA TypeStep == TypeOK /\ [Next]_vars => TypeOK'
  <1> SUFFICES ASSUME TypeOK, [Next]_vars PROVE TypeOK'
    OBVIOUS
  <1>1. loopMode' \in BOOLEAN /\ listening' \in BOOLEAN
    BY FlagWrites, Zenon DEF TypeOK
  <1>2. slot' \in BOOLEAN
    BY FlagWrites, ZenonT(40) DEF TypeOK
  <1>3. sink' \in BOOLEAN
    BY FlagWrites, Zenon DEF TypeOK
  <1>4. /\ pc' \in {"handler", "accepting", "stashed", "storing", "awaiting", "open",
                    "rejected", "exited"}
        /\ oneshot' \in {"idle", "accept", "reject", "fail", "dropped"}
        /\ ready' \in {"none", "pending", "resolved"}
        /\ route' \in {"waiting", "upgrading", "leaving", "published", "serving",
                       "closing", "gone"}
        /\ answer' \in {0, 101, 403, 500}
        /\ state' \in {"connecting", "connected", "disconnected"}
    BY DEF TypeOK, Next, vars, Accepting, Route, Accept, Reject, HandlerExits,
           StashFuture, SendAccept, AcceptWakes, StoreConnected, ReceiveAction,
           AcceptTimeout, ClientAborts, Leave, UpgradeFails, PublishSink,
           SignalReady, ClientCloses, Teardown, Fire
  <1> QED
    BY <1>1, <1>2, <1>3, <1>4 DEF TypeOK

\* The handler's own calls.
LEMMA HandlerStep ==
  IInv /\ (Accept \/ Reject(403) \/ Reject(500) \/ HandlerExits \/ Accepting) => Protocol'
  <1> SUFFICES ASSUME IInv, Accept \/ Reject(403) \/ Reject(500) \/ HandlerExits \/ Accepting
               PROVE  Protocol'
    OBVIOUS
  <1> USE DEF IInv, TypeOK, Protocol, OneshotOK, ReadyOK, Upgraded
  <1>1. CASE Accept
    BY <1>1 DEF Accept
  <1>2. CASE Reject(403) \/ Reject(500)
    BY <1>2 DEF Reject
  <1>3. CASE HandlerExits
    BY <1>3 DEF HandlerExits
  <1>4. CASE StashFuture
    BY <1>4 DEF StashFuture
  <1>5. CASE SendAccept
    BY <1>5 DEF SendAccept
  <1>6. CASE AcceptWakes
    BY <1>6 DEF AcceptWakes
  <1>7. CASE StoreConnected
    BY <1>7 DEF StoreConnected
  <1> QED
    BY <1>1, <1>2, <1>3, <1>4, <1>5, <1>6, <1>7, ZenonT(40) DEF Accepting

\* The route handler, its callback, the client and hyper.
LEMMA RouteStep ==
  IInv /\ (Route \/ ClientAborts \/ UpgradeFails \/ ClientCloses \/ Teardown)
    => Protocol'
  <1> SUFFICES ASSUME IInv,
                      Route \/ ClientAborts \/ UpgradeFails \/ ClientCloses \/ Teardown
               PROVE  Protocol'
    OBVIOUS
  <1> USE DEF IInv, TypeOK, Protocol, OneshotOK, ReadyOK, Upgraded
  <1>1. CASE ReceiveAction
    BY <1>1 DEF ReceiveAction
  <1>2. CASE AcceptTimeout
    BY <1>2 DEF AcceptTimeout
  <1>3. CASE ClientAborts
    BY <1>3 DEF ClientAborts
  <1>4. CASE Leave
    BY <1>4 DEF Leave, Fire
  <1>5. CASE UpgradeFails
    BY <1>5 DEF UpgradeFails, Fire
  <1>6. CASE PublishSink
    BY <1>6 DEF PublishSink
  <1>7. CASE SignalReady
    BY <1>7 DEF SignalReady, Fire
  <1>8. CASE ClientCloses
    BY <1>8 DEF ClientCloses
  <1>9. CASE Teardown
    BY <1>9 DEF Teardown
  <1> QED
    BY <1>1, <1>2, <1>3, <1>4, <1>5, <1>6, <1>7, <1>8, <1>9, ZenonT(40) DEF Route

LEMMA Inductive == IInv /\ [Next]_vars => IInv'
  <1> SUFFICES ASSUME IInv, [Next]_vars PROVE IInv'
    OBVIOUS
  <1>1. TypeOK'
    BY TypeStep DEF IInv
  <1>2. CASE Next
    BY <1>1, <1>2, HandlerStep, RouteStep DEF Next, IInv
  <1>3. CASE UNCHANGED vars
    BY <1>1, <1>3 DEF vars, IInv, Protocol, OneshotOK, ReadyOK, Upgraded
  <1> QED
    BY <1>2, <1>3

\* The handshake's state keeps its types; handle_ws_upgrade answers 101, 403
\* or 500 and nothing else.
THEOREM TypeCorrect == Spec => []TypeOK
  <1>1. IInv => TypeOK
    BY DEF IInv
  <1> QED
    BY InitInv, Inductive, <1>1, PTL DEF Spec

\* An accept() whose future is unresolved still has it in the slot, and the
\* ReadyGuard that will resolve it is alive, also when the timeout, an abort or
\* a failed upgrade races the accept.
THEOREM NotStranded == Spec => []NeverStranded
  <1>1. IInv => NeverStranded
    BY DEF IInv, TypeOK, Protocol, ReadyOK, NeverStranded
  <1> QED
    BY InitInv, Inductive, <1>1, PTL DEF Spec

\* When accept() has returned, the write half is in its slot, unless the
\* connection is already gone.
THEOREM SinkFirst == Spec => []OpenHasSink
  <1>1. IInv => OpenHasSink
    BY DEF IInv, TypeOK, Protocol, OneshotOK, ReadyOK, OpenHasSink
  <1> QED
    BY InitInv, Inductive, <1>1, PTL DEF Spec

-----------------------------------------------------------------------------
(* The receive path                                                        *)

Takes == {"take", "takeClose", "takeLast"}
Current == {"arming", "recheck", "parked"}

\* While loop_next holds a future, it is in the slot or on its way to be
\* resolved; once the wake is armed, somebody will take it out of the slot;
\* and a task that suspended with something to receive is being woken.
WakeInv ==
  /\ hpc \in Current => made # 0 /\ (fut = made \/ made \in scheduled \cup done)
  /\ hpc \in {"recheck", "parked"} =>
       made \in scheduled \cup done \/ (fut = made /\ (armed \/ rpc \in Takes))
  /\ hpc = "parked" /\ (chan # <<>> \/ ~open) => WakeComing

-----------------------------------------------------------------------------
(* Sequences *)

LEMMA MoveHead ==
  ASSUME NEW S, NEW s \in Seq(S), NEW t \in Seq(S), t # <<>>
  PROVE  Append(s, Head(t)) \o Tail(t) = s \o t
<1>1. Append(s, Head(t)) \o Tail(t) \in Seq(S) /\ s \o t \in Seq(S)
  OBVIOUS
<1>2. Len(Append(s, Head(t)) \o Tail(t)) = Len(s \o t)
  OBVIOUS
<1>3. \A i \in 1 .. Len(s \o t) : (Append(s, Head(t)) \o Tail(t))[i] = (s \o t)[i]
  OBVIOUS
<1> QED
  BY <1>1, <1>2, <1>3, SeqEqual

LEMMA Pieces ==
  ASSUME NEW S, NEW t \in Seq(S), NEW k \in Nat, k < Len(t)
  PROVE  /\ SubSeq(t, 2, k + 1) \in Seq(S) /\ Len(SubSeq(t, 2, k + 1)) = k
         /\ SubSeq(t, k + 2, Len(t)) \in Seq(S)
<1> DEFINE p == SubSeq(t, 2, k + 1)
<1>1. /\ \A i \in 2 .. k + 1 : t[i] \in S
      /\ \A i \in k + 2 .. Len(t) : t[i] \in S
  OBVIOUS
<1>2. /\ p \in Seq(S) /\ Len(p) = IF 2 <= k + 1 THEN k + 1 - 2 + 1 ELSE 0
      /\ \A i \in 1 .. k + 1 - 2 + 1 : p[i] = t[2 + i - 1]
  BY <1>1, SubSeqProperties
<1>3. SubSeq(t, k + 2, Len(t)) \in Seq(S)
  BY <1>1, SubSeqProperties
<1> QED
  BY <1>2, <1>3

LEMMA MoveSome ==
  ASSUME NEW S, NEW s \in Seq(S), NEW t \in Seq(S), t # <<>>,
         NEW k \in Nat, k < Len(t)
  PROVE  Append(s, Head(t)) \o SubSeq(t, 2, k + 1) \o SubSeq(t, k + 2, Len(t)) = s \o t
<1> DEFINE a == Append(s, Head(t))
           p == SubSeq(t, 2, k + 1)
           r == SubSeq(t, k + 2, Len(t))
<1>1. a \in Seq(S)
  OBVIOUS
<1>2. p \in Seq(S) /\ r \in Seq(S)
  BY Pieces, Zenon
<1>3. p \o r = Tail(t)
  <2>1. p \o SubSeq(t, (k + 1) + 1, Len(t)) = SubSeq(t, 2, Len(t))
    <3>1. /\ 2 \in 1 .. Len(t) + 1 /\ k + 1 \in 2 - 1 .. Len(t)
          /\ Len(t) \in k + 1 .. Len(t)
      OBVIOUS
    <3> QED
      BY <3>1, ConcatAdjacentSubSeq, Zenon
  <2>2. SubSeq(t, (k + 1) + 1, Len(t)) = r
    <3>1. (k + 1) + 1 = k + 2
      OBVIOUS
    <3> QED
      BY <3>1, Zenon
  <2>3. SubSeq(t, 2, Len(t)) = Tail(t)
    OBVIOUS
  <2> QED
    BY <2>1, <2>2, <2>3, Zenon
<1>4. (a \o p) \o r = a \o (p \o r)
  <2>1. \A u, v, w \in Seq(S) : (u \o v) \o w = u \o (v \o w)
    <3> TAKE u, v, w \in Seq(S)
    <3> QED
      BY ConcatAssociative, SMTT(30)
  <2> HIDE DEF a, p, r
  <2> QED
    BY <1>1, <1>2, <2>1, Zenon
<1>5. a \o Tail(t) = s \o t
  BY MoveHead, Zenon
<1> QED
  BY <1>3, <1>4, <1>5, Zenon

LEMMA MinOfTwo ==
  ASSUME NEW x \in Nat, NEW y \in Nat
  PROVE  Min({x, y}) \in Nat /\ Min({x, y}) <= x /\ Min({x, y}) <= y
<1>1. \E m \in {x, y} : \A z \in {x, y} : m <= z
  OBVIOUS
<1>2. Min({x, y}) \in {x, y} /\ \A z \in {x, y} : Min({x, y}) <= z
  BY <1>1 DEF Min
<1> QED
  BY <1>2

-----------------------------------------------------------------------------
(* Types *)

\* loop_next runs past its first try_pull only with an empty buffer, and is
\* suspended only on a future it has made.
EmptyWhileArming ==
  /\ hpc \in {"suspending"} \cup Current => buf = <<>>
  /\ hpc \in Current => made # 0

TypeInv == InboundTypeOK /\ EmptyWhileArming

\* A refill moves frames from the channel to the handler and its buffer and
\* keeps their order.
LEMMA PullKeeps ==
  ASSUME InboundTypeOK, Pull, buf = <<>>
  PROVE  /\ chan' \in Seq(Frame) /\ buf' \in Seq(Frame) /\ got' \in Seq(Frame)
         /\ Len(buf') <= BatchCap
         /\ hpc' \in {"ended", "running"}
         /\ got' \o buf' \o chan' = got \o buf \o chan
<1> DEFINE k == Min({BatchCap, Len(chan) - 1})
<1>1. /\ chan \in Seq(Frame) /\ got \in Seq(Frame) /\ chan # <<>>
  BY DEF InboundTypeOK, Pull
<1>2. Len(chan) - 1 \in Nat
  BY <1>1
<1>3. k \in Nat /\ k <= BatchCap /\ k < Len(chan)
  <2>1. k \in Nat /\ k <= BatchCap /\ k <= Len(chan) - 1
    BY <1>2, MinOfTwo, WsInboundAssumption
  <2> QED
    BY <1>1, <1>2, <2>1
<1>4. /\ got' = Append(got, Head(chan))
      /\ buf' = SubSeq(chan, 2, k + 1)
      /\ chan' = SubSeq(chan, k + 2, Len(chan))
      /\ hpc' \in {"ended", "running"}
  BY DEF Pull, Deliver
<1> HIDE DEF k
<1>5. got' \in Seq(Frame)
  BY <1>1, <1>4
<1>6. /\ buf' \in Seq(Frame) /\ Len(buf') = k
      /\ chan' \in Seq(Frame)
  BY <1>1, <1>3, <1>4, Pieces, Zenon
<1>7. Len(buf') <= BatchCap
  BY <1>3, <1>6
<1>8. got' \o buf' \o chan' = got \o chan
  BY <1>1, <1>3, <1>4, MoveSome, Zenon
<1>9. got \o buf = got
  BY <1>1, ConcatEmptySeq, Zenon
<1> QED
  BY <1>4, <1>5, <1>6, <1>7, <1>8, <1>9, Zenon

LEMMA TypeInit == InboundInit => TypeInv
<1> SUFFICES ASSUME InboundInit PROVE TypeInv
  OBVIOUS
<1>1. <<>> \in Seq(Frame) /\ Len(<<>>) = 0
  OBVIOUS
<1>2. /\ wire \in Seq(Frame) /\ chan \in Seq(Frame)
      /\ buf \in Seq(Frame) /\ got \in Seq(Frame) /\ Len(buf) = 0
  BY <1>1, Zenon DEF InboundInit
<1>3. Len(buf) <= BatchCap
  BY <1>2, WsInboundAssumption
<1>4. sent \in 0 .. MaxFrames /\ made \in 0 .. MaxArms /\ fut \in 0 .. made
  BY WsInboundAssumption DEF InboundInit
<1> QED
  BY <1>2, <1>3, <1>4, Zenon DEF InboundInit, TypeInv, InboundTypeOK, EmptyWhileArming, Current

LEMMA InboundTypeStep == TypeInv /\ [InboundNext]_inboundVars => TypeInv'
<1> SUFFICES ASSUME TypeInv, [InboundNext]_inboundVars PROVE TypeInv'
  OBVIOUS
<1> USE DEF TypeInv, EmptyWhileArming, Current
<1>1. CASE SendFrame
  BY <1>1, WsInboundAssumption DEF InboundTypeOK, SendFrame, Frame, reader, wake
<1>2. CASE SendClose
  BY <1>2 DEF InboundTypeOK, SendClose, Frame, reader, wake
<1>3. CASE ReadFrame
  BY <1>3 DEF InboundTypeOK, ReadFrame, wake
<1>4. CASE StopReading
  BY <1>4 DEF InboundTypeOK, StopReading, wake
<1>5. CASE FireSwap
  <2>1. /\ armed' = FALSE
        /\ rpc' \in {"read", "drop", "gone", "take", "takeClose", "takeLast"}
    BY <1>5 DEF FireSwap, AfterFire
  <2> QED
    BY <1>5, <2>1, ZenonT(30) DEF InboundTypeOK, FireSwap, net
<1>6. CASE FireTake
  <2>1. rpc' \in {"read", "drop", "gone"}
    BY <1>6 DEF FireTake, AfterFire
  <2> QED
    BY <1>6, <2>1 DEF InboundTypeOK, FireTake, net
<1>7. CASE DropSender
  BY <1>7, Zenon DEF InboundTypeOK, DropSender, net, wake
<1>8. ASSUME NEW f \in scheduled, Resolve(f) PROVE TypeInv'
  BY <1>8 DEF InboundTypeOK, Resolve, net, reader
<1>9. CASE ReceiveBuffered
  <2>1. /\ buf \in Seq(Frame) /\ buf # <<>> /\ got \in Seq(Frame) /\ Len(buf) <= BatchCap
        /\ got' = Append(got, Head(buf)) /\ buf' = Tail(buf)
        /\ hpc' \in {"ended", "running"}
    BY <1>9 DEF InboundTypeOK, ReceiveBuffered, Deliver
  <2>2. got' \in Seq(Frame) /\ buf' \in Seq(Frame) /\ Len(buf') <= BatchCap
    BY <2>1, WsInboundAssumption
  <2> QED
    BY <1>9, <2>1, <2>2 DEF InboundTypeOK, ReceiveBuffered, net, reader, wake
<1>10. ASSUME Pull, buf = <<>>, UNCHANGED <<onLoop, net, reader, fut, made, scheduled, done>>,
              armed' \in BOOLEAN
       PROVE  TypeInv'
  <2>1. /\ chan' \in Seq(Frame) /\ buf' \in Seq(Frame) /\ got' \in Seq(Frame)
        /\ Len(buf') <= BatchCap
        /\ hpc' \in {"ended", "running"}
    BY <1>10, PullKeeps, Zenon
  <2> QED
    BY <1>10, <2>1 DEF InboundTypeOK, net, reader
<1>11. CASE ReceiveNow
  <2>1. CASE Pull
    BY <1>10, <1>11, <2>1 DEF ReceiveNow, wake, InboundTypeOK
  <2>2. CASE ~Pull
    BY <1>11, <2>2, Zenon DEF InboundTypeOK, ReceiveNow, net, reader, wake
  <2> QED
    BY <2>1, <2>2
<1>12. CASE MakeFuture
  BY <1>12, WsInboundAssumption DEF InboundTypeOK, MakeFuture, net, reader
<1>13. CASE Arm
  BY <1>13 DEF InboundTypeOK, Arm, net, reader
<1>14. CASE Recheck
  <2>1. CASE Pull /\ armed' = FALSE
    BY <1>10, <1>14, <2>1, Zenon DEF Recheck
  <2>2. CASE ~(Pull /\ armed' = FALSE)
    BY <1>14, <2>2, ZenonT(40) DEF InboundTypeOK, Recheck, net, reader
  <2> QED
    BY <2>1, <2>2, Zenon
<1>15. CASE Resume
  BY <1>15 DEF InboundTypeOK, Resume, net, reader, wake
<1>16. CASE CancelReceive
  BY <1>16 DEF InboundTypeOK, CancelReceive, net, reader
<1>17. CASE ReceiveBlocking
  <2>1. CASE Pull
    BY <1>10, <1>17, <2>1 DEF ReceiveBlocking, wake, InboundTypeOK
  <2>2. CASE ~Pull
    BY <1>17, <2>2, Zenon DEF InboundTypeOK, ReceiveBlocking, net, reader, wake
  <2> QED
    BY <2>1, <2>2
<1>18. CASE Return
  BY <1>18 DEF InboundTypeOK, Return, net, reader, wake
<1>19. CASE UNCHANGED inboundVars
  BY <1>19 DEF InboundTypeOK, inboundVars
<1> QED
  BY <1>1, <1>2, <1>3, <1>4, <1>5, <1>6, <1>7, <1>8, <1>9, <1>11, <1>12, <1>13, <1>14,
     <1>15, <1>16, <1>17, <1>18, <1>19 DEF InboundNext, SelectTask, Handler

\* The type invariant of the receive path holds for every number of frames, futures and
\* every batch cap: in particular the batch buffer of RecvAwaitable never holds
\* more than the cap.
THEOREM InboundTypeCorrect == InboundSpec => []InboundTypeOK
<1>1. InboundInit => TypeInv
  BY TypeInit
<1>2. TypeInv /\ [InboundNext]_inboundVars => TypeInv'
  BY InboundTypeStep
<1>3. TypeInv => InboundTypeOK
  BY DEF TypeInv
<1> QED
  BY <1>1, <1>2, <1>3, PTL DEF InboundSpec

-----------------------------------------------------------------------------
(* Wake-ups *)

LEMMA WakeInit == InboundInit => WakeInv
BY DEF InboundInit, WakeInv, Current

LEMMA WakeStep == TypeInv /\ WakeInv /\ [InboundNext]_inboundVars => WakeInv'
<1> SUFFICES ASSUME TypeInv, WakeInv, [InboundNext]_inboundVars PROVE WakeInv'
  OBVIOUS
<1> USE DEF WakeInv, WakeComing, Current, Takes
<1>1. CASE SendFrame
  BY <1>1 DEF SendFrame, reader, wake
<1>2. CASE SendClose
  BY <1>2 DEF SendClose, reader, wake
<1>3. CASE ReadFrame
  BY <1>3 DEF ReadFrame, wake
<1>4. CASE StopReading
  BY <1>4 DEF StopReading, wake
<1>5. CASE FireSwap
  BY <1>5 DEF FireSwap, AfterFire, net, TypeInv, InboundTypeOK
<1>6. CASE FireTake
  BY <1>6 DEF FireTake, AfterFire, net, TypeInv, InboundTypeOK
<1>7. CASE DropSender
  BY <1>7 DEF DropSender, net, wake
<1>8. ASSUME NEW f \in scheduled, Resolve(f) PROVE WakeInv'
  BY <1>8 DEF Resolve, net, reader
<1>9. CASE ReceiveBuffered
  BY <1>9 DEF ReceiveBuffered, Deliver, net, reader, wake
<1>10. ASSUME Pull PROVE WakeInv'
  BY <1>10 DEF Pull, Deliver
<1>11. CASE ReceiveNow
  BY <1>10, <1>11 DEF ReceiveNow
<1>12. CASE MakeFuture
  BY <1>12 DEF MakeFuture, net, reader, TypeInv, InboundTypeOK
<1>13. CASE Arm
  BY <1>13 DEF Arm, net, reader
<1>14. CASE Recheck
  BY <1>10, <1>14 DEF Recheck, net, reader, TypeInv, InboundTypeOK
<1>15. CASE Resume
  BY <1>15 DEF Resume, net, reader, wake
<1>16. CASE CancelReceive
  BY <1>16 DEF CancelReceive, net, reader
<1>17. CASE ReceiveBlocking
  BY <1>10, <1>17 DEF ReceiveBlocking
<1>18. CASE Return
  BY <1>18 DEF Return, net, reader, wake
<1>19. CASE UNCHANGED inboundVars
  BY <1>19 DEF inboundVars
<1> QED
  BY Zenon, <1>1, <1>2, <1>3, <1>4, <1>5, <1>6, <1>7, <1>8, <1>9, <1>11, <1>12, <1>13, <1>14,
     <1>15, <1>16, <1>17, <1>18, <1>19 DEF InboundNext, SelectTask, Handler

\* NoLostWakeup holds for every number of frames, futures and every batch cap:
\* a handler suspended in RecvAwaitable with something to receive is being
\* woken, and one with nothing to receive stays reachable.
THEOREM WakesNotLost == InboundSpec => []NoLostWakeup
<1>1. InboundInit => TypeInv /\ WakeInv
  BY TypeInit, WakeInit
<1>2. TypeInv /\ WakeInv /\ [InboundNext]_inboundVars => (TypeInv /\ WakeInv)'
  BY InboundTypeStep, WakeStep
<1>3. TypeInv /\ WakeInv => NoLostWakeup
  BY DEF TypeInv, InboundTypeOK, WakeInv, NoLostWakeup, WakeComing, Takes, Current
<1> QED
  BY <1>1, <1>2, <1>3, PTL DEF InboundSpec

-----------------------------------------------------------------------------
(* Order *)

\* The numbers from 1 on, the last place excepted if it holds the close frame.
Numbered(q) == \A i \in 1 .. Len(q) : q[i] = i \/ (i = Len(q) /\ q[i] = Close)
NoClose(q)  == \A i \in 1 .. Len(q) : q[i] # Close
Counted(q, n) ==
  IF q # <<>> /\ q[Len(q)] = Close THEN Len(q) = n + 1 ELSE Len(q) = n

Taken == got \o buf \o chan
Reading == {"read", "fire", "take"}

\* All frames, received or not, are numbered in order; until the select task
\* discards something they are all there; and while it reads, the close frame
\* can only be on the wire.
OrderInv ==
  /\ Numbered(Taken \o wire)
  /\ ~dropped => Counted(Taken \o wire, sent)
  /\ rpc \in Reading => ~dropped /\ NoClose(Taken)

LEMMA CatFacts ==
  ASSUME NEW S, NEW q \in Seq(S), NEW r \in Seq(S)
  PROVE  /\ q \o r \in Seq(S) /\ Len(q \o r) = Len(q) + Len(r)
         /\ \A i \in 1 .. Len(q) : (q \o r)[i] = q[i]
         /\ \A i \in 1 .. Len(r) : (q \o r)[Len(q) + i] = r[i]
         /\ \A i \in Len(q) + 1 .. Len(q) + Len(r) : (q \o r)[i] = r[i - Len(q)]
OBVIOUS

LEMMA CatAppend ==
  ASSUME NEW S, NEW q \in Seq(S), NEW r \in Seq(S), NEW e \in S
  PROVE  q \o Append(r, e) = Append(q \o r, e)
<1>1. q \o Append(r, e) \in Seq(S) /\ Append(q \o r, e) \in Seq(S)
  OBVIOUS
<1>2. Len(q \o Append(r, e)) = Len(Append(q \o r, e))
  OBVIOUS
<1>3. \A i \in 1 .. Len(q \o Append(r, e)) : (q \o Append(r, e))[i] = Append(q \o r, e)[i]
  OBVIOUS
<1> QED
  BY <1>1, <1>2, <1>3, SeqEqual

LEMMA NoCloseCat ==
  ASSUME NEW q \in Seq(Frame), NEW r \in Seq(Frame), NoClose(q), NoClose(r)
  PROVE  NoClose(q \o r)
BY DEF NoClose

LEMMA NoCloseAppend ==
  ASSUME NEW q \in Seq(Frame), NEW e \in Frame, NoClose(q), e # Close
  PROVE  NoClose(Append(q, e))
BY DEF NoClose

LEMMA NumberedPrefix ==
  ASSUME NEW q \in Seq(Frame), NEW r \in Seq(Frame), Numbered(q \o r)
  PROVE  Numbered(q)
BY DEF Numbered

LEMMA AppendNext ==
  ASSUME NEW q \in Seq(Frame), NEW n \in Nat, Numbered(q), NoClose(q), Counted(q, n)
  PROVE  /\ Numbered(Append(q, n + 1)) /\ Counted(Append(q, n + 1), n + 1)
         /\ Numbered(Append(q, Close)) /\ Counted(Append(q, Close), n)
<1>1. Len(q) = n /\ \A i \in 1 .. Len(q) : q[i] = i
  BY DEF Numbered, NoClose, Counted
<1>2. n + 1 # Close /\ n + 1 \in Frame /\ Close \in Frame
  BY WsInboundAssumption DEF Frame
<1>3. ASSUME NEW e \in Frame
      PROVE  /\ Append(q, e) # <<>> /\ Len(Append(q, e)) = n + 1
             /\ \A i \in 1 .. n : Append(q, e)[i] = i
             /\ Append(q, e)[n + 1] = e
  <2>1. /\ Append(q, e) # <<>> /\ Len(Append(q, e)) = Len(q) + 1
        /\ \A i \in 1 .. Len(q) : Append(q, e)[i] = q[i]
        /\ Append(q, e)[Len(q) + 1] = e
    OBVIOUS
  <2>2. \A i \in 1 .. n : Append(q, e)[i] = i
    BY <1>1, <2>1, Zenon
  <2> QED
    BY <1>1, <2>1, <2>2, Zenon
<1> QED
  BY <1>2, <1>3 DEF Numbered, Counted

LEMMA InOrder ==
  ASSUME NEW q \in Seq(Frame), Numbered(q), NEW n \in 0 .. Len(q),
         \A i \in 1 .. n : q[i] = i
  PROVE  SubSeq(q, 1, n) = [i \in 1 .. n |-> i]
<1>1. SubSeq(q, 1, n) = Restrict(q, 1 .. n)
  BY SubSeqRestrict, Zenon
<1> QED
  BY <1>1, Zenon DEF Restrict

LEMMA OrderInit == InboundInit => OrderInv
<1> SUFFICES ASSUME InboundInit PROVE OrderInv
  OBVIOUS
<1>1. Taken = <<>> /\ Taken \o wire = <<>> /\ sent = 0 /\ ~dropped
  BY DEF InboundInit, Taken
<1> QED
  BY <1>1 DEF OrderInv, Numbered, Counted, NoClose

\* Whatever leaves the taken frames and the wire alone keeps the order.
LEMMA OrderKept ==
  ASSUME OrderInv, Taken' = Taken, UNCHANGED <<wire, sent, dropped>>,
         rpc' \in Reading => rpc \in Reading
  PROVE  OrderInv'
BY Zenon DEF OrderInv, Numbered, Counted, NoClose

LEMMA OrderStep == TypeInv /\ OrderInv /\ [InboundNext]_inboundVars => OrderInv'
<1> SUFFICES ASSUME TypeInv, OrderInv, [InboundNext]_inboundVars PROVE OrderInv'
  OBVIOUS
<1>1. /\ wire \in Seq(Frame) /\ chan \in Seq(Frame)
      /\ buf \in Seq(Frame) /\ got \in Seq(Frame) /\ sent \in Nat
  BY WsInboundAssumption DEF TypeInv, InboundTypeOK
<1>2. got \o buf \in Seq(Frame) /\ Taken \in Seq(Frame) /\ Taken \o wire \in Seq(Frame)
  <2>1. got \o buf \in Seq(Frame)
    BY <1>1, CatFacts, Zenon
  <2>2. Taken \in Seq(Frame)
    BY <1>1, <2>1, CatFacts, Zenon DEF Taken
  <2> QED
    BY <1>1, <2>1, <2>2, CatFacts, Zenon
<1>3. ASSUME Sending
      PROVE  /\ ~dropped /\ rpc \in Reading /\ NoClose(Taken \o wire)
             /\ Numbered(Taken \o wire) /\ Counted(Taken \o wire, sent)
  <2>1. rpc \in Reading /\ Close \notin Range(wire)
    BY <1>3 DEF Sending, Reading
  <2>2. NoClose(wire)
    BY <1>1, <2>1 DEF NoClose, Range
  <2> QED
    BY <1>1, <1>2, <2>1, <2>2, NoCloseCat, Zenon DEF OrderInv
<1>4. ASSUME NEW e \in Frame, wire' = Append(wire, e), Taken' = Taken
      PROVE  (Taken \o wire)' = Append(Taken \o wire, e)
  <2>1. \A r \in Seq(Frame) : Taken \o Append(r, e) = Append(Taken \o r, e)
    BY <1>2, CatAppend
  <2>2. Taken \o Append(wire, e) = Append(Taken \o wire, e)
    BY <1>1, <2>1, Zenon
  <2> QED
    BY <1>4, <2>2, Zenon
<1>5. CASE SendFrame
  <2>1. /\ Sending /\ wire' = Append(wire, sent + 1) /\ sent' = sent + 1
        /\ UNCHANGED <<chan, buf, got, rpc, dropped>>
    BY <1>5 DEF SendFrame, reader
  <2>2. sent + 1 \in Frame /\ Taken' = Taken
    BY <1>1, <2>1 DEF Frame, Taken
  <2>3. (Taken \o wire)' = Append(Taken \o wire, sent + 1)
    BY <1>4, <2>1, <2>2, Zenon
  <2>4. /\ Numbered(Append(Taken \o wire, sent + 1))
        /\ Counted(Append(Taken \o wire, sent + 1), sent + 1)
    BY <1>1, <1>2, <1>3, <2>1, AppendNext, Zenon
  <2> QED
    BY <2>1, <2>2, <2>3, <2>4, Zenon DEF OrderInv, Numbered, Counted, NoClose
<1>6. CASE SendClose
  <2>1. /\ Sending /\ wire' = Append(wire, Close)
        /\ UNCHANGED <<chan, buf, got, rpc, dropped, sent>>
    BY <1>6 DEF SendClose, reader
  <2>2. Close \in Frame /\ Taken' = Taken
    BY <2>1 DEF Frame, Taken
  <2>3. (Taken \o wire)' = Append(Taken \o wire, Close)
    BY <1>4, <2>1, <2>2, Zenon
  <2>4. Numbered(Append(Taken \o wire, Close)) /\ Counted(Append(Taken \o wire, Close), sent)
    BY <1>1, <1>2, <1>3, <2>1, AppendNext, Zenon
  <2> QED
    BY <2>1, <2>2, <2>3, <2>4, Zenon DEF OrderInv, Numbered, Counted, NoClose
<1>7. CASE ReadFrame
  <2>1. /\ rpc = "read" /\ wire # <<>> /\ wire' = Tail(wire)
        /\ chan' = Append(chan, Head(wire))
        /\ rpc' = (IF Head(wire) = Close THEN "fireClose" ELSE "fire")
        /\ UNCHANGED <<sent, dropped, buf, got>>
    BY <1>7 DEF ReadFrame
  <2>2. Head(wire) \in Frame
    BY <1>1, <2>1
  <2>3. \A q \in Seq(Frame) :
          (got \o buf) \o Append(q, Head(wire)) = Append((got \o buf) \o q, Head(wire))
    BY <1>2, <2>2, CatAppend
  <2>4. Taken' = Append(Taken, Head(wire))
    BY <1>1, <2>1, <2>3, Zenon DEF Taken
  <2>5. Append(Taken, Head(wire)) \o Tail(wire) = Taken \o wire
    BY <1>1, <1>2, <2>1, MoveHead, SMTT(30)
  <2>6. (Taken \o wire)' = Taken \o wire
    BY <2>1, <2>4, <2>5, Zenon
  <2>7. rpc' \in Reading => ~dropped' /\ NoClose(Append(Taken, Head(wire)))
    <3>1. ~dropped /\ NoClose(Taken)
      BY <2>1 DEF OrderInv, Reading
    <3>2. rpc' \in Reading => Head(wire) # Close
      BY <2>1 DEF Reading
    <3> QED
      BY <1>2, <2>1, <2>2, <3>1, <3>2, NoCloseAppend, Zenon
  <2>8. rpc' \in Reading => ~dropped' /\ NoClose(Taken')
    BY <2>4, <2>7, Zenon
  <2> QED
    BY <2>1, <2>6, <2>8, Zenon DEF OrderInv, Numbered, Counted, NoClose
<1>8. CASE StopReading
  <2>1. /\ wire' = <<>> /\ dropped' = TRUE /\ rpc' = "drop" /\ Taken' = Taken
    BY <1>8 DEF StopReading, Taken
  <2>2. Taken' \o wire' = Taken
    BY <1>2, <2>1, ConcatEmptySeq, Zenon
  <2>3. Numbered(Taken)
    BY <1>1, <1>2, NumberedPrefix, Zenon DEF OrderInv
  <2>4. dropped' /\ rpc' \notin Reading
    BY <2>1 DEF Reading
  <2> QED
    BY <2>2, <2>3, <2>4, Zenon DEF OrderInv, Numbered
<1>9. ASSUME Pull, buf = <<>>, UNCHANGED <<wire, sent, dropped, rpc>> PROVE OrderInv'
  <2>1. Taken' = Taken
    BY <1>9, PullKeeps, Zenon DEF Taken, TypeInv
  <2> QED
    BY <1>9, <2>1, OrderKept, Zenon
<1>10. ASSUME UNCHANGED <<wire, sent, dropped, got, buf, chan>>, rpc' \in Reading => rpc \in Reading
       PROVE  OrderInv'
  <2>1. Taken' = Taken
    BY <1>10 DEF Taken
  <2> QED
    BY <1>10, <2>1, OrderKept, Zenon
<1>11. CASE FireSwap
  BY <1>10, <1>11 DEF FireSwap, AfterFire, net, Reading
<1>12. CASE FireTake
  BY <1>10, <1>12 DEF FireTake, AfterFire, net, Reading
<1>13. CASE DropSender
  BY <1>10, <1>13 DEF DropSender, net, Reading
<1>14. ASSUME NEW f \in scheduled, Resolve(f) PROVE OrderInv'
  BY <1>10, <1>14 DEF Resolve, net, reader
<1>15. CASE ReceiveBuffered
  <2>1. /\ buf # <<>> /\ got' = Append(got, Head(buf)) /\ buf' = Tail(buf)
        /\ UNCHANGED <<wire, sent, dropped, rpc, chan>>
    BY <1>15 DEF ReceiveBuffered, Deliver, net, reader
  <2>2. Append(got, Head(buf)) \o Tail(buf) = got \o buf
    BY <1>1, <2>1, MoveHead, SMTT(30)
  <2>3. Taken' = Taken
    BY <2>1, <2>2, Zenon DEF Taken
  <2> QED
    BY <2>1, <2>3, OrderKept, Zenon
<1>16. CASE ReceiveNow
  <2>1. /\ buf = <<>> /\ UNCHANGED <<wire, sent, dropped, rpc>>
        /\ Pull \/ UNCHANGED <<chan, buf, got>>
    BY <1>16 DEF ReceiveNow, net, reader
  <2> QED
    BY <1>9, <1>10, <2>1
<1>17. CASE MakeFuture
  BY <1>10, <1>17 DEF MakeFuture, net, reader
<1>18. CASE Arm
  BY <1>10, <1>18 DEF Arm, net, reader
<1>19. CASE Recheck
  <2>1. /\ buf = <<>> /\ UNCHANGED <<wire, sent, dropped, rpc>>
        /\ Pull \/ UNCHANGED <<chan, buf, got>>
    BY <1>19 DEF Recheck, net, reader, TypeInv, EmptyWhileArming, Current
  <2> QED
    BY <1>9, <1>10, <2>1
<1>20. CASE Resume
  BY <1>10, <1>20 DEF Resume, net, reader
<1>21. CASE CancelReceive
  BY <1>10, <1>21 DEF CancelReceive, net, reader
<1>22. CASE ReceiveBlocking
  <2>1. /\ buf = <<>> /\ UNCHANGED <<wire, sent, dropped, rpc>>
        /\ Pull \/ UNCHANGED <<chan, buf, got>>
    BY <1>22 DEF ReceiveBlocking, net, reader
  <2> QED
    BY <1>9, <1>10, <2>1
<1>23. CASE Return
  BY <1>10, <1>23 DEF Return, net, reader
<1>24. CASE UNCHANGED inboundVars
  BY <1>10, <1>24 DEF inboundVars
<1> QED
  BY <1>5, <1>6, <1>7, <1>8, <1>11, <1>12, <1>13, <1>14, <1>15, <1>16, <1>17, <1>18, <1>19,
     <1>20, <1>21, <1>22, <1>23, <1>24 DEF InboundNext, SelectTask, Handler

\* ReceivedInOrder holds for every number of frames and every batch cap: through
\* batch refills, cancelled receives and either mode, the handler gets the
\* client's frames in the order they were sent, none lost and none twice.
THEOREM ReceivesInOrder == InboundSpec => []ReceivedInOrder
<1>1. InboundInit => TypeInv /\ OrderInv
  BY TypeInit, OrderInit
<1>2. TypeInv /\ OrderInv /\ [InboundNext]_inboundVars => (TypeInv /\ OrderInv)'
  BY InboundTypeStep, OrderStep
<1>3. TypeInv /\ OrderInv => ReceivedInOrder
  <2> SUFFICES ASSUME TypeInv, OrderInv PROVE ReceivedInOrder
    OBVIOUS
  <2> DEFINE all == got \o buf \o chan \o wire
             n == IF all # <<>> /\ all[Len(all)] = Close THEN Len(all) - 1 ELSE Len(all)
  <2>1. all \in Seq(Frame) /\ all = Taken \o wire
    <3>1. /\ wire \in Seq(Frame) /\ chan \in Seq(Frame)
          /\ buf \in Seq(Frame) /\ got \in Seq(Frame)
      BY DEF TypeInv, InboundTypeOK
    <3>2. got \o buf \in Seq(Frame)
      BY <3>1, CatFacts, Zenon
    <3>3. Taken \in Seq(Frame)
      BY <3>1, <3>2, CatFacts, Zenon DEF Taken
    <3>4. Taken \o wire \in Seq(Frame)
      BY <3>1, <3>3, CatFacts, Zenon
    <3> QED
      BY <3>4 DEF Taken
  <2>2. Numbered(all) /\ (~dropped => Counted(all, sent))
    BY <2>1, Zenon DEF OrderInv
  <2> HIDE DEF all
  <2>3. n \in 0 .. Len(all) /\ \A i \in 1 .. n : all[i] = i
    BY <2>1, <2>2 DEF Numbered
  <2>4. ~dropped => n = sent
    BY <2>1, <2>2, WsInboundAssumption DEF Counted, TypeInv, InboundTypeOK
  <2>5. SubSeq(all, 1, n) = [i \in 1 .. n |-> i]
    <3> HIDE DEF n
    <3> QED
      BY <2>1, <2>2, <2>3, InOrder, Zenon
  <2> QED
    BY <2>4, <2>5, Zenon DEF ReceivedInOrder, all
<1> QED
  BY <1>1, <1>2, <1>3, PTL DEF InboundSpec
=============================================================================
