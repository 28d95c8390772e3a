-------------------------- MODULE StreamBodyProofs --------------------------
(***************************************************************************)
(* Proofs about StreamBody, for any set of streams, any channel capacity,  *)
(* any fairness burst and any generator: the drivers of a streaming        *)
(* response keep the promise of OrderedBody, and share the worker loop.    *)
(***************************************************************************)
EXTENDS StreamBody, TLAPS

\* Quotient and remainder, for the fairness yields.
LEMMA Division ==
  ASSUME NEW k \in Nat, NEW d \in Nat \ {0}
  PROVE  k = d * (k \div d) + (k % d)
  OBVIOUS

LEMMA Remainder ==
  ASSUME NEW q \in Int, NEW d \in Nat \ {0}, NEW r \in Int, 0 <= r, r < d
  PROVE  (d * q + r) % d = r
  OBVIOUS

\* Counting up by one, the remainder does too, unless it wraps to 0.
LEMMA NextRemainder ==
  ASSUME NEW k \in Nat \ {0}, NEW d \in Nat \ {0}, k % d # 0
  PROVE  k % d = ((k - 1) % d) + 1
<1> DEFINE q == k \div d
           r == k % d
<1>1. k = d * q + r /\ q \in Int /\ r \in Int /\ 1 <= r /\ r < d
  BY Division
<1>2. (d * q + (r - 1)) % d = r - 1
  <2> HIDE DEF q, r
  <2> QED
    BY <1>1, Remainder
<1>3. d * q + (r - 1) = k - 1
  <2> HIDE DEF q, r
  <2> QED
    BY <1>1
<1> QED
  BY <1>1, <1>2, <1>3

Places == {"none", "drain", "tramp", "thread", "queued", "loop"}
Phases == {"done", "step", "push", "await", "full", "yield", "capture",
           "closing", "close"}

(* The records Idle builds and the actions update.                         *)
Stream ==
    [kind     : {"plain", "await"},
     req      : {"idle", "create", "returned"},
     where    : Places,
     ph       : Phases,
     gen      : {"live", "ended", "raised", "closed"},
     n        : Nat,
     chan     : Seq(Nat),
     senders  : SUBSET {"create", "driver", "waiter"},
     rx       : {"held", "polled", "dropped"},
     fut      : {"none", "pending", "true", "false"},
     got      : Seq(Nat),
     eof      : BOOLEAN,
     captured : BOOLEAN,
     eager    : BOOLEAN,
     turn     : Nat]

(* A chunk has been yielded and is neither in the channel nor read.        *)
InHand(r) == r.ph = "push" \/ r.fut = "pending"

(* What was read and what is queued are the chunks 1, 2, 3, ... with no    *)
(* gap, up to the last one that left the driver's hand.                    *)
InOrder(r) ==
    /\ \A i \in 1..Len(r.got) : r.got[i] = i
    /\ \A j \in 1..Len(r.chan) : r.chan[j] = Len(r.got) + j
    /\ InHand(r) => r.n >= 1
    /\ r.rx = "dropped" => r.chan = <<>>
    /\ r.rx # "dropped" =>
          Len(r.got) + Len(r.chan) = IF InHand(r) THEN r.n - 1 ELSE r.n

(* The channel stays open as long as someone may still push into it.       *)
HoldsSender(r) ==
    /\ r.rx = "held" <=> r.req # "returned"
    /\ "create" \in r.senders <=> r.req # "returned"
    /\ r.fut = "pending" => "waiter" \in r.senders
    /\ r.ph # "done" => \/ "driver" \in r.senders
                        \/ r.where = "drain" /\ r.req = "create"
    /\ r.eof => r.rx = "polled" /\ r.chan = <<>> /\ r.senders = {}

(* How the generator stands while its driver is in each phase.             *)
GeneratorFollows(r) ==
    /\ r.ph \in {"step", "push", "await", "full", "yield", "closing"} =>
          r.gen = "live"
    /\ r.ph = "capture" => r.gen = "raised"
    /\ r.ph = "close" \/ (r.ph = "done" /\ r.req # "idle") =>
          r.gen # "live" /\ (r.gen = "raised" => r.captured)
    /\ r.gen = "closed" \/ r.ph = "closing" \/ r.fut = "false" =>
          r.rx = "dropped"
    /\ r.fut # "none" => r.ph = "full"
    /\ r.req = "idle" => r.ph = "done" /\ r.gen = "live"

(* Between two multiples of FairBurst a turn counts with the chunks.       *)
TurnFollows(r) ==
    r.where = "loop" =>
        /\ r.turn <= FairBurst
        /\ r.ph = "step" => r.turn <= r.n % FairBurst
        /\ r.ph = "push" => r.turn <= (r.n - 1) % FairBurst

\* What holds of the record of one stream in every reachable state.
StreamInv(r) ==
    InOrder(r) /\ HoldsSender(r) /\ GeneratorFollows(r) /\ TurnFollows(r)

\* The inductive invariant.
BodyInv ==
    /\ st \in [Streams -> Stream]
    /\ \A s \in Streams : StreamInv(st[s])

(* The steps OrderedBody allows the view of a stream.                      *)
ViewStep(r, q) ==
    \/ View(q) = View(r)
    \/ /\ r.gen = "live"
       /\ View(q) = [View(r) EXCEPT !.n = @ + 1]
    \/ /\ r.gen = "live"
       /\ \E how \in {"ended", "raised", "closed"} :
             /\ how = "closed" => Reader(r) = "gone"
             /\ View(q) = [View(r) EXCEPT !.source = how]
    \/ /\ r.gen = "raised"
       /\ View(q) = [View(r) EXCEPT !.logged = TRUE]
    \/ /\ Reader(r) = "open"
       /\ \E m \in (Len(r.got) + 1)..r.n :
             View(q) = [View(r) EXCEPT !.got = [i \in 1..m |-> i]]
    \/ /\ Reader(r) = "open"
       /\ r.gen \in {"ended", "raised"} /\ (r.gen = "raised" => r.captured)
       /\ Len(r.got) = r.n
       /\ View(q) = [View(r) EXCEPT !.reader = "eof"]
    \/ /\ Reader(r) = "open"
       /\ View(q) = [View(r) EXCEPT !.reader = "gone"]

-----------------------------------------------------------------------------
(* Chunks in the channel                                                   *)

\* try_send and the capacity waiter append the next chunk.
LEMMA AppendInOrder ==
  ASSUME NEW a \in Nat, NEW c \in Seq(Nat), NEW m \in Nat, a + Len(c) = m - 1,
         \A j \in 1..Len(c) : c[j] = a + j
  PROVE  /\ a + Len(Append(c, m)) = m
         /\ \A j \in 1..Len(Append(c, m)) : Append(c, m)[j] = a + j
  BY SMTT(30)

\* ... which leaves the stream in order, with nothing in hand.
LEMMA SendKeepsOrder ==
  ASSUME NEW r \in Stream, NEW q, InOrder(r), InHand(r), ~InHand(q), r.rx # "dropped",
         q.n = r.n, q.got = r.got, q.chan = Append(r.chan, r.n), q.rx = r.rx
  PROVE  InOrder(q)
<1>1. /\ Len(r.got) \in Nat /\ r.chan \in Seq(Nat) /\ r.n \in Nat
  BY DEF Stream
<1>2. Len(r.got) + Len(r.chan) = r.n - 1 /\ \A j \in 1..Len(r.chan) : r.chan[j] = Len(r.got) + j
  BY Zenon DEF InOrder
<1>3. /\ Len(r.got) + Len(Append(r.chan, r.n)) = r.n
      /\ \A j \in 1..Len(Append(r.chan, r.n)) : Append(r.chan, r.n)[j] = Len(r.got) + j
  BY <1>1, <1>2, AppendInOrder, Zenon
<1> QED
  BY <1>3, Zenon DEF InOrder

\* poll_next takes a batch from the front of the channel ...
LEMMA TakeInOrder ==
  ASSUME NEW g \in Seq(Nat), NEW c \in Seq(Nat), NEW k \in 1..Len(c),
         \A i \in 1..Len(g) : g[i] = i,
         \A j \in 1..Len(c) : c[j] = Len(g) + j
  PROVE  /\ Len(g \o SubSeq(c, 1, k)) = Len(g) + k
         /\ \A i \in 1..(Len(g) + k) : (g \o SubSeq(c, 1, k))[i] = i
<1>1. Len(c) \in Nat /\ Len(g) \in Nat /\ k \in Nat /\ k <= Len(c) /\ 1 <= k
  OBVIOUS
<1>2. /\ SubSeq(c, 1, k) \in Seq(Nat) /\ Len(SubSeq(c, 1, k)) = k
      /\ \A i \in 1..k : SubSeq(c, 1, k)[i] = c[i]
  BY <1>1
<1>4. Len(g \o SubSeq(c, 1, k)) = Len(g) + k
  BY <1>1, <1>2
<1>5. \A i \in 1..(Len(g) + k) : (g \o SubSeq(c, 1, k))[i] = i
  <2> DEFINE h == SubSeq(c, 1, k)
  <2>1. h \in Seq(Nat) /\ Len(h) = k /\ \A i \in 1..k : h[i] = Len(g) + i
    BY <1>1, <1>2
  <2> HIDE DEF h
  <2> SUFFICES ASSUME NEW i \in 1..(Len(g) + k) PROVE (g \o h)[i] = i
    BY DEF h
  <2>2. CASE i <= Len(g)
    BY <1>1, <2>1, <2>2
  <2>3. CASE i > Len(g)
    <3>1. (g \o h)[i] = h[i - Len(g)] /\ i - Len(g) \in 1..k
      BY <1>1, <2>1, <2>3
    <3> QED
      BY <1>1, <2>1, <2>3, <3>1
  <2>4. i <= Len(g) \/ i > Len(g)
    BY <1>1
  <2> QED
    BY <2>2, <2>3, <2>4, Zenon
<1> QED
  BY <1>4, <1>5

\* ... and leaves the rest behind what was read ...
LEMMA RestInOrder ==
  ASSUME NEW a \in Nat, NEW c \in Seq(Nat), NEW k \in 1..Len(c),
         \A j \in 1..Len(c) : c[j] = a + j
  PROVE  /\ Len(SubSeq(c, k + 1, Len(c))) = Len(c) - k
         /\ \A j \in 1..(Len(c) - k) : SubSeq(c, k + 1, Len(c))[j] = (a + k) + j
<1>1. Len(c) \in Nat /\ k \in Nat /\ k <= Len(c) /\ 1 <= k
  OBVIOUS
<1>3. Len(SubSeq(c, k + 1, Len(c))) = Len(c) - k
  BY <1>1
<1>6. \A j \in 1..(Len(c) - k) : SubSeq(c, k + 1, Len(c))[j] = c[j + (k + 1) - 1]
  BY <1>1
<1> QED
  BY <1>1, <1>3, <1>6

\* ... so that reading keeps the order.
LEMMA ReadKeepsOrder ==
  ASSUME NEW r \in Stream, NEW q, NEW k \in 1..Len(r.chan), InOrder(r), r.rx # "dropped",
         q.n = r.n, q.rx = r.rx, q.ph = r.ph, q.fut = r.fut,
         q.got = r.got \o SubSeq(r.chan, 1, k),
         q.chan = SubSeq(r.chan, k + 1, Len(r.chan))
  PROVE  InOrder(q) /\ Len(q.got) = Len(r.got) + k
<1>0. /\ r.got \in Seq(Nat) /\ r.chan \in Seq(Nat) /\ r.n \in Nat
  BY DEF Stream
<1>1. /\ r.got \in Seq(Nat) /\ r.chan \in Seq(Nat) /\ r.n \in Nat
      /\ Len(r.got) \in Nat /\ Len(r.chan) \in Nat /\ k \in Nat
  BY <1>0
<1>2. /\ \A i \in 1..Len(r.got) : r.got[i] = i
      /\ \A j \in 1..Len(r.chan) : r.chan[j] = Len(r.got) + j
  BY DEF InOrder
<1>11. /\ Len(r.got \o SubSeq(r.chan, 1, k)) = Len(r.got) + k
      /\ \A i \in 1..(Len(r.got) + k) : (r.got \o SubSeq(r.chan, 1, k))[i] = i
  BY <1>1, <1>2, TakeInOrder, Zenon
<1>3. Len(q.got) = Len(r.got) + k /\ \A i \in 1..(Len(r.got) + k) : q.got[i] = i
  BY <1>11
<1>4. /\ Len(q.chan) = Len(r.chan) - k
      /\ \A j \in 1..(Len(r.chan) - k) : q.chan[j] = (Len(r.got) + k) + j
  BY <1>1, <1>2, RestInOrder, SMTT(30)
<1>5. Len(r.got) + Len(r.chan) = IF InHand(r) THEN r.n - 1 ELSE r.n
  BY Zenon DEF InOrder
<1>6. InHand(q) <=> InHand(r)
  BY DEF InHand
<1>7. (Len(r.got) + k) + (Len(r.chan) - k) = Len(r.got) + Len(r.chan)
  <2>1. \A x, y, z \in Nat : (x + z) + (y - z) = x + y
    OBVIOUS
  <2> QED
    BY <1>1, <2>1, ZenonT(40)
<1>8. Len(q.got) + Len(q.chan) = IF InHand(q) THEN q.n - 1 ELSE q.n
  BY <1>3, <1>4, <1>5, <1>6, <1>7, Zenon
<1>9. InHand(q) => q.n >= 1
  BY <1>6 DEF InOrder
<1>10. InOrder(q)
  BY <1>3, <1>4, <1>8, <1>9, Zenon DEF InOrder
<1> QED
  BY <1>3, <1>10

\* A sequence that counts is the function OrderedBody writes for it.
LEMMA CountingSequence ==
  ASSUME NEW g \in Seq(Nat), \A i \in 1..Len(g) : g[i] = i
  PROVE  g = [i \in 1..Len(g) |-> i]
  OBVIOUS

\* Updating a field of the view.
LEMMA ViewFields ==
  \A r, v :
    /\ [View(r) EXCEPT !.got = v] =
         [n |-> r.n, got |-> v, source |-> r.gen, logged |-> r.captured, reader |-> Reader(r)]
    /\ [View(r) EXCEPT !.logged = v] =
         [n |-> r.n, got |-> r.got, source |-> r.gen, logged |-> v, reader |-> Reader(r)]
  BY DEF View

-----------------------------------------------------------------------------
(* One lemma per update of the record of a stream                          *)

\* create_body takes the inline drain: the first anext() runs at once.
LEMMA CreateDrains ==
  ASSUME NEW r \in Stream, StreamInv(r), NEW q,
         r.req = "idle",
         q = [r EXCEPT !.req = "create", !.where = "drain", !.ph = "step"]
  PROVE  q \in Stream /\ StreamInv(q) /\ ViewStep(r, q)
<1>1. q \in Stream
  BY ZenonT(40) DEF Stream, Phases, Places
<1>2. InOrder(q)
  BY DEF Stream, StreamInv, InOrder, InHand, GeneratorFollows
<1>3. HoldsSender(q)
  BY DEF Stream, StreamInv, HoldsSender, GeneratorFollows
<1>4. GeneratorFollows(q)
  BY DEF Stream, StreamInv, GeneratorFollows, HoldsSender
<1>5. TurnFollows(q)
  BY StreamAssumption DEF Stream, StreamInv, TurnFollows
<1>6. ViewStep(r, q)
  <2>1. View(q) = View(r)
    BY DEF Stream, View, Reader
  <2> QED
    BY <2>1 DEF ViewStep
<1> QED
  BY <1>1, <1>2, <1>3, <1>4, <1>5, <1>6 DEF StreamInv

\* create_body hands the generator to a thread, the loop or the trampoline.
LEMMA CreateSchedules ==
  ASSUME NEW r \in Stream, StreamInv(r), NEW q,
         NEW w \in {"tramp", "queued", "thread"},
         r.req = "idle",
         q = [r EXCEPT !.req = "create", !.where = w, !.ph = "step",
                       !.senders = @ \cup {"driver"}]
  PROVE  q \in Stream /\ StreamInv(q) /\ ViewStep(r, q)
<1>1. q \in Stream
  BY ZenonT(40) DEF Stream, Phases, Places
<1>2. InOrder(q)
  BY DEF Stream, StreamInv, InOrder, InHand, GeneratorFollows
<1>3. HoldsSender(q)
  BY DEF Stream, StreamInv, HoldsSender, GeneratorFollows
<1>4. GeneratorFollows(q)
  BY DEF Stream, StreamInv, GeneratorFollows, HoldsSender
<1>5. TurnFollows(q)
  BY StreamAssumption DEF Stream, StreamInv, TurnFollows
<1>6. ViewStep(r, q)
  <2>1. View(q) = View(r)
    BY DEF Stream, View, Reader
  <2> QED
    BY <2>1 DEF ViewStep
<1> QED
  BY <1>1, <1>2, <1>3, <1>4, <1>5, <1>6 DEF StreamInv

\* An inline drain that met a real suspension gives up the generator.
LEMMA LeftoverMoves ==
  ASSUME NEW r \in Stream, StreamInv(r), NEW q,
         r.where = "drain",
         r.ph = "step",
         q = [r EXCEPT !.where = "thread", !.senders = @ \cup {"driver"}]
  PROVE  q \in Stream /\ StreamInv(q) /\ ViewStep(r, q)
<1>1. q \in Stream
  BY ZenonT(40) DEF Stream, Phases, Places
<1>2. InOrder(q)
  BY DEF Stream, StreamInv, InOrder, InHand, GeneratorFollows
<1>3. HoldsSender(q)
  BY DEF Stream, StreamInv, HoldsSender, GeneratorFollows
<1>4. GeneratorFollows(q)
  BY DEF Stream, StreamInv, GeneratorFollows, HoldsSender
<1>5. TurnFollows(q)
  BY StreamAssumption DEF Stream, StreamInv, TurnFollows
<1>6. ViewStep(r, q)
  <2>1. View(q) = View(r)
    BY DEF Stream, View, Reader
  <2> QED
    BY <2>1 DEF ViewStep
<1> QED
  BY <1>1, <1>2, <1>3, <1>4, <1>5, <1>6 DEF StreamInv

\* The response is returned: the receiver becomes the body, the builder drops
\* its sender.
LEMMA BuildReturns ==
  ASSUME NEW r \in Stream, StreamInv(r), NEW q,
         r.req = "create",
         r.where \in {"drain", "tramp"} => r.ph = "done",
         q = [r EXCEPT !.req = "returned", !.rx = "polled",
                       !.senders = @ \ {"create"}]
  PROVE  q \in Stream /\ StreamInv(q) /\ ViewStep(r, q)
<1>1. q \in Stream
  BY ZenonT(40) DEF Stream, Phases, Places
<1>2. InOrder(q)
  BY DEF Stream, StreamInv, InOrder, InHand, HoldsSender
<1>3. HoldsSender(q)
  BY DEF Stream, StreamInv, HoldsSender, GeneratorFollows
<1>4. GeneratorFollows(q)
  BY DEF Stream, StreamInv, GeneratorFollows, HoldsSender
<1>5. TurnFollows(q)
  BY StreamAssumption DEF Stream, StreamInv, TurnFollows
<1>6. ViewStep(r, q)
  <2>1. r.rx = "held"
    BY DEF StreamInv, HoldsSender
  <2>2. Reader(q) = Reader(r)
    BY <2>1 DEF Stream, Reader
  <2>3. View(q) = View(r)
    BY <2>2 DEF Stream, View
  <2> QED
    BY <2>3 DEF ViewStep
<1> QED
  BY <1>1, <1>2, <1>3, <1>4, <1>5, <1>6 DEF StreamInv

\* The loop runs the queued start job, eagerly.
LEMMA StartJobRuns ==
  ASSUME NEW r \in Stream, StreamInv(r), NEW q,
         r.where = "queued",
         q = [r EXCEPT !.where = "loop", !.eager = TRUE, !.turn = 0]
  PROVE  q \in Stream /\ StreamInv(q) /\ ViewStep(r, q)
<1>1. q \in Stream
  BY Zenon DEF Stream, Phases, Places
<1>2. InOrder(q)
  BY DEF Stream, StreamInv, InOrder, InHand, GeneratorFollows
<1>3. HoldsSender(q)
  BY DEF Stream, StreamInv, HoldsSender, GeneratorFollows
<1>4. GeneratorFollows(q)
  BY DEF Stream, StreamInv, GeneratorFollows, HoldsSender
<1>5. TurnFollows(q)
  BY StreamAssumption DEF Stream, StreamInv, TurnFollows
<1>6. ViewStep(r, q)
  <2>1. View(q) = View(r)
    BY DEF Stream, View, Reader
  <2> QED
    BY <2>1 DEF ViewStep
<1> QED
  BY <1>1, <1>2, <1>3, <1>4, <1>5, <1>6 DEF StreamInv

\* The generator yields a chunk, which is then in the hand of its driver.
LEMMA YieldsChunk ==
  ASSUME NEW r \in Stream, StreamInv(r), NEW q,
         r.ph = "step",
         q = [r EXCEPT !.n = @ + 1, !.ph = "push"]
  PROVE  q \in Stream /\ StreamInv(q) /\ ViewStep(r, q)
<1>1. q \in Stream
  <2>1. \A k \in Nat, p \in Phases : [r EXCEPT !.n = k, !.ph = p] \in Stream
    BY Zenon DEF Stream
  <2>2. r.n + 1 \in Nat /\ "push" \in Phases
    BY DEF Stream, Phases
  <2> QED
    BY <2>1, <2>2, Zenon
<1>2. InOrder(q)
  BY DEF Stream, StreamInv, InOrder, InHand, GeneratorFollows
<1>3. HoldsSender(q)
  BY DEF Stream, StreamInv, HoldsSender, GeneratorFollows
<1>4. GeneratorFollows(q)
  BY DEF Stream, StreamInv, GeneratorFollows, HoldsSender
<1>5. TurnFollows(q)
  BY StreamAssumption DEF Stream, StreamInv, TurnFollows
<1>6. ViewStep(r, q)
  <2>1. r.gen = "live"
    BY DEF StreamInv, GeneratorFollows
  <2>2. View(q) = [View(r) EXCEPT !.n = @ + 1]
    BY DEF Stream, View, Reader
  <2> QED
    BY <2>1, <2>2 DEF ViewStep
<1> QED
  BY <1>1, <1>2, <1>3, <1>4, <1>5, <1>6 DEF StreamInv

\* The generator ends.
LEMMA EndsGenerator ==
  ASSUME NEW r \in Stream, StreamInv(r), NEW q,
         r.ph = "step",
         q = [r EXCEPT !.gen = "ended", !.ph = "close"]
  PROVE  q \in Stream /\ StreamInv(q) /\ ViewStep(r, q)
<1>1. q \in Stream
  BY ZenonT(40) DEF Stream, Phases, Places
<1>2. InOrder(q)
  BY DEF Stream, StreamInv, InOrder, InHand, GeneratorFollows
<1>3. HoldsSender(q)
  BY DEF Stream, StreamInv, HoldsSender, GeneratorFollows
<1>4. GeneratorFollows(q)
  BY DEF Stream, StreamInv, GeneratorFollows, HoldsSender
<1>5. TurnFollows(q)
  BY StreamAssumption DEF Stream, StreamInv, TurnFollows
<1>6. ViewStep(r, q)
  <2>1. r.gen = "live"
    BY DEF StreamInv, GeneratorFollows
  <2>2. View(q) = [View(r) EXCEPT !.source = "ended"]
    BY DEF Stream, View, Reader
  <2> QED
    BY <2>1, <2>2 DEF ViewStep
<1> QED
  BY <1>1, <1>2, <1>3, <1>4, <1>5, <1>6 DEF StreamInv

\* The generator raises.
LEMMA RaisesError ==
  ASSUME NEW r \in Stream, StreamInv(r), NEW q,
         r.ph = "step",
         q = [r EXCEPT !.gen = "raised", !.ph = "capture"]
  PROVE  q \in Stream /\ StreamInv(q) /\ ViewStep(r, q)
<1>1. q \in Stream
  BY ZenonT(40) DEF Stream, Phases, Places
<1>2. InOrder(q)
  BY DEF Stream, StreamInv, InOrder, InHand, GeneratorFollows
<1>3. HoldsSender(q)
  BY DEF Stream, StreamInv, HoldsSender, GeneratorFollows
<1>4. GeneratorFollows(q)
  BY DEF Stream, StreamInv, GeneratorFollows, HoldsSender
<1>5. TurnFollows(q)
  BY StreamAssumption DEF Stream, StreamInv, TurnFollows
<1>6. ViewStep(r, q)
  <2>1. r.gen = "live"
    BY DEF StreamInv, GeneratorFollows
  <2>2. View(q) = [View(r) EXCEPT !.source = "raised"]
    BY DEF Stream, View, Reader
  <2> QED
    BY <2>1, <2>2 DEF ViewStep
<1> QED
  BY <1>1, <1>2, <1>3, <1>4, <1>5, <1>6 DEF StreamInv

\* The generator awaits; the driver is suspended and no longer eager.
LEMMA AwaitsSuspends ==
  ASSUME NEW r \in Stream, StreamInv(r), NEW q,
         r.ph = "step",
         q = [r EXCEPT !.ph = "await", !.eager = FALSE]
  PROVE  q \in Stream /\ StreamInv(q) /\ ViewStep(r, q)
<1>1. q \in Stream
  BY ZenonT(40) DEF Stream, Phases, Places
<1>2. InOrder(q)
  BY DEF Stream, StreamInv, InOrder, InHand, GeneratorFollows
<1>3. HoldsSender(q)
  BY DEF Stream, StreamInv, HoldsSender, GeneratorFollows
<1>4. GeneratorFollows(q)
  BY DEF Stream, StreamInv, GeneratorFollows, HoldsSender
<1>5. TurnFollows(q)
  BY StreamAssumption DEF Stream, StreamInv, TurnFollows
<1>6. ViewStep(r, q)
  <2>1. View(q) = View(r)
    BY DEF Stream, View, Reader
  <2> QED
    BY <2>1 DEF ViewStep
<1> QED
  BY <1>1, <1>2, <1>3, <1>4, <1>5, <1>6 DEF StreamInv

\* A suspended driver takes its next turn of the loop.
LEMMA DriverResumes ==
  ASSUME NEW r \in Stream, StreamInv(r), NEW q,
         r.ph = "await" \/ r.ph = "yield",
         q = [r EXCEPT !.ph = "step", !.turn = 0]
  PROVE  q \in Stream /\ StreamInv(q) /\ ViewStep(r, q)
<1>1. q \in Stream
  BY ZenonT(40) DEF Stream, Phases, Places
<1>2. InOrder(q)
  BY DEF Stream, StreamInv, InOrder, InHand, GeneratorFollows
<1>3. HoldsSender(q)
  BY DEF Stream, StreamInv, HoldsSender, GeneratorFollows
<1>4. GeneratorFollows(q)
  BY DEF Stream, StreamInv, GeneratorFollows, HoldsSender
<1>5. TurnFollows(q)
  BY StreamAssumption DEF Stream, StreamInv, TurnFollows
<1>6. ViewStep(r, q)
  <2>1. View(q) = View(r)
    BY DEF Stream, View, Reader
  <2> QED
    BY <2>1 DEF ViewStep
<1> QED
  BY <1>1, <1>2, <1>3, <1>4, <1>5, <1>6 DEF StreamInv

\* The chunk fits and the driver goes on in the same turn; the remainder of
\* the count then bounds the turn.
LEMMA PushSteps ==
  ASSUME NEW r \in Stream, StreamInv(r), NEW q,
         NEW e \in BOOLEAN,
         r.ph = "push",
         r.rx # "dropped",
         r.where = "loop" => r.n % FairBurst # 0,
         q = [r EXCEPT !.chan = Append(@, r.n), !.turn = @ + 1,
                       !.ph = "step", !.eager = e]
  PROVE  q \in Stream /\ StreamInv(q) /\ ViewStep(r, q)
<1>1. q \in Stream
  <2>1. \A c \in Seq(Nat), k \in Nat, p \in Phases, f \in BOOLEAN :
          [r EXCEPT !.chan = c, !.turn = k, !.ph = p, !.eager = f] \in Stream
    BY ZenonT(40) DEF Stream
  <2>2. Append(r.chan, r.n) \in Seq(Nat) /\ r.turn + 1 \in Nat /\ "step" \in Phases
    BY DEF Stream, Phases
  <2> QED
    BY <2>1, <2>2, Zenon
<1>2. InOrder(q)
  <2>1. /\ q.n = r.n /\ q.got = r.got /\ q.chan = Append(r.chan, r.n)
        /\ q.rx = r.rx /\ ~InHand(q) /\ InHand(r) /\ InOrder(r)
    BY DEF Stream, InHand, StreamInv, GeneratorFollows
  <2> QED
    BY <2>1, SendKeepsOrder, Zenon
<1>3. HoldsSender(q)
  BY DEF Stream, StreamInv, HoldsSender, GeneratorFollows
<1>4. GeneratorFollows(q)
  BY DEF Stream, StreamInv, GeneratorFollows, HoldsSender
<1>5. TurnFollows(q)
  <2>1. CASE q.where # "loop"
    BY <2>1 DEF TurnFollows
  <2>2. CASE q.where = "loop"
    <3>1. r.n \in Nat \ {0} /\ FairBurst \in Nat \ {0}
      BY StreamAssumption DEF Stream, StreamInv, InOrder, InHand
    <3>2. r.n % FairBurst = ((r.n - 1) % FairBurst) + 1
      BY <2>2, <3>1, NextRemainder DEF Stream
    <3>3. r.n % FairBurst < FairBurst
      BY <3>1
    <3>4. q.n = r.n /\ q.turn = r.turn + 1 /\ q.ph = "step" /\ r.turn \in Nat
      BY DEF Stream
    <3>5. r.turn <= (r.n - 1) % FairBurst
      BY <2>2 DEF Stream, StreamInv, TurnFollows
    <3>6. (r.n - 1) % FairBurst \in Int
      BY <3>1
    <3> HIDE DEF StreamInv
    <3> QED
      BY <3>1, <3>2, <3>3, <3>4, <3>5, <3>6 DEF TurnFollows
  <2> QED
    BY <2>1, <2>2
<1>6. ViewStep(r, q)
  <2>1. View(q) = View(r)
    BY DEF Stream, View, Reader
  <2> QED
    BY <2>1 DEF ViewStep
<1> QED
  BY <1>1, <1>2, <1>3, <1>4, <1>5, <1>6 DEF StreamInv

\* The chunk fits and a multiple of FairBurst is reached: the driver yields.
LEMMA PushGivesWay ==
  ASSUME NEW r \in Stream, StreamInv(r), NEW q,
         NEW e \in BOOLEAN,
         r.ph = "push",
         r.rx # "dropped",
         r.where = "loop",
         q = [r EXCEPT !.chan = Append(@, r.n), !.turn = @ + 1,
                       !.ph = "yield", !.eager = e]
  PROVE  q \in Stream /\ StreamInv(q) /\ ViewStep(r, q)
<1>1. q \in Stream
  <2>1. \A c \in Seq(Nat), k \in Nat, p \in Phases, f \in BOOLEAN :
          [r EXCEPT !.chan = c, !.turn = k, !.ph = p, !.eager = f] \in Stream
    BY ZenonT(40) DEF Stream
  <2>2. Append(r.chan, r.n) \in Seq(Nat) /\ r.turn + 1 \in Nat /\ "yield" \in Phases
    BY DEF Stream, Phases
  <2> QED
    BY <2>1, <2>2, Zenon
<1>2. InOrder(q)
  <2>1. /\ q.n = r.n /\ q.got = r.got /\ q.chan = Append(r.chan, r.n)
        /\ q.rx = r.rx /\ ~InHand(q) /\ InHand(r) /\ InOrder(r)
    BY DEF Stream, InHand, StreamInv, GeneratorFollows
  <2> QED
    BY <2>1, SendKeepsOrder, Zenon
<1>3. HoldsSender(q)
  BY DEF Stream, StreamInv, HoldsSender, GeneratorFollows
<1>4. GeneratorFollows(q)
  BY DEF Stream, StreamInv, GeneratorFollows, HoldsSender
<1>5. TurnFollows(q)
  <2>1. r.n \in Nat \ {0} /\ FairBurst \in Nat \ {0}
    BY StreamAssumption DEF Stream, StreamInv, InOrder, InHand
  <2>2. (r.n - 1) % FairBurst <= FairBurst - 1 /\ (r.n - 1) % FairBurst \in Int
    BY <2>1
  <2>3. q.turn = r.turn + 1 /\ q.ph = "yield" /\ r.turn \in Nat
    BY DEF Stream
  <2>4. r.turn <= (r.n - 1) % FairBurst
    BY DEF Stream, StreamInv, TurnFollows
  <2> QED
    BY <2>1, <2>2, <2>3, <2>4 DEF TurnFollows
<1>6. ViewStep(r, q)
  <2>1. View(q) = View(r)
    BY DEF Stream, View, Reader
  <2> QED
    BY <2>1 DEF ViewStep
<1> QED
  BY <1>1, <1>2, <1>3, <1>4, <1>5, <1>6 DEF StreamInv

\* The receiver is gone: the driver turns to closing the generator.
LEMMA PushFindsClosed ==
  ASSUME NEW r \in Stream, StreamInv(r), NEW q,
         r.ph = "push",
         r.rx = "dropped",
         q = [r EXCEPT !.ph = "closing"]
  PROVE  q \in Stream /\ StreamInv(q) /\ ViewStep(r, q)
<1>1. q \in Stream
  BY DEF Stream, Phases, Places
<1>2. InOrder(q)
  BY DEF Stream, StreamInv, InOrder, InHand, GeneratorFollows
<1>3. HoldsSender(q)
  BY DEF Stream, StreamInv, HoldsSender, GeneratorFollows
<1>4. GeneratorFollows(q)
  BY DEF Stream, StreamInv, GeneratorFollows, HoldsSender
<1>5. TurnFollows(q)
  BY StreamAssumption DEF Stream, StreamInv, TurnFollows
<1>6. ViewStep(r, q)
  <2>1. View(q) = View(r)
    BY DEF Stream, View, Reader
  <2> QED
    BY <2>1 DEF ViewStep
<1> QED
  BY <1>1, <1>2, <1>3, <1>4, <1>5, <1>6 DEF StreamInv

\* The channel is full: the chunk goes to a capacity waiter with a sender of
\* its own.
LEMMA PushParks ==
  ASSUME NEW r \in Stream, StreamInv(r), NEW q,
         r.ph = "push",
         r.rx # "dropped",
         q = [r EXCEPT !.ph = "full", !.fut = "pending",
                       !.senders = @ \cup {"waiter"}, !.eager = FALSE]
  PROVE  q \in Stream /\ StreamInv(q) /\ ViewStep(r, q)
<1>1. q \in Stream
  <2>1. \A S \in SUBSET {"create", "driver", "waiter"}, p \in Phases, f \in BOOLEAN :
          [r EXCEPT !.ph = p, !.fut = "pending", !.senders = S, !.eager = f] \in Stream
    BY ZenonT(40) DEF Stream
  <2>2. r.senders \cup {"waiter"} \in SUBSET {"create", "driver", "waiter"} /\ "full" \in Phases
    BY DEF Stream, Phases
  <2> QED
    BY <2>1, <2>2, Zenon
<1>2. InOrder(q)
  BY DEF Stream, StreamInv, InOrder, InHand, GeneratorFollows
<1>3. HoldsSender(q)
  BY DEF Stream, StreamInv, HoldsSender, GeneratorFollows
<1>4. GeneratorFollows(q)
  BY DEF Stream, StreamInv, GeneratorFollows, HoldsSender
<1>5. TurnFollows(q)
  BY StreamAssumption DEF Stream, StreamInv, TurnFollows
<1>6. ViewStep(r, q)
  <2>1. View(q) = View(r)
    BY DEF Stream, View, Reader
  <2> QED
    BY <2>1 DEF ViewStep
<1> QED
  BY <1>1, <1>2, <1>3, <1>4, <1>5, <1>6 DEF StreamInv

\* The capacity waiter sends the chunk and resolves the future.
LEMMA WaiterSends ==
  ASSUME NEW r \in Stream, StreamInv(r), NEW q,
         r.fut = "pending",
         r.rx # "dropped",
         q = [r EXCEPT !.chan = Append(@, r.n), !.fut = "true",
                       !.senders = @ \ {"waiter"}]
  PROVE  q \in Stream /\ StreamInv(q) /\ ViewStep(r, q)
<1>1. q \in Stream
  <2>1. \A S \in SUBSET {"create", "driver", "waiter"}, c \in Seq(Nat) :
          [r EXCEPT !.chan = c, !.fut = "true", !.senders = S] \in Stream
    BY Zenon DEF Stream
  <2>2. /\ r.senders \ {"waiter"} \in SUBSET {"create", "driver", "waiter"}
        /\ Append(r.chan, r.n) \in Seq(Nat)
    BY DEF Stream
  <2> QED
    BY <2>1, <2>2, Zenon
<1>2. InOrder(q)
  <2>1. /\ q.n = r.n /\ q.got = r.got /\ q.chan = Append(r.chan, r.n)
        /\ q.rx = r.rx /\ ~InHand(q) /\ InHand(r) /\ InOrder(r)
    BY DEF Stream, InHand, StreamInv, GeneratorFollows
  <2> QED
    BY <2>1, SendKeepsOrder, Zenon
<1>3. HoldsSender(q)
  BY DEF Stream, StreamInv, HoldsSender, GeneratorFollows
<1>4. GeneratorFollows(q)
  BY DEF Stream, StreamInv, GeneratorFollows, HoldsSender
<1>5. TurnFollows(q)
  BY StreamAssumption DEF Stream, StreamInv, TurnFollows
<1>6. ViewStep(r, q)
  <2>1. View(q) = View(r)
    BY DEF Stream, View, Reader
  <2> QED
    BY <2>1 DEF ViewStep
<1> QED
  BY <1>1, <1>2, <1>3, <1>4, <1>5, <1>6 DEF StreamInv

\* The capacity waiter finds the channel closed.
LEMMA WaiterGivesUp ==
  ASSUME NEW r \in Stream, StreamInv(r), NEW q,
         r.fut = "pending",
         r.rx = "dropped",
         q = [r EXCEPT !.fut = "false", !.senders = @ \ {"waiter"}]
  PROVE  q \in Stream /\ StreamInv(q) /\ ViewStep(r, q)
<1>1. q \in Stream
  BY Zenon DEF Stream, Phases, Places
<1>2. InOrder(q)
  BY DEF Stream, StreamInv, InOrder, InHand, GeneratorFollows
<1>3. HoldsSender(q)
  BY DEF Stream, StreamInv, HoldsSender, GeneratorFollows
<1>4. GeneratorFollows(q)
  BY DEF Stream, StreamInv, GeneratorFollows, HoldsSender
<1>5. TurnFollows(q)
  BY StreamAssumption DEF Stream, StreamInv, TurnFollows
<1>6. ViewStep(r, q)
  <2>1. View(q) = View(r)
    BY DEF Stream, View, Reader
  <2> QED
    BY <2>1 DEF ViewStep
<1> QED
  BY <1>1, <1>2, <1>3, <1>4, <1>5, <1>6 DEF StreamInv

\* The driver resumed by its waiter has to yield.
LEMMA FullYields ==
  ASSUME NEW r \in Stream, StreamInv(r), NEW q,
         r.ph = "full",
         r.fut = "true",
         q = [r EXCEPT !.ph = "yield", !.fut = "none"]
  PROVE  q \in Stream /\ StreamInv(q) /\ ViewStep(r, q)
<1>1. q \in Stream
  BY Zenon DEF Stream, Phases, Places
<1>2. InOrder(q)
  BY DEF Stream, StreamInv, InOrder, InHand, GeneratorFollows
<1>3. HoldsSender(q)
  BY DEF Stream, StreamInv, HoldsSender, GeneratorFollows
<1>4. GeneratorFollows(q)
  BY DEF Stream, StreamInv, GeneratorFollows, HoldsSender
<1>5. TurnFollows(q)
  BY StreamAssumption DEF Stream, StreamInv, TurnFollows
<1>6. ViewStep(r, q)
  <2>1. View(q) = View(r)
    BY DEF Stream, View, Reader
  <2> QED
    BY <2>1 DEF ViewStep
<1> QED
  BY <1>1, <1>2, <1>3, <1>4, <1>5, <1>6 DEF StreamInv

\* The driver resumed by its waiter goes on, or closes the generator.
LEMMA FullResumes ==
  ASSUME NEW r \in Stream, StreamInv(r), NEW q, NEW p,
         r.ph = "full",
         r.fut \in {"true", "false"},
         p = IF r.fut = "true" THEN "step" ELSE "closing",
         q = [r EXCEPT !.ph = p, !.fut = "none", !.turn = 0]
  PROVE  q \in Stream /\ StreamInv(q) /\ ViewStep(r, q)
<1>1. q \in Stream
  <2>1. p \in Phases
    BY DEF Phases
  <2> QED
    BY <2>1, Zenon DEF Stream
<1>2. InOrder(q)
  BY DEF Stream, StreamInv, InOrder, InHand, GeneratorFollows
<1>3. HoldsSender(q)
  BY DEF Stream, StreamInv, HoldsSender, GeneratorFollows
<1>4. GeneratorFollows(q)
  BY DEF Stream, StreamInv, GeneratorFollows, HoldsSender
<1>5. TurnFollows(q)
  BY StreamAssumption DEF Stream, StreamInv, TurnFollows
<1>6. ViewStep(r, q)
  <2>1. View(q) = View(r)
    BY DEF Stream, View, Reader
  <2> QED
    BY <2>1 DEF ViewStep
<1> QED
  BY <1>1, <1>2, <1>3, <1>4, <1>5, <1>6 DEF StreamInv

\* aclose() has run.
LEMMA ClosesGenerator ==
  ASSUME NEW r \in Stream, StreamInv(r), NEW q,
         r.ph = "closing",
         q = [r EXCEPT !.gen = "closed", !.ph = "close"]
  PROVE  q \in Stream /\ StreamInv(q) /\ ViewStep(r, q)
<1>1. q \in Stream
  BY ZenonT(40) DEF Stream, Phases, Places
<1>2. InOrder(q)
  BY DEF Stream, StreamInv, InOrder, InHand, GeneratorFollows
<1>3. HoldsSender(q)
  BY DEF Stream, StreamInv, HoldsSender, GeneratorFollows
<1>4. GeneratorFollows(q)
  BY DEF Stream, StreamInv, GeneratorFollows, HoldsSender
<1>5. TurnFollows(q)
  BY StreamAssumption DEF Stream, StreamInv, TurnFollows
<1>6. ViewStep(r, q)
  <2>1. r.gen = "live" /\ r.rx = "dropped" /\ ~r.eof
    BY DEF StreamInv, GeneratorFollows, HoldsSender
  <2>2. View(q) = [View(r) EXCEPT !.source = "closed"]
    BY DEF Stream, View, Reader
  <2> QED
    BY <2>1, <2>2 DEF ViewStep, Reader
<1> QED
  BY <1>1, <1>2, <1>3, <1>4, <1>5, <1>6 DEF StreamInv

\* The error of the generator is captured.
LEMMA CapturesError ==
  ASSUME NEW r \in Stream, StreamInv(r), NEW q,
         r.ph = "capture",
         q = [r EXCEPT !.captured = TRUE, !.ph = "close"]
  PROVE  q \in Stream /\ StreamInv(q) /\ ViewStep(r, q)
<1>1. q \in Stream
  BY Zenon DEF Stream, Phases, Places
<1>2. InOrder(q)
  BY DEF Stream, StreamInv, InOrder, InHand, GeneratorFollows
<1>3. HoldsSender(q)
  BY DEF Stream, StreamInv, HoldsSender, GeneratorFollows
<1>4. GeneratorFollows(q)
  BY DEF Stream, StreamInv, GeneratorFollows, HoldsSender
<1>5. TurnFollows(q)
  BY StreamAssumption DEF Stream, StreamInv, TurnFollows
<1>6. ViewStep(r, q)
  <2>1. r.gen = "raised"
    BY DEF StreamInv, GeneratorFollows
  <2>2. q.n = r.n /\ q.got = r.got /\ q.gen = r.gen /\ q.captured = TRUE
    BY DEF Stream
  <2>3. Reader(q) = Reader(r)
    BY DEF Stream, Reader
  <2>4. View(q) = [View(r) EXCEPT !.logged = q.captured]
    <3>1. View(q) = [n |-> r.n, got |-> r.got, source |-> r.gen, logged |-> q.captured,
                     reader |-> Reader(r)]
      BY <2>2, <2>3, Zenon DEF View
    <3>2. [View(r) EXCEPT !.logged = q.captured] =
            [n |-> r.n, got |-> r.got, source |-> r.gen, logged |-> q.captured,
             reader |-> Reader(r)]
      BY ViewFields, Zenon
    <3> QED
      BY <3>1, <3>2, Zenon
  <2>5. View(q) = [View(r) EXCEPT !.logged = TRUE]
    BY <2>2, <2>4, Zenon
  <2> QED
    BY <2>1, <2>5, Zenon DEF ViewStep
<1> QED
  BY <1>1, <1>2, <1>3, <1>4, <1>5, <1>6 DEF StreamInv

\* The driver is dropped, and its sender with it.
LEMMA DropsSender ==
  ASSUME NEW r \in Stream, StreamInv(r), NEW q,
         r.ph = "close",
         q = [r EXCEPT !.senders = @ \ {"driver"}, !.ph = "done",
                       !.eager = FALSE]
  PROVE  q \in Stream /\ StreamInv(q) /\ ViewStep(r, q)
<1>1. q \in Stream
  <2>1. \A S \in SUBSET {"create", "driver", "waiter"}, p \in Phases, f \in BOOLEAN :
          [r EXCEPT !.senders = S, !.ph = p, !.eager = f] \in Stream
    BY ZenonT(40) DEF Stream
  <2>2. r.senders \ {"driver"} \in SUBSET {"create", "driver", "waiter"} /\ "done" \in Phases
    BY DEF Stream, Phases
  <2> QED
    BY <2>1, <2>2, Zenon
<1>2. InOrder(q)
  BY DEF Stream, StreamInv, InOrder, InHand, GeneratorFollows
<1>3. HoldsSender(q)
  BY DEF Stream, StreamInv, HoldsSender, GeneratorFollows
<1>4. GeneratorFollows(q)
  BY DEF Stream, StreamInv, GeneratorFollows, HoldsSender
<1>5. TurnFollows(q)
  BY StreamAssumption DEF Stream, StreamInv, TurnFollows
<1>6. ViewStep(r, q)
  <2>1. View(q) = View(r)
    BY DEF Stream, View, Reader
  <2> QED
    BY <2>1 DEF ViewStep
<1> QED
  BY <1>1, <1>2, <1>3, <1>4, <1>5, <1>6 DEF StreamInv

\* poll_next finds the channel closed and empty: the body ends.
LEMMA BodyEnds ==
  ASSUME NEW r \in Stream, StreamInv(r), NEW q,
         r.rx = "polled",
         ~r.eof,
         r.chan = <<>>,
         r.senders = {},
         q = [r EXCEPT !.eof = TRUE]
  PROVE  q \in Stream /\ StreamInv(q) /\ ViewStep(r, q)
<1>1. q \in Stream
  BY Zenon DEF Stream, Phases, Places
<1>2. InOrder(q)
  BY DEF Stream, StreamInv, InOrder, InHand, GeneratorFollows
<1>3. HoldsSender(q)
  BY DEF Stream, StreamInv, HoldsSender, GeneratorFollows
<1>4. GeneratorFollows(q)
  BY DEF Stream, StreamInv, GeneratorFollows, HoldsSender
<1>5. TurnFollows(q)
  BY StreamAssumption DEF Stream, StreamInv, TurnFollows
<1>6. ViewStep(r, q)
  <2>1. r.gen \in {"ended", "raised"} /\ (r.gen = "raised" => r.captured)
    BY DEF Stream, StreamInv, GeneratorFollows, HoldsSender
  <2>2. Len(r.got) = r.n
    BY DEF Stream, StreamInv, InOrder, InHand, HoldsSender, GeneratorFollows
  <2>3. View(q) = [View(r) EXCEPT !.reader = "eof"]
    BY DEF Stream, View, Reader
  <2>4. Reader(r) = "open"
    BY DEF Reader
  <2> QED
    BY <2>1, <2>2, <2>3, <2>4 DEF ViewStep
<1> QED
  BY <1>1, <1>2, <1>3, <1>4, <1>5, <1>6 DEF StreamInv

\* The client disconnects: receiver and queued chunks are dropped.
LEMMA ClientLeaves ==
  ASSUME NEW r \in Stream, StreamInv(r), NEW q,
         r.rx = "polled",
         ~r.eof,
         q = [r EXCEPT !.rx = "dropped", !.chan = <<>>]
  PROVE  q \in Stream /\ StreamInv(q) /\ ViewStep(r, q)
<1>1. q \in Stream
  <2>1. \A c \in Seq(Nat) : [r EXCEPT !.rx = "dropped", !.chan = c] \in Stream
    BY Zenon DEF Stream
  <2>2. << >> \in Seq(Nat)
    OBVIOUS
  <2> QED
    BY <2>1, <2>2, Zenon
<1>2. InOrder(q)
  BY DEF Stream, StreamInv, InOrder, InHand, GeneratorFollows
<1>3. HoldsSender(q)
  BY DEF Stream, StreamInv, HoldsSender, GeneratorFollows
<1>4. GeneratorFollows(q)
  BY DEF Stream, StreamInv, GeneratorFollows, HoldsSender
<1>5. TurnFollows(q)
  BY StreamAssumption DEF Stream, StreamInv, TurnFollows
<1>6. ViewStep(r, q)
  <2>1. Reader(r) = "open"
    BY DEF Reader
  <2>2. q.n = r.n /\ q.got = r.got /\ q.gen = r.gen /\ q.captured = r.captured
    BY DEF Stream
  <2>3. Reader(q) = "gone"
    BY DEF Stream, Reader
  <2>4. View(q) = [View(r) EXCEPT !.reader = "gone"]
    BY <2>2, <2>3 DEF View
  <2> QED
    BY <2>1, <2>4 DEF ViewStep
<1> QED
  BY <1>1, <1>2, <1>3, <1>4, <1>5, <1>6 DEF StreamInv

\* poll_next reads a batch.
LEMMA PollReads ==
  ASSUME NEW r \in Stream, StreamInv(r), NEW q, NEW k \in 1..Len(r.chan),
         r.rx = "polled",
         q = [r EXCEPT !.got = @ \o SubSeq(r.chan, 1, k),
                       !.chan = SubSeq(@, k + 1, Len(@))]
  PROVE  q \in Stream /\ StreamInv(q) /\ ViewStep(r, q)
<1>1. q \in Stream
  <2>1. \A g, c \in Seq(Nat) : [r EXCEPT !.got = g, !.chan = c] \in Stream
    BY Zenon DEF Stream
  <2>2. r.got \in Seq(Nat) /\ r.chan \in Seq(Nat) /\ Len(r.chan) \in Nat
    BY DEF Stream
  <2>3. SubSeq(r.chan, 1, k) \in Seq(Nat) /\ SubSeq(r.chan, k + 1, Len(r.chan)) \in Seq(Nat)
    BY <2>2, SMTT(30)
  <2>4. r.got \o SubSeq(r.chan, 1, k) \in Seq(Nat)
    BY <2>2, <2>3
  <2> QED
    BY <2>1, <2>3, <2>4, Zenon
<1>2. InOrder(q)
  <2>1. /\ q.n = r.n /\ q.rx = r.rx /\ q.ph = r.ph /\ q.fut = r.fut
        /\ q.got = r.got \o SubSeq(r.chan, 1, k)
        /\ q.chan = SubSeq(r.chan, k + 1, Len(r.chan))
    BY Zenon DEF Stream
  <2> QED
    BY <2>1, ReadKeepsOrder, Zenon DEF StreamInv
<1>3. HoldsSender(q)
  BY DEF Stream, StreamInv, HoldsSender, GeneratorFollows
<1>4. GeneratorFollows(q)
  BY DEF Stream, StreamInv, GeneratorFollows, HoldsSender
<1>5. TurnFollows(q)
  BY StreamAssumption DEF Stream, StreamInv, TurnFollows
<1>6. ViewStep(r, q)
  <2>1. /\ q.n = r.n /\ q.rx = r.rx /\ q.ph = r.ph /\ q.fut = r.fut
        /\ q.gen = r.gen /\ q.captured = r.captured /\ q.eof = r.eof
        /\ q.got = r.got \o SubSeq(r.chan, 1, k)
        /\ q.chan = SubSeq(r.chan, k + 1, Len(r.chan))
    BY Zenon DEF Stream
  <2>2. Len(q.got) = Len(r.got) + k
    BY <2>1, ReadKeepsOrder DEF StreamInv
  <2>3. r.chan # << >> /\ Reader(r) = "open"
    BY DEF StreamInv, HoldsSender, Reader, Stream
  <2>4. q.got \in Seq(Nat) /\ q.chan \in Seq(Nat) /\ q.n \in Nat /\ r.got \in Seq(Nat)
    BY <1>1, Zenon DEF Stream
  <2>5. Len(q.got) <= q.n
    <3>1. \A x, y, z \in Nat : x + y = z - 1 \/ x + y = z => x <= z
      OBVIOUS
    <3>2. Len(q.got) \in Nat /\ Len(q.chan) \in Nat
      BY <2>4
    <3>3. Len(q.got) + Len(q.chan) = q.n - 1 \/ Len(q.got) + Len(q.chan) = q.n
      BY <1>2, <2>1 DEF InOrder
    <3> QED
      BY <2>4, <3>1, <3>2, <3>3, Zenon
  <2>6. q.got = [i \in 1..Len(q.got) |-> i]
    BY <1>2, <2>4, CountingSequence, Zenon DEF InOrder
  <2>7. Len(q.got) \in (Len(r.got) + 1)..r.n
    BY <2>1, <2>2, <2>4, <2>5
  <2>8. Reader(q) = Reader(r)
    BY <2>1 DEF Reader
  <2>9. View(q) = [View(r) EXCEPT !.got = q.got]
    <3>1. View(q) = [n |-> r.n, got |-> q.got, source |-> r.gen, logged |-> r.captured,
                     reader |-> Reader(r)]
      BY <2>1, <2>8, Zenon DEF View
    <3>2. [View(r) EXCEPT !.got = q.got] =
            [n |-> r.n, got |-> q.got, source |-> r.gen, logged |-> r.captured,
             reader |-> Reader(r)]
      BY ViewFields, Zenon
    <3> QED
      BY <3>1, <3>2, Zenon
  <2> QED
    BY <2>3, <2>6, <2>7, <2>9, Zenon DEF ViewStep
<1> QED
  BY <1>1, <1>2, <1>3, <1>4, <1>5, <1>6 DEF StreamInv

(* s's record is the only one that changes, and it changes to q.           *)
Becomes(s, q) == st' = [st EXCEPT ![s] = q] /\ st'[s] = q

\* Every action of the streaming code changes one record, keeps its invariant,
\* and is a step the abstract body allows, or leaves the view alone.
LEMMA StreamStep ==
  ASSUME BodyInv, NEW s \in Streams,
         Request(s) \/ GenStep(s) \/ AwaitDone(s) \/ Driver(s) \/ Waiter(s) \/ Consumer(s)
  PROVE  \E q \in Stream : Becomes(s, q) /\ StreamInv(q) /\ ViewStep(st[s], q)
<1> DEFINE r == st[s]
<1>0. r \in Stream /\ StreamInv(r) /\ st \in [Streams -> Stream]
  BY DEF BodyInv
<1>1. CASE Leftover(s)
  <2> DEFINE q == [r EXCEPT !.where = "thread", !.senders = @ \cup {"driver"}]
  <2>1. r.where = "drain" /\ r.ph = "step"
    BY <1>1 DEF Leftover
  <2>2. Becomes(s, q)
    BY <1>1, <1>0, Zenon DEF Leftover, Becomes
  <2>3. q \in Stream /\ StreamInv(q) /\ ViewStep(r, q)
    BY <1>0, <2>1, LeftoverMoves, Zenon
  <2> QED
    BY <2>2, <2>3, Zenon
<1>2. CASE Build(s)
  <2> DEFINE q == [r EXCEPT !.req = "returned", !.rx = "polled", !.senders = @ \ {"create"}]
  <2>1. r.req = "create" /\ (r.where \in {"drain", "tramp"} => r.ph = "done")
    BY <1>2 DEF Build
  <2>2. Becomes(s, q)
    BY <1>2, <1>0, Zenon DEF Build, Becomes
  <2>3. q \in Stream /\ StreamInv(q) /\ ViewStep(r, q)
    BY <1>0, <2>1, BuildReturns, Zenon
  <2> QED
    BY <2>2, <2>3, Zenon
<1>3. CASE Yields(s)
  <2> DEFINE q == [r EXCEPT !.n = @ + 1, !.ph = "push"]
  <2>1. r.ph = "step"
    BY <1>3 DEF Yields, MayStep
  <2>2. Becomes(s, q)
    BY <1>3, <1>0, Zenon DEF Yields, MayStep, Becomes
  <2>3. q \in Stream /\ StreamInv(q) /\ ViewStep(r, q)
    BY <1>0, <2>1, YieldsChunk, Zenon
  <2> QED
    BY <2>2, <2>3, Zenon
<1>4. CASE Ends(s)
  <2> DEFINE q == [r EXCEPT !.gen = "ended", !.ph = "close"]
  <2>1. r.ph = "step"
    BY <1>4 DEF Ends, MayStep
  <2>2. Becomes(s, q)
    BY <1>4, <1>0, Zenon DEF Ends, MayStep, Becomes
  <2>3. q \in Stream /\ StreamInv(q) /\ ViewStep(r, q)
    BY <1>0, <2>1, EndsGenerator, Zenon
  <2> QED
    BY <2>2, <2>3, Zenon
<1>5. CASE Raises(s)
  <2> DEFINE q == [r EXCEPT !.gen = "raised", !.ph = "capture"]
  <2>1. r.ph = "step"
    BY <1>5 DEF Raises, MayStep
  <2>2. Becomes(s, q)
    BY <1>5, <1>0, Zenon DEF Raises, MayStep, Becomes
  <2>3. q \in Stream /\ StreamInv(q) /\ ViewStep(r, q)
    BY <1>0, <2>1, RaisesError, Zenon
  <2> QED
    BY <2>2, <2>3, Zenon
<1>6. CASE Awaits(s)
  <2> DEFINE q == [r EXCEPT !.ph = "await", !.eager = FALSE]
  <2>1. r.ph = "step"
    BY <1>6 DEF Awaits, MayStep
  <2>2. Becomes(s, q)
    BY <1>6, <1>0, Zenon DEF Awaits, MayStep, Becomes
  <2>3. q \in Stream /\ StreamInv(q) /\ ViewStep(r, q)
    BY <1>0, <2>1, AwaitsSuspends, Zenon
  <2> QED
    BY <2>2, <2>3, Zenon
<1>7. CASE AwaitDone(s)
  <2> DEFINE q == [r EXCEPT !.ph = "step", !.turn = 0]
  <2>1. r.ph = "await" \/ r.ph = "yield"
    BY <1>7 DEF AwaitDone
  <2>2. Becomes(s, q)
    BY <1>7, <1>0, Zenon DEF AwaitDone, Becomes
  <2>3. q \in Stream /\ StreamInv(q) /\ ViewStep(r, q)
    BY <1>0, <2>1, DriverResumes, Zenon
  <2> QED
    BY <2>2, <2>3, Zenon
<1>8. CASE StartJob(s)
  <2> DEFINE q == [r EXCEPT !.where = "loop", !.eager = TRUE, !.turn = 0]
  <2>1. r.where = "queued"
    BY <1>8 DEF StartJob
  <2>2. Becomes(s, q)
    BY <1>8, <1>0, Zenon DEF StartJob, Becomes
  <2>3. q \in Stream /\ StreamInv(q) /\ ViewStep(r, q)
    BY <1>0, <2>1, StartJobRuns, Zenon
  <2> QED
    BY <2>2, <2>3, Zenon
<1>9. CASE PushClosed(s)
  <2> DEFINE q == [r EXCEPT !.ph = "closing"]
  <2>1. r.ph = "push" /\ r.rx = "dropped"
    BY <1>9 DEF PushClosed
  <2>2. Becomes(s, q)
    BY <1>9, <1>0, Zenon DEF PushClosed, Becomes
  <2>3. q \in Stream /\ StreamInv(q) /\ ViewStep(r, q)
    BY <1>0, <2>1, PushFindsClosed, Zenon
  <2> QED
    BY <2>2, <2>3, Zenon
<1>10. CASE PushFull(s)
  <2> DEFINE q == [r EXCEPT !.ph = "full", !.fut = "pending",
                           !.senders = @ \cup {"waiter"}, !.eager = FALSE]
  <2>1. r.ph = "push" /\ r.rx # "dropped"
    BY <1>10 DEF PushFull
  <2>2. Becomes(s, q)
    BY <1>10, <1>0, Zenon DEF PushFull, Becomes
  <2>3. q \in Stream /\ StreamInv(q) /\ ViewStep(r, q)
    BY <1>0, <2>1, PushParks, Zenon
  <2> QED
    BY <2>2, <2>3, Zenon
<1>11. CASE ResumeYield(s)
  <2> DEFINE q == [r EXCEPT !.ph = "step", !.turn = 0]
  <2>1. r.ph = "await" \/ r.ph = "yield"
    BY <1>11 DEF ResumeYield
  <2>2. Becomes(s, q)
    BY <1>11, <1>0, Zenon DEF ResumeYield, Becomes
  <2>3. q \in Stream /\ StreamInv(q) /\ ViewStep(r, q)
    BY <1>0, <2>1, DriverResumes, Zenon
  <2> QED
    BY <2>2, <2>3, Zenon
<1>12. CASE CloseGenerator(s)
  <2> DEFINE q == [r EXCEPT !.gen = "closed", !.ph = "close"]
  <2>1. r.ph = "closing"
    BY <1>12 DEF CloseGenerator
  <2>2. Becomes(s, q)
    BY <1>12, <1>0, Zenon DEF CloseGenerator, Becomes
  <2>3. q \in Stream /\ StreamInv(q) /\ ViewStep(r, q)
    BY <1>0, <2>1, ClosesGenerator, Zenon
  <2> QED
    BY <2>2, <2>3, Zenon
<1>13. CASE Capture(s)
  <2> DEFINE q == [r EXCEPT !.captured = TRUE, !.ph = "close"]
  <2>1. r.ph = "capture"
    BY <1>13 DEF Capture
  <2>2. Becomes(s, q)
    BY <1>13, <1>0, Zenon DEF Capture, Becomes
  <2>3. q \in Stream /\ StreamInv(q) /\ ViewStep(r, q)
    BY <1>0, <2>1, CapturesError, Zenon
  <2> QED
    BY <2>2, <2>3, Zenon
<1>14. CASE DropSender(s)
  <2> DEFINE q == [r EXCEPT !.senders = @ \ {"driver"}, !.ph = "done", !.eager = FALSE]
  <2>1. r.ph = "close"
    BY <1>14 DEF DropSender
  <2>2. Becomes(s, q)
    BY <1>14, <1>0, Zenon DEF DropSender, Becomes
  <2>3. q \in Stream /\ StreamInv(q) /\ ViewStep(r, q)
    BY <1>0, <2>1, DropsSender, Zenon
  <2> QED
    BY <2>2, <2>3, Zenon
<1>15. CASE PollEof(s)
  <2> DEFINE q == [r EXCEPT !.eof = TRUE]
  <2>1. r.rx = "polled" /\ ~r.eof /\ r.chan = <<>> /\ r.senders = {}
    BY <1>15 DEF PollEof
  <2>2. Becomes(s, q)
    BY <1>15, <1>0, Zenon DEF PollEof, Becomes
  <2>3. q \in Stream /\ StreamInv(q) /\ ViewStep(r, q)
    BY <1>0, <2>1, BodyEnds, Zenon
  <2> QED
    BY <2>2, <2>3, Zenon
<1>16. CASE Disconnect(s)
  <2> DEFINE q == [r EXCEPT !.rx = "dropped", !.chan = <<>>]
  <2>1. r.rx = "polled" /\ ~r.eof
    BY <1>16 DEF Disconnect
  <2>2. Becomes(s, q)
    BY <1>16, <1>0, Zenon DEF Disconnect, Becomes
  <2>3. q \in Stream /\ StreamInv(q) /\ ViewStep(r, q)
    BY <1>0, <2>1, ClientLeaves, Zenon
  <2> QED
    BY <2>2, <2>3, Zenon
<1>17. CASE Create(s)
  <2>1. CASE st' = [st EXCEPT ![s].req = "create", ![s].where = "drain", ![s].ph = "step"]
    <3> DEFINE q == [r EXCEPT !.req = "create", !.where = "drain", !.ph = "step"]
    <3>1. r.req = "idle"
      BY <1>17, Zenon DEF Create
    <3>2. Becomes(s, q)
      BY <2>1, <1>0, Zenon DEF Becomes
    <3>3. q \in Stream /\ StreamInv(q) /\ ViewStep(r, q)
      BY <1>0, <3>1, CreateDrains, Zenon
    <3> QED
      BY <3>2, <3>3, Zenon
  <2>2. ASSUME NEW w \in {"tramp", "queued", "thread"},
               st' = [st EXCEPT ![s].req = "create", ![s].where = w, ![s].ph = "step",
                                ![s].senders = @ \cup {"driver"}]
        PROVE  \E q \in Stream : Becomes(s, q) /\ StreamInv(q) /\ ViewStep(r, q)
    <3> DEFINE q == [r EXCEPT !.req = "create", !.where = w, !.ph = "step",
                           !.senders = @ \cup {"driver"}]
    <3>1. r.req = "idle"
      BY <1>17, Zenon DEF Create
    <3>2. Becomes(s, q)
      BY <2>2, <1>0, Zenon DEF Becomes
    <3>3. q \in Stream /\ StreamInv(q) /\ ViewStep(r, q)
      BY <1>0, <3>1, CreateSchedules, Zenon
    <3> QED
      BY <3>2, <3>3, Zenon
  <2> QED
    BY <1>17, <2>1, <2>2, Zenon DEF Create, Scheduled
<1>18. CASE PushSent(s)
  <2>1. r.ph = "push" /\ r.rx # "dropped"
    BY <1>18 DEF PushSent
  <2>2. CASE FairnessYield(s)
    <3> DEFINE q == [r EXCEPT !.chan = Append(@, r.n), !.turn = @ + 1,
                              !.ph = "yield", !.eager = FALSE]
    <3>1. r.where = "loop"
      BY <2>2 DEF FairnessYield
    <3>2. Becomes(s, q)
      BY <1>18, <1>0, <2>2, Zenon DEF PushSent, Becomes
    <3>3. q \in Stream /\ StreamInv(q) /\ ViewStep(r, q)
      BY <1>0, <2>1, <3>1, PushGivesWay, Zenon
    <3> QED
      BY <3>2, <3>3, Zenon
  <2>3. CASE ~FairnessYield(s)
    <3> DEFINE q == [r EXCEPT !.chan = Append(@, r.n), !.turn = @ + 1,
                              !.ph = "step", !.eager = @ /\ ~FairnessYield(s)]
    <3>1. r.where = "loop" => r.n % FairBurst # 0
      BY <2>3 DEF FairnessYield
    <3>2. Becomes(s, q)
      BY <1>18, <1>0, <2>3, Zenon DEF PushSent, Becomes
    <3>3. (r.eager /\ ~FairnessYield(s)) \in BOOLEAN
      OBVIOUS
    <3>4. q \in Stream /\ StreamInv(q) /\ ViewStep(r, q)
      BY <1>0, <2>1, <3>1, <3>3, PushSteps, Zenon
    <3> QED
      BY <3>2, <3>4, Zenon
  <2> QED
    BY <2>2, <2>3, Zenon
<1>19. CASE ResumeFull(s)
  <2>1. r.ph = "full" /\ (r.fut = "true" \/ r.fut = "false")
    BY <1>19 DEF ResumeFull
  <2>2. CASE r.fut = "true" /\ FairnessYield(s)
    <3> DEFINE q == [r EXCEPT !.ph = "yield", !.fut = "none"]
    <3>1. r.ph = "full" /\ r.fut = "true"
      BY <2>1, <2>2 DEF ResumeFull
    <3>2. Becomes(s, q)
      BY <1>19, <2>2, <1>0, Zenon DEF ResumeFull, Becomes
    <3>3. q \in Stream /\ StreamInv(q) /\ ViewStep(r, q)
      BY <1>0, <3>1, FullYields, Zenon
    <3> QED
      BY <3>2, <3>3, Zenon
  <2>3. CASE ~(r.fut = "true" /\ FairnessYield(s))
    <3> DEFINE q == [r EXCEPT !.ph = IF r.fut = "true" THEN "step" ELSE "closing",
                              !.fut = "none", !.turn = 0]
    <3>1. r.ph = "full" /\ (r.fut = "true" \/ r.fut = "false")
      BY <2>1 DEF ResumeFull
    <3>2. Becomes(s, q)
      BY <1>19, <2>3, <1>0, Zenon DEF ResumeFull, Becomes
    <3>3. q \in Stream /\ StreamInv(q) /\ ViewStep(r, q)
      BY <1>0, <3>1, FullResumes, Zenon
    <3> QED
      BY <3>2, <3>3, Zenon
  <2> QED
    BY <2>2, <2>3, Zenon
<1>20. CASE Waiter(s)
  <2>1. CASE r.rx # "dropped"
    <3> DEFINE q == [r EXCEPT !.chan = Append(@, r.n), !.fut = "true",
                              !.senders = @ \ {"waiter"}]
    <3>1. r.fut = "pending" /\ r.rx # "dropped"
      BY <1>20, <2>1 DEF Waiter
    <3>2. Becomes(s, q)
      BY <1>20, <2>1, <1>0, Zenon DEF Waiter, Becomes
    <3>3. q \in Stream /\ StreamInv(q) /\ ViewStep(r, q)
      BY <1>0, <3>1, WaiterSends, Zenon
    <3> QED
      BY <3>2, <3>3, Zenon
  <2>2. CASE r.rx = "dropped"
    <3> DEFINE q == [r EXCEPT !.fut = "false", !.senders = @ \ {"waiter"}]
    <3>1. r.fut = "pending" /\ r.rx = "dropped"
      BY <1>20, <2>2 DEF Waiter
    <3>2. Becomes(s, q)
      BY <1>20, <2>2, <1>0, Zenon DEF Waiter, Becomes
    <3>3. q \in Stream /\ StreamInv(q) /\ ViewStep(r, q)
      BY <1>0, <3>1, WaiterGivesUp, Zenon
    <3> QED
      BY <3>2, <3>3, Zenon
  <2> QED
    BY <2>1, <2>2, Zenon
<1>21. CASE Poll(s)
  <2>1. PICK k \in 1..Len(r.chan) :
           st' = [st EXCEPT ![s].got = @ \o SubSeq(r.chan, 1, k),
                            ![s].chan = SubSeq(@, k + 1, Len(@))]
    BY <1>21, Zenon DEF Poll
  <2> DEFINE q == [r EXCEPT !.got = @ \o SubSeq(r.chan, 1, k),
                          !.chan = SubSeq(@, k + 1, Len(@))]
  <2>2. r.rx = "polled"
    BY <1>21 DEF Poll
  <2>3. Becomes(s, q)
    BY <2>1, <1>0, Zenon DEF Becomes
  <2>4. q \in Stream /\ StreamInv(q) /\ ViewStep(r, q)
    BY <1>0, <2>2, PollReads, Zenon
  <2> QED
    BY <2>3, <2>4, Zenon
<1> QED
  BY <1>1, <1>2, <1>3, <1>4, <1>5, <1>6, <1>7, <1>8, <1>9, <1>10, <1>11,
     <1>12, <1>13, <1>14, <1>15, <1>16, <1>17, <1>18, <1>19, <1>20, <1>21, Zenon
  DEF Request, GenStep, Driver, Consumer

-----------------------------------------------------------------------------
(* The invariant                                                           *)

\* No request has been made yet.
LEMMA BodyInit == Init => BodyInv
<1> SUFFICES ASSUME Init PROVE BodyInv
  OBVIOUS
<1>1. PICK kind \in Kinds : st = [s \in Streams |-> Idle(kind[s])]
  BY DEF Init
<1>2. \A s \in Streams : kind[s] \in {"plain", "await"}
  BY <1>1, StreamAssumption, Zenon
<1>3. ASSUME NEW k \in {"plain", "await"} PROVE Idle(k) \in Stream /\ StreamInv(Idle(k))
  <2>1. Idle(k) \in Stream
    BY DEF Idle, Stream, Places, Phases
  <2>2. InOrder(Idle(k))
    BY DEF Idle, InOrder, InHand
  <2>3. HoldsSender(Idle(k)) /\ GeneratorFollows(Idle(k)) /\ TurnFollows(Idle(k))
    BY DEF Idle, HoldsSender, GeneratorFollows, TurnFollows
  <2> QED
    BY <2>1, <2>2, <2>3 DEF StreamInv
<1> QED
  BY <1>1, <1>2, <1>3, Zenon DEF BodyInv

\* One step per action, in StreamStep; the other streams are left alone.
LEMMA BodyStep == BodyInv /\ [Next]_vars => BodyInv'
<1> SUFFICES ASSUME BodyInv, [Next]_vars PROVE BodyInv'
  OBVIOUS
<1>1. ASSUME NEW s \in Streams, NEW q \in Stream, Becomes(s, q), StreamInv(q) PROVE BodyInv'
  <2>1. st' \in [Streams -> Stream]
    BY <1>1 DEF BodyInv, Becomes
  <2>2. ASSUME NEW t \in Streams PROVE StreamInv(st'[t])
    <3>1. t # s => st'[t] = st[t]
      BY <1>1 DEF Becomes, BodyInv
    <3> QED
      BY <1>1, <3>1, Zenon DEF Becomes, BodyInv
  <2> QED
    BY <2>1, <2>2 DEF BodyInv
<1>2. CASE Next
  BY <1>1, <1>2, StreamStep, Zenon DEF Next
<1>3. CASE UNCHANGED vars
  BY <1>3, Zenon DEF vars, BodyInv
<1> QED
  BY <1>2, <1>3

\* The invariant holds in every reachable state.
LEMMA BodyInductive == Spec => []BodyInv
  BY BodyInit, BodyStep, PTL DEF Spec

\* "sleep(0) every 64 chunks caps that burst" (responses.py:154): however many
\* chunks are ready, a driver on the worker loop pushes at most FairBurst of
\* them before the other tasks of the loop get a turn.
THEOREM LoopIsShared == Spec => []LoopBurstBounded
<1>1. BodyInv => LoopBurstBounded
  BY DEF BodyInv, StreamInv, TurnFollows, LoopBurstBounded
<1> QED
  BY BodyInductive, <1>1, PTL

-----------------------------------------------------------------------------
(* The refinement                                                          *)

\* Refinement, initial states.
LEMMA PromiseInit == Init => Promise!Init
<1> SUFFICES ASSUME Init PROVE Promise!Init
  OBVIOUS
<1>1. PICK kind \in Kinds : st = [s \in Streams |-> Idle(kind[s])]
  BY DEF Init
<1>2. \A k : View(Idle(k)) = [n |-> 0, got |-> <<>>, source |-> "live", logged |-> FALSE,
                              reader |-> "open"]
  BY DEF View, Idle, Reader
<1>3. \A s \in Streams : View(st[s]) =
         [n |-> 0, got |-> <<>>, source |-> "live", logged |-> FALSE, reader |-> "open"]
  BY <1>1, <1>2, Zenon
<1> QED
  BY <1>3, Zenon DEF Promise!Init, Body

\* Refinement, steps: each is a step of OrderedBody or leaves the view alone.
LEMMA PromiseStep == BodyInv /\ [Next]_vars => [Promise!Next]_Body
<1> SUFFICES ASSUME BodyInv, [Next]_vars PROVE [Promise!Next]_Body
  OBVIOUS
<1>1. ASSUME NEW s \in Streams, NEW q \in Stream, Becomes(s, q), ViewStep(st[s], q)
      PROVE  [Promise!Next]_Body
  <2>1. Body[s] = View(st[s]) /\ Body' = [Body EXCEPT ![s] = View(q)]
    <3>1. st \in [Streams -> Stream]
      BY DEF BodyInv
    <3>2. st'[s] = q /\ \A t \in Streams : t # s => st'[t] = st[t]
      BY <1>1, <3>1 DEF Becomes
    <3>3. Body' = [t \in Streams |-> View(st'[t])]
      BY DEF Body
    <3>4. Body = [t \in Streams |-> View(st[t])]
      BY DEF Body
    <3> QED
      BY <3>2, <3>3, <3>4
  <2> DEFINE v == View(st[s])
  <2>2. /\ v.n = st[s].n /\ v.got = st[s].got /\ v.source = st[s].gen
        /\ v.logged = st[s].captured /\ v.reader = Reader(st[s])
    BY DEF View
  <2> HIDE DEF v
  <2>3. Body[s] = v /\ Body' = [Body EXCEPT ![s] = View(q)]
    BY <2>1 DEF v
  <2>4. CASE View(q) = v
    <3>1. Body' = Body
      BY <2>3, <2>4, Zenon DEF Body
    <3> QED
      BY <3>1
  <2>5. CASE st[s].gen = "live" /\ View(q) = [v EXCEPT !.n = @ + 1]
    <3>1. Promise!Yield(s)
      BY <2>2, <2>3, <2>5, Zenon DEF Promise!Yield
    <3> QED
      BY <3>1 DEF Promise!Next
  <2>6. ASSUME st[s].gen = "live", NEW how \in {"ended", "raised", "closed"},
               how = "closed" => Reader(st[s]) = "gone",
               View(q) = [v EXCEPT !.source = how]
        PROVE  Promise!Next
    <3>1. Promise!Finish(s)
      BY <2>2, <2>3, <2>6, Zenon DEF Promise!Finish
    <3> QED
      BY <3>1 DEF Promise!Next
  <2>7. CASE st[s].gen = "raised" /\ View(q) = [v EXCEPT !.logged = TRUE]
    <3>1. Promise!Log(s)
      BY <2>2, <2>3, <2>7 DEF Promise!Log
    <3> QED
      BY <3>1 DEF Promise!Next
  <2>8. ASSUME Reader(st[s]) = "open", NEW m \in (Len(st[s].got) + 1)..st[s].n,
               View(q) = [v EXCEPT !.got = [i \in 1..m |-> i]]
        PROVE  Promise!Next
    <3>1. Promise!Read(s)
      BY <2>2, <2>3, <2>8, Zenon DEF Promise!Read
    <3> QED
      BY <3>1 DEF Promise!Next
  <2>9. CASE /\ Reader(st[s]) = "open"
             /\ st[s].gen \in {"ended", "raised"} /\ (st[s].gen = "raised" => st[s].captured)
             /\ Len(st[s].got) = st[s].n
             /\ View(q) = [v EXCEPT !.reader = "eof"]
    <3>1. Promise!Eof(s)
      BY <2>2, <2>3, <2>9 DEF Promise!Eof
    <3> QED
      BY <3>1 DEF Promise!Next
  <2>10. CASE Reader(st[s]) = "open" /\ View(q) = [v EXCEPT !.reader = "gone"]
    <3>1. Promise!Leave(s)
      BY <2>2, <2>3, <2>10 DEF Promise!Leave
    <3> QED
      BY <3>1 DEF Promise!Next
  <2> QED
    BY <1>1, <2>4, <2>5, <2>6, <2>7, <2>8, <2>9, <2>10, Zenon DEF ViewStep, v
<1>2. CASE Next
  BY <1>1, <1>2, StreamStep, Zenon DEF Next
<1>3. CASE UNCHANGED vars
  BY <1>3, Zenon DEF vars, Body
<1> QED
  BY <1>2, <1>3

\* Whichever driver runs the generator (inline drain, trampoline, thread or
\* loop) and however it is handed over, the body is what OrderedBody promises:
\* chunks arrive in the order they were yielded and none is lost, the body
\* ends only after the last one and only when the generator ended or its error
\* was captured, and a generator is closed early only when the reader has
\* gone.
THEOREM DriversKeepPromise == Spec => KeepsPromise
  BY BodyInductive, PromiseInit, PromiseStep, PTL DEF Spec, KeepsPromise, Promise!Spec
=============================================================================
