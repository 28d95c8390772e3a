--------------------------- MODULE PipelineProofs ---------------------------
(***************************************************************************)
(* Proofs about Pipeline, for middleware chains of any length: exit stacks *)
(* close in order, the request scope stays open for the middleware around  *)
(* the handler, and only a suspension or a mute shim repeats a handler.    *)
(*                                                                         *)
(* The invariant says for every pass of a handler where it stands: the     *)
(* step of the request works on it, it waits in the queue of the drain, or *)
(* it is over; and which exits it has run in each case.                    *)
(***************************************************************************)
EXTENDS Pipeline, Integers, TLAPS

\* The values of the state.
Middleware == [shape : {"fn", "inst", "shim"}, does : Deeds]

\* Steps inside the handler, in its finalizer, and in the chain around it.
InHandler  == {"endpoint", "throwFn", "throwInner", "throwFile", "fnExit", "settle"}
Finalizing == {"bg", "inner", "file"}
InChain    == {"in", "out", "chain", "wrap", "drain", "done"}

Pass == [fn : Nat, inner : Nat, file : Nat, bg : Nat,
         how : {"running", "ok", "rve", "http", "err"}, fault : BOOLEAN]

\* The types of the request state.
PipelineTypeOK ==
    /\ app.mws \in Seq(Middleware) /\ app.route \in {"delegated", "adapter"}
    /\ app.faulty \in BOOLEAN
    /\ mode \in {"fast", "slow"}
    /\ pos \in Nat
    /\ step \in InHandler \cup Finalizing \cup InChain
    /\ passes \in Seq(Pass) /\ pend \in Seq(Nat)
    /\ stamped \in BOOLEAN

(* Sequence s holds p; s holds nothing twice.                              *)
Holds(s, p) == \E i \in 1..Len(s) : s[i] = p
Distinct(s) == \A i, j \in 1..Len(s) : s[i] = s[j] => i = j

(* What a pass that is at the given step has done.                         *)
AtStep(x, at) ==
    /\ ~x.fault
    /\ x.fn = (IF at \in {"endpoint", "throwFn", "fnExit"} THEN 0 ELSE 1)
    /\ x.bg = (IF at \in {"inner", "file"} /\ x.how = "ok" THEN 1 ELSE 0)
    /\ x.inner = (IF at \in {"throwFile", "file"} THEN 1 ELSE 0)
    /\ x.file = 0
    /\ at = "endpoint" => x.how = "running"
    /\ at \in {"throwFn", "throwInner", "throwFile"} => x.how \in {"http", "err"}
    /\ at \in {"fnExit", "settle", "inner", "file"} => x.how \in {"ok", "rve"}
    /\ at = "bg" => x.how = "ok"

(* What a pass has done that has come to its end without a fault.          *)
Closed(x) ==
    /\ x.fn = 1 /\ x.inner = 1 /\ x.file = 1
    /\ x.bg = (IF x.how = "ok" THEN 1 ELSE 0)

(* The stacks of a pass close at most once and nest, whatever failed.      *)
Nests(x) ==
    /\ x.fn <= 1 /\ x.bg <= 1 /\ x.inner <= 1 /\ x.file <= 1
    /\ x.bg + x.inner > 0 => x.fn = 1
    /\ x.inner = 1 /\ x.how = "ok" => x.bg = 1
    /\ x.file = 1 => x.inner = 1
    /\ x.fault => x.how \in {"ok", "rve"}

\* An adapter handler keeps its stacks to itself.
Untouched(x) == x.fn = 0 /\ x.bg = 0 /\ x.inner = 0 /\ x.file = 0 /\ ~x.fault

(* A pass is busy (the next step works on it), waits for the drain, or is  *)
(* over; what a successful one still owes while the chain unwinds, it has  *)
(* deferred.                                                               *)
PassOK(route, x, busy, waits, owes, at) ==
    /\ Nests(x)
    /\ route = "adapter" => Untouched(x)
    /\ route = "delegated" =>
         /\ busy => AtStep(x, at)
         /\ ~busy /\ waits => AtStep(x, "bg")
         /\ ~busy /\ ~waits => /\ x.fault \/ Closed(x)
                               /\ owes /\ x.how = "ok" => x.fault

\* The next step works on pass p.
Busy(p) == step \in InHandler \cup Finalizing /\ p = Finalized
\* The chain around a stamped request is still unwinding, so that a success
\* has been deferred.
Owes    == stamped /\ (pos # 0 \/ step = "chain")

\* Every pass is where the step of the request puts it.
PassesInv ==
    \A p \in 1..Len(passes) :
        PassOK(app.route, passes[p], Busy(p), Holds(pend, p), Owes, step)

\* Deferred passes are queued once, and only while the request defers.
PendInv ==
    /\ Distinct(pend)
    /\ \A p : Holds(pend, p) => p \in 1..Len(passes)
    /\ step \in InHandler \cup Finalizing /\ pos # 0 => ~Holds(pend, cur)
    /\ step = "done" => pend = <<>>
    /\ pend # <<>> => stamped /\ app.route = "delegated"

\* The step and the position in the chain.
PipelineControl ==
    /\ step = "in" => pos \in 1..(depth + 1)
    /\ step = "out" => pos \in 1..depth
    /\ step \in InHandler \cup {"wrap"} => pos = depth + 1 /\ passes # <<>>
    /\ step \in Finalizing => IF pos = 0 THEN pend # <<>> ELSE pos = depth + 1 /\ passes # <<>>
    /\ step \in {"chain", "drain", "done"} => pos = 0
    /\ step \in Finalizing /\ pos # 0 /\ stamped => passes[cur].how = "rve"
    /\ step \in (InHandler \ {"endpoint"}) \cup Finalizing => app.route = "delegated"
    /\ stamped => depth > 0
    /\ passes # <<>> /\ mode = "fast" /\ depth > 0 => stamped

\* Some middleware suspends after its call_next.
HasYieldOut == \E i \in DOMAIN app.mws : app.mws[i].does = "yieldOut"

\* The ASGI class of some shim forwards no response.
HasMute == \E i \in DOMAIN app.mws : app.mws[i] = [shape |-> "shim", does |-> "mute"]

\* Without one, a second pass begins only after a suspension on the way out of
\* the first.
Reruns ==
  ~HasMute =>
    /\ step = "in" => Len(passes) <= 1
    /\ Len(passes) <= 2
    /\ mode = "fast" => Len(passes) <= 1
    /\ step = "in" /\ mode = "fast" => passes = <<>> /\ ret = "response"
    /\ mode = "fast" /\ ret = "susp" /\ passes # <<>> => HasYieldOut
    /\ mode = "slow" /\ Len(passes) = 1 /\ step = "in" => HasYieldOut
    /\ Len(passes) = 2 => HasYieldOut

\* The inductive invariant.
PipelineInv == PipelineTypeOK /\ PassesInv /\ PendInv /\ PipelineControl /\ Reruns

-----------------------------------------------------------------------------
(* The queue of deferred passes                                            *)

\* A pass is deferred ...
LEMMA Appended ==
    ASSUME NEW s \in Seq(Nat), NEW k \in Nat, Distinct(s), ~Holds(s, k)
    PROVE  /\ Append(s, k) \in Seq(Nat) /\ Append(s, k) # <<>>
           /\ Distinct(Append(s, k))
           /\ \A p : Holds(Append(s, k), p) <=> Holds(s, p) \/ p = k
<1> DEFINE t == Append(s, k)
<1>1. /\ t \in Seq(Nat) /\ Len(s) \in Nat /\ Len(t) = Len(s) + 1
      /\ \A i \in 1..Len(s) : t[i] = s[i]
      /\ t[Len(s) + 1] = k
  OBVIOUS
<1> HIDE DEF t
<1>2. t # <<>>
  BY <1>1
<1>3. \A i \in 1..Len(t) : i \in 1..Len(s) \/ i = Len(s) + 1
  BY <1>1
<1>4. Distinct(t)
  BY <1>1, <1>3, Zenon DEF Distinct, Holds
<1>5. ASSUME NEW p PROVE Holds(t, p) <=> Holds(s, p) \/ p = k
  <2>1. ASSUME Holds(t, p) PROVE Holds(s, p) \/ p = k
    BY <1>1, <1>3, <2>1, Zenon DEF Holds
  <2>2. \A i \in 1..Len(s) : i \in 1..Len(t)
    BY <1>1
  <2>3. Len(s) + 1 \in 1..Len(t)
    BY <1>1
  <2> QED
    BY <1>1, <2>1, <2>2, <2>3 DEF Holds
<1> QED
  BY <1>1, <1>2, <1>4, <1>5 DEF t

\* ... and taken up by the drain, first in first out.
LEMMA HeadTaken ==
    ASSUME NEW s \in Seq(Nat), s # <<>>, Distinct(s)
    PROVE  /\ Head(s) \in Nat /\ Holds(s, Head(s))
           /\ Tail(s) \in Seq(Nat) /\ Distinct(Tail(s))
           /\ \A p : Holds(Tail(s), p) <=> Holds(s, p) /\ p # Head(s)
<1> DEFINE t == Tail(s)
<1>1. /\ t \in Seq(Nat) /\ Len(s) \in Nat /\ Len(s) >= 1 /\ Len(t) = Len(s) - 1
      /\ \A i \in 1..Len(t) : t[i] = s[i + 1]
      /\ Head(s) = s[1] /\ s[1] \in Nat
  OBVIOUS
<1> HIDE DEF t
<1>2. \A i \in 1..Len(t) : i + 1 \in 1..Len(s) /\ i + 1 # 1
  BY <1>1
<1>3. \A i \in 1..Len(s) : i = 1 \/ (i - 1 \in 1..Len(t) /\ (i - 1) + 1 = i)
  BY <1>1
<1>4. Distinct(t)
  <2> SUFFICES ASSUME NEW i \in 1..Len(t), NEW j \in 1..Len(t), t[i] = t[j] PROVE i = j
    BY DEF Distinct
  <2>1. i + 1 = j + 1
    BY <1>1, <1>2, Zenon DEF Distinct
  <2> QED
    BY <2>1, <1>1
<1>5. 1 \in 1..Len(s)
  BY <1>1
<1>6. Holds(s, Head(s))
  BY <1>1, <1>5 DEF Holds
<1>7. ASSUME NEW p PROVE Holds(t, p) <=> Holds(s, p) /\ p # Head(s)
  <2>1. ASSUME Holds(t, p) PROVE Holds(s, p) /\ p # Head(s)
    BY <1>1, <1>2, <1>5, <2>1, SMTT(30) DEF Holds, Distinct
  <2>2. ASSUME Holds(s, p), p # Head(s) PROVE Holds(t, p)
    BY <1>1, <1>3, <2>2, Zenon DEF Holds
  <2> QED
    BY <2>1, <2>2
<1> QED
  BY <1>1, <1>4, <1>6, <1>7 DEF t

-----------------------------------------------------------------------------
(* The record of a pass                                                    *)

\* q is x after one more exit of f, which may have raised.
Marks(x, f, fails, q) ==
    /\ q.how = x.how /\ q.fault = (x.fault \/ fails)
    /\ q.fn = (IF f = "fn" THEN x.fn + 1 ELSE x.fn)
    /\ q.bg = (IF f = "bg" THEN x.bg + 1 ELSE x.bg)
    /\ q.inner = (IF f = "inner" THEN x.inner + 1 ELSE x.inner)
    /\ q.file = (IF f = "file" THEN x.file + 1 ELSE x.file)

\* Mark counts one exit, and records its fault.
LEMMA Marked ==
    ASSUME NEW x \in Pass, NEW fails \in BOOLEAN, NEW f \in {"fn", "bg", "inner", "file"},
           NEW q, q = Mark(x, f, fails)
    PROVE  q \in Pass /\ Marks(x, f, fails, q)
<1> DEFINE e == x.fault \/ fails
<1>1. e \in BOOLEAN
  BY Zenon
<1>2. \A k \in Nat : k + 1 \in Nat
  OBVIOUS
<1>3. CASE f = "fn"
  <2> DEFINE k == x.fn + 1
  <2>1. k \in Nat
    BY <1>2 DEF Pass
  <2>2. q = [x EXCEPT !.fn = k, !.fault = e]
    BY <1>3, Zenon DEF Mark
  <2> HIDE DEF k, e
  <2>3. /\ q \in Pass /\ q.how = x.how /\ q.fault = e
        /\ q.fn = k /\ q.bg = x.bg /\ q.inner = x.inner /\ q.file = x.file
    BY <1>1, <2>1, <2>2, Zenon DEF Pass
  <2> QED
    BY <1>3, <2>3, Zenon DEF k, e, Marks
<1>4. CASE f = "bg"
  <2> DEFINE k == x.bg + 1
  <2>1. k \in Nat
    BY <1>2 DEF Pass
  <2>2. q = [x EXCEPT !.bg = k, !.fault = e]
    BY <1>4, Zenon DEF Mark
  <2> HIDE DEF k, e
  <2>3. /\ q \in Pass /\ q.how = x.how /\ q.fault = e
        /\ q.bg = k /\ q.fn = x.fn /\ q.inner = x.inner /\ q.file = x.file
    BY <1>1, <2>1, <2>2, Zenon DEF Pass
  <2> QED
    BY <1>4, <2>3, Zenon DEF k, e, Marks
<1>5. CASE f = "inner"
  <2> DEFINE k == x.inner + 1
  <2>1. k \in Nat
    BY <1>2 DEF Pass
  <2>2. q = [x EXCEPT !.inner = k, !.fault = e]
    BY <1>5, Zenon DEF Mark
  <2> HIDE DEF k, e
  <2>3. /\ q \in Pass /\ q.how = x.how /\ q.fault = e
        /\ q.inner = k /\ q.fn = x.fn /\ q.bg = x.bg /\ q.file = x.file
    BY <1>1, <2>1, <2>2, Zenon DEF Pass
  <2> QED
    BY <1>5, <2>3, Zenon DEF k, e, Marks
<1>6. CASE f = "file"
  <2> DEFINE k == x.file + 1
  <2>1. k \in Nat
    BY <1>2 DEF Pass
  <2>2. q = [x EXCEPT !.file = k, !.fault = e]
    BY <1>6, Zenon DEF Mark
  <2> HIDE DEF k, e
  <2>3. /\ q \in Pass /\ q.how = x.how /\ q.fault = e
        /\ q.file = k /\ q.fn = x.fn /\ q.bg = x.bg /\ q.inner = x.inner
    BY <1>1, <2>1, <2>2, Zenon DEF Pass
  <2> QED
    BY <1>6, <2>3, Zenon DEF k, e, Marks
<1> QED
  BY <1>3, <1>4, <1>5, <1>6

\* The outcome of the endpoint is recorded.
LEMMA EndedPass ==
    ASSUME NEW x \in Pass, NEW o \in {"ok", "rve", "http", "err"}, NEW q, q = Ended(x, o)
    PROVE  /\ q \in Pass /\ q.how = o /\ q.fault = x.fault
           /\ q.fn = x.fn /\ q.bg = x.bg /\ q.inner = x.inner /\ q.file = x.file
  BY DEF Pass, Ended

\* The endpoint is over: its function stack exits, or is thrown into.
LEMMA EndpointEnds ==
    ASSUME NEW x \in Pass, AtStep(x, "endpoint"), NEW o \in {"ok", "rve", "http", "err"},
           NEW q, q = Ended(x, o)
    PROVE  /\ q \in Pass /\ Nests(q)
           /\ AtStep(q, IF o \in {"ok", "rve"} THEN "fnExit" ELSE "throwFn")
<1>1. /\ q \in Pass /\ q.how = o /\ q.fault = x.fault
      /\ q.fn = x.fn /\ q.bg = x.bg /\ q.inner = x.inner /\ q.file = x.file
  BY EndedPass
<1> QED
  BY <1>1 DEF AtStep, Nests

\* An exception is thrown into the stacks from the inside out.
LEMMA ThrownInto ==
    ASSUME NEW x \in Pass, NEW s \in Stacks, NEW no \in BOOLEAN, ~no, NEW q, q = Mark(x, s, no),
           s = "fn" => AtStep(x, "throwFn"),
           s = "inner" => AtStep(x, "throwInner"),
           s = "file" => AtStep(x, "throwFile")
    PROVE  /\ q \in Pass /\ Nests(q) /\ q.how # "ok"
           /\ s = "fn" => AtStep(q, "throwInner")
           /\ s = "inner" => AtStep(q, "throwFile")
           /\ s = "file" => Closed(q)
<1>1. q \in Pass /\ Marks(x, s, no, q)
  <2>1. s \in {"fn", "bg", "inner", "file"}
    BY DEF Stacks
  <2> QED
    BY <2>1, Marked, Zenon
<1>2. ~x.fault /\ x.how \in {"http", "err"}
  BY DEF AtStep, Stacks
<1>3. ~q.fault
  BY <1>1, <1>2, Zenon DEF Marks
<1>4. CASE s = "fn"
  <2>1. AtStep(x, "throwFn")
    BY <1>4
  <2>2. x.fn = 0 /\ x.bg = 0 /\ x.inner = 0 /\ x.file = 0
    BY <2>1 DEF AtStep
  <2>3. q.fn = 1 /\ q.bg = 0 /\ q.inner = 0 /\ q.file = 0 /\ q.how = x.how
    BY <1>1, <1>4, <2>2 DEF Marks
  <2> QED
    BY <1>1, <1>2, <1>3, <1>4, <2>3 DEF AtStep, Nests
<1>5. CASE s = "inner"
  <2>1. AtStep(x, "throwInner")
    BY <1>5
  <2>2. x.fn = 1 /\ x.bg = 0 /\ x.inner = 0 /\ x.file = 0
    BY <2>1 DEF AtStep
  <2>3. q.fn = 1 /\ q.bg = 0 /\ q.inner = 1 /\ q.file = 0 /\ q.how = x.how
    BY <1>1, <1>5, <2>2 DEF Marks
  <2> QED
    BY <1>1, <1>2, <1>3, <1>5, <2>3 DEF AtStep, Nests
<1>6. CASE s = "file"
  <2>1. AtStep(x, "throwFile")
    BY <1>6
  <2>2. x.fn = 1 /\ x.bg = 0 /\ x.inner = 1 /\ x.file = 0
    BY <2>1 DEF AtStep
  <2>3. q.fn = 1 /\ q.bg = 0 /\ q.inner = 1 /\ q.file = 1 /\ q.how = x.how
    BY <1>1, <1>6, <2>2 DEF Marks
  <2> QED
    BY <1>1, <1>2, <1>3, <1>6, <2>3 DEF AtStep, Nests, Closed
<1> QED
  BY <1>4, <1>5, <1>6 DEF Stacks

\* The exits of a pass that returned a response, in their order.
LEMMA MarkedClean ==
    ASSUME NEW x \in Pass, NEW f \in {"fn", "bg", "inner", "file"}, NEW fails \in BOOLEAN,
           NEW q, q = Mark(x, f, fails),
           AtStep(x, IF f = "fn" THEN "fnExit" ELSE f)
    PROVE  /\ q \in Pass /\ Nests(q) /\ q.how = x.how
           /\ fails => q.fault
           /\ ~fails /\ f = "fn" => AtStep(q, "settle")
           /\ ~fails /\ f = "bg" => AtStep(q, "inner")
           /\ ~fails /\ f = "inner" => AtStep(q, "file")
           /\ f = "file" => Closed(q)
<1>1. q \in Pass /\ Marks(x, f, fails, q)
  BY Marked, Zenon
<1>2. ~x.fault /\ x.how \in {"ok", "rve"}
  BY DEF AtStep
<1>3. (fails => q.fault) /\ (~fails => ~q.fault)
  BY <1>1, <1>2, Zenon DEF Marks
<1>4. CASE f = "fn"
  BY <1>1, <1>2, <1>3, <1>4 DEF AtStep, Nests, Marks
<1>5. CASE f = "bg"
  BY <1>1, <1>2, <1>3, <1>5 DEF AtStep, Nests, Marks
<1>6. CASE f = "inner"
  BY <1>1, <1>2, <1>3, <1>6 DEF AtStep, Nests, Marks
<1>7. CASE f = "file"
  BY <1>1, <1>2, <1>3, <1>7 DEF AtStep, Nests, Marks, Closed
<1> QED
  BY <1>4, <1>5, <1>6, <1>7

-----------------------------------------------------------------------------
(* From one pass to all of them                                            *)

\* The pass a handler or finalizer step works on is at that step.
LEMMA WorksOn ==
    ASSUME PipelineInv, step \in InHandler \cup Finalizing
    PROVE  /\ Finalized \in 1..Len(passes) /\ passes[Finalized] \in Pass
           /\ pos # 0 => Finalized = cur /\ pos = depth + 1
           /\ pos = 0 => pend # <<>> /\ Finalized = Head(pend) /\ step \in Finalizing
           /\ app.route = "delegated" => AtStep(passes[Finalized], step)
           /\ app.route = "adapter" => Untouched(passes[Finalized])
<1>1. /\ passes \in Seq(Pass) /\ pend \in Seq(Nat) /\ app.mws \in Seq(Middleware) /\ pos \in Nat
      /\ Distinct(pend)
  BY DEF PipelineInv, PipelineTypeOK, PendInv
<1>2. depth \in Nat
  BY <1>1 DEF depth
<1>3. CASE pos # 0
  <2>1. passes # <<>> /\ pos = depth + 1 /\ Finalized = cur
    BY <1>3 DEF PipelineInv, PipelineControl, Finalized, draining
  <2>2. cur \in 1..Len(passes)
    BY <1>1, <2>1 DEF cur
  <2> QED
    BY <1>1, <1>3, <2>1, <2>2 DEF PipelineInv, PassesInv, PassOK, Busy
<1>4. CASE pos = 0
  <2>1. step \in Finalizing /\ pend # <<>> /\ Finalized = Head(pend)
    BY <1>1, <1>2, <1>4 DEF PipelineInv, PipelineControl, Finalized, draining
  <2>2. Head(pend) \in 1..Len(passes)
    BY <1>1, <2>1, HeadTaken DEF PipelineInv, PendInv
  <2> QED
    BY <1>1, <1>4, <2>1, <2>2 DEF PipelineInv, PassesInv, PassOK, Busy
<1> QED
  BY <1>3, <1>4

(* Step changes pass a to q and leaves the other passes alone.             *)
Rewrites(a, q) ==
    /\ passes' \in Seq(Pass) /\ Len(passes') = Len(passes)
    /\ passes'[a] = q /\ \A p \in 1..Len(passes) : p # a => passes'[p] = passes[p]

\* Updating one pass.
LEMMA Updated ==
    ASSUME PipelineInv, NEW a \in 1..Len(passes), NEW q \in Pass,
           passes' = [passes EXCEPT ![a] = q]
    PROVE  Rewrites(a, q)
  BY DEF PipelineInv, PipelineTypeOK, Rewrites

\* A step on one pass concerns no other.
LEMMA Advance ==
    ASSUME PipelineInv, step \in InHandler \cup Finalizing,
           NEW a, a = Finalized, NEW q, Rewrites(a, q), UNCHANGED app, Owes' => Owes,
           \A p \in 1..Len(passes) : p # a => ~Busy(p)' /\ (Holds(pend', p) <=> Holds(pend, p)),
           PassOK(app.route, q, Busy(a)', Holds(pend', a), Owes', step')
    PROVE  PassesInv'
<1> SUFFICES ASSUME NEW p \in 1..Len(passes)
             PROVE  PassOK(app.route, passes'[p], Busy(p)', Holds(pend', p), Owes', step')
  BY DEF PassesInv, Rewrites
<1>1. CASE p = a
  BY <1>1 DEF Rewrites
<1>2. CASE p # a
  <2>1. PassOK(app.route, passes[p], Busy(p), Holds(pend, p), Owes, step) /\ ~Busy(p)
    BY <1>2 DEF PipelineInv, PassesInv, Busy
  <2>2. passes'[p] = passes[p]
    BY <1>2 DEF Rewrites
  <2> QED
    BY <1>2, <2>1, <2>2 DEF PassOK
<1> QED
  BY <1>1, <1>2

\* Neither do the steps of the chain.
LEMMA Unwinds ==
    ASSUME PipelineInv,
           step \notin InHandler \cup Finalizing, step' \notin InHandler \cup Finalizing,
           UNCHANGED <<app, passes, pend>>, Owes' => Owes
    PROVE  PassesInv'
<1> SUFFICES ASSUME NEW p \in 1..Len(passes)
             PROVE  PassOK(app.route, passes[p], Busy(p)', Holds(pend, p), Owes', step')
  BY DEF PassesInv
<1>1. PassOK(app.route, passes[p], Busy(p), Holds(pend, p), Owes, step) /\ ~Busy(p) /\ ~Busy(p)'
  BY DEF PipelineInv, PassesInv, Busy
<1> QED
  BY <1>1 DEF PassOK

\* Only the entry of the chain can lead to a second pass.
LEMMA NoRerun ==
    ASSUME PipelineInv, UNCHANGED <<app, mode>>, passes' \in Seq(Pass), Len(passes') = Len(passes),
           step' # "in", ret' = "susp" => ret = "susp"
    PROVE  Reruns'
<1>1. (passes' # <<>>) => (passes # <<>>)
  BY DEF PipelineInv, PipelineTypeOK
<1> QED
  BY <1>1 DEF PipelineInv, Reruns, HasYieldOut, HasMute

\* On the first drive a suspension is passed on, or comes from a middleware
\* that suspends on its way out.
LEMMA Suspends ==
    ASSUME NEW m, NEW r, mode = "fast", Outwards(m, r) = "susp"
    PROVE  r = "susp" \/ m.does = "yieldOut"
  BY DEF Outwards

\* The types the arithmetic of the positions needs.
LEMMA Depth ==
    ASSUME PipelineInv
    PROVE  depth \in Nat /\ pos \in Nat /\ passes \in Seq(Pass) /\ Len(passes) \in Nat
  BY DEF PipelineInv, PipelineTypeOK, depth

-----------------------------------------------------------------------------
(* The chain                                                               *)

\* A middleware runs up to its call_next, or answers itself.
LEMMA EnterMwKeeps == ASSUME PipelineInv, EnterMw PROVE PipelineInv'
<1> USE Depth
<1>1. /\ step = "in" /\ pos \in 1..depth /\ pos # 0 /\ depth' = depth
      /\ UNCHANGED <<app, mode, passes, stamped, pend>>
  BY DEF EnterMw, PipelineInv, PipelineControl, depth
<1>2. \/ pos' = pos + 1 /\ step' = step /\ ret' = ret
      \/ /\ pos' = pos - 1 /\ step' = (IF pos = 1 THEN "chain" ELSE "out")
  BY DEF EnterMw, ReturnFrom
<1>3. PipelineTypeOK'
  BY <1>1, <1>2 DEF PipelineInv, PipelineTypeOK, InHandler, Finalizing, InChain
<1>4. PassesInv'
  BY <1>1, <1>2, Unwinds DEF InHandler, Finalizing, Owes
<1>5. PendInv'
  BY <1>1, <1>2 DEF PipelineInv, PendInv, InHandler, Finalizing
<1>6. PipelineControl'
  BY <1>1, <1>2 DEF PipelineInv, PipelineControl, InHandler, Finalizing
<1>7. Reruns'
  BY <1>1, <1>2 DEF PipelineInv, Reruns, HasYieldOut, HasMute
<1> QED
  BY <1>3, <1>4, <1>5, <1>6, <1>7 DEF PipelineInv

\* A middleware runs after its call_next.
LEMMA LeaveMwKeeps == ASSUME PipelineInv, LeaveMw PROVE PipelineInv'
<1> USE Depth
<1>1. /\ step = "out" /\ pos \in 1..depth /\ pos # 0 /\ depth' = depth
      /\ UNCHANGED <<app, mode, passes, stamped, pend>>
  BY DEF LeaveMw, PipelineInv, PipelineControl, depth
<1>2. \/ /\ chain[pos] = [shape |-> "shim", does |-> "mute"]
         /\ pos' = pos + 1 /\ step' = "in"
      \/ /\ pos' = pos - 1 /\ step' = (IF pos = 1 THEN "chain" ELSE "out")
         /\ ret' \in {ret, Outwards(chain[pos], ret)}
  BY DEF LeaveMw, ReturnFrom
<1>3. PipelineTypeOK'
  BY <1>1, <1>2 DEF PipelineInv, PipelineTypeOK, InHandler, Finalizing, InChain
<1>4. PassesInv'
  BY <1>1, <1>2, Unwinds DEF InHandler, Finalizing, Owes
<1>5. PendInv'
  BY <1>1, <1>2 DEF PipelineInv, PendInv, InHandler, Finalizing
<1>6. PipelineControl'
  BY <1>1, <1>2 DEF PipelineInv, PipelineControl, InHandler, Finalizing
<1>7. Reruns'
  <2>1. chain[pos] = app.mws[depth + 1 - pos] /\ depth + 1 - pos \in DOMAIN app.mws
    BY <1>1 DEF PipelineInv, PipelineTypeOK, depth, chain
  <2>2. (HasYieldOut' <=> HasYieldOut) /\ (HasMute' <=> HasMute)
    BY <1>1 DEF HasYieldOut, HasMute
  <2>3. CASE step' = "in"
    <3>1. HasMute
      BY <1>2, <2>1, <2>3 DEF HasMute
    <3> QED
      BY <2>2, <3>1 DEF Reruns
  <2>4. CASE step' # "in"
    <3>1. mode = "fast" /\ ret' = "susp" => ret = "susp" \/ HasYieldOut
      BY <1>2, <2>1, <2>4, Suspends DEF HasYieldOut
    <3> QED
      BY <1>1, <2>2, <2>4, <3>1 DEF PipelineInv, Reruns
  <2> QED
    BY <2>3, <2>4
<1> QED
  BY <1>3, <1>4, <1>5, <1>6, <1>7 DEF PipelineInv

\* The chain has returned: the response is taken, or the fallback drives it
\* again.
LEMMA ChainReturnsKeeps == ASSUME PipelineInv, ChainReturns PROVE PipelineInv'
<1> USE Depth
<1>1. /\ step = "chain" /\ pos = 0 /\ depth' = depth
      /\ UNCHANGED <<app, ret, passes, stamped, pend>>
      /\ \/ mode = "fast" /\ ret = "susp" /\ mode' = "slow" /\ pos' = 1 /\ step' = "in"
         \/ step' = "drain" /\ UNCHANGED <<mode, pos>>
  BY DEF ChainReturns, PipelineInv, PipelineControl, depth
<1>3. PipelineTypeOK'
  BY <1>1 DEF PipelineInv, PipelineTypeOK, InHandler, Finalizing, InChain
<1>4. PassesInv'
  BY <1>1, Unwinds DEF InHandler, Finalizing, Owes
<1>5. PendInv'
  BY <1>1 DEF PipelineInv, PendInv, InHandler, Finalizing
<1>6. PipelineControl'
  BY <1>1 DEF PipelineInv, PipelineControl, InHandler, Finalizing
<1>7. Reruns'
  BY <1>1, SMTT(30) DEF PipelineInv, Reruns, HasYieldOut, HasMute
<1> QED
  BY <1>3, <1>4, <1>5, <1>6, <1>7 DEF PipelineInv

\* The drain takes the next deferred pass.
LEMMA DrainKeeps == ASSUME PipelineInv, DrainPending PROVE PipelineInv'
<1> USE Depth
<1>1. /\ step = "drain" /\ pos = 0 /\ depth' = depth
      /\ UNCHANGED <<app, mode, pos, ret, passes, stamped, pend>>
      /\ \/ pend = <<>> /\ step' = "done"
         \/ pend # <<>> /\ step' = "bg"
  BY DEF DrainPending, PipelineInv, PipelineControl, depth
<1>3. PipelineTypeOK'
  BY <1>1 DEF PipelineInv, PipelineTypeOK, InHandler, Finalizing, InChain
<1>4. PassesInv'
  <2>1. CASE pend = <<>>
    BY <1>1, <2>1, Unwinds DEF InHandler, Finalizing, Owes
  <2>2. CASE pend # <<>>
    <3>1. step' = "bg" /\ Finalized' = Head(pend) /\ Holds(pend, Head(pend))
      BY <1>1, <2>2, HeadTaken DEF Finalized, draining, PipelineInv, PipelineTypeOK, PendInv
    <3> SUFFICES ASSUME NEW p \in 1..Len(passes)
                 PROVE  PassOK(app.route, passes[p], Busy(p)', Holds(pend, p), Owes', "bg")
      BY <1>1, <3>1 DEF PassesInv
    <3>2. PassOK(app.route, passes[p], Busy(p), Holds(pend, p), Owes, step) /\ ~Busy(p)
      BY <1>1 DEF PipelineInv, PassesInv, Busy, InHandler, Finalizing
    <3>3. Busy(p)' => p = Head(pend)
      BY <3>1 DEF Busy
    <3>4. ~Owes'
      BY <1>1, <3>1 DEF Owes
    <3> QED
      BY <3>1, <3>2, <3>3, <3>4 DEF PassOK
  <2> QED
    BY <2>1, <2>2
<1>5. PendInv'
  BY <1>1 DEF PipelineInv, PendInv, InHandler, Finalizing
<1>6. PipelineControl'
  <2>1. CASE pend = <<>>
    BY <1>1, <2>1 DEF PipelineInv, PipelineControl, InHandler, Finalizing
  <2>2. CASE pend # <<>>
    <3>1. app.route = "delegated"
      BY <2>2 DEF PipelineInv, PendInv
    <3> QED
      BY <1>1, <2>2, <3>1 DEF PipelineInv, PipelineControl, InHandler, Finalizing
  <2> QED
    BY <2>1, <2>2
<1>7. Reruns'
  BY <1>1, NoRerun
<1> QED
  BY <1>3, <1>4, <1>5, <1>6, <1>7 DEF PipelineInv

\* The outcome goes to the innermost middleware, or to the caller.
LEMMA LeaveHandlerKeeps == ASSUME PipelineInv, NEW h, LeaveHandler(h) PROVE PipelineInv'
<1> USE Depth
<1>1. /\ step = "wrap" /\ depth' = depth /\ pos = depth + 1 /\ pos # 0
      /\ pos' = pos - 1 /\ step' = (IF pos = 1 THEN "chain" ELSE "out")
      /\ UNCHANGED <<app, mode, passes, stamped, pend>>
  BY DEF LeaveHandler, ReturnFrom, depth, PipelineInv, PipelineControl
<1>2. ret' = "susp" => ret = "susp"
  BY DEF LeaveHandler, ReturnFrom
<1>3. PipelineTypeOK'
  BY <1>1 DEF PipelineInv, PipelineTypeOK, InHandler, Finalizing, InChain
<1>4. PassesInv'
  BY <1>1, Unwinds DEF InHandler, Finalizing, Owes
<1>5. PendInv'
  BY <1>1 DEF PipelineInv, PendInv, InHandler, Finalizing
<1>6. PipelineControl'
  BY <1>1 DEF PipelineInv, PipelineControl, InHandler, Finalizing
<1>7. Reruns'
  BY <1>1, <1>2, NoRerun
<1> QED
  BY <1>3, <1>4, <1>5, <1>6, <1>7 DEF PipelineInv

-----------------------------------------------------------------------------
(* The handler, its finalizer and the drain                                *)

\* The pass goes on.
LEMMA Continues ==
    ASSUME PipelineInv, step \in InHandler \cup Finalizing, app.route = "delegated",
           NEW a, a = Finalized, NEW q, Rewrites(a, q), Nests(q), AtStep(q, step'),
           UNCHANGED <<app, mode, pos, stamped, pend>>,
           step' \in InHandler \cup Finalizing, pos = 0 => step' \in Finalizing,
           step' \in Finalizing /\ pos # 0 /\ stamped => q.how = "rve",
           ret' = "susp" => ret = "susp"
    PROVE  PipelineInv'
<1> USE Depth
<1>1. /\ a \in 1..Len(passes) /\ cur' = cur /\ Finalized' = a /\ depth' = depth
      /\ pos # 0 => a = cur /\ pos = depth + 1
      /\ pos = 0 => pend # <<>>
  BY WorksOn DEF Rewrites, cur, Finalized, draining, depth
<1>2. passes' # <<>> /\ step' # "chain" /\ step' # "in" /\ step # "chain"
  BY <1>1 DEF Rewrites, InHandler, Finalizing
<1>3. PipelineTypeOK'
  BY DEF PipelineInv, PipelineTypeOK, Rewrites
<1>4. PassesInv'
  <2>1. Busy(a)' /\ \A p : p # a => ~Busy(p)'
    BY <1>1 DEF Busy
  <2>2. Owes' => Owes
    BY <1>2 DEF Owes
  <2>3. PassOK(app.route, q, Busy(a)', Holds(pend', a), Owes', step')
    BY <2>1 DEF PassOK
  <2> QED
    BY <2>1, <2>2, <2>3, Advance, Zenon
<1>5. PendInv'
  BY <1>1 DEF PipelineInv, PendInv, InHandler, Finalizing, Rewrites
<1>6. PipelineControl'
  BY <1>1, <1>2 DEF PipelineInv, PipelineControl, InHandler, Finalizing, Rewrites
<1>7. Reruns'
  BY <1>2, NoRerun DEF Rewrites
<1> QED
  BY <1>3, <1>4, <1>5, <1>6, <1>7 DEF PipelineInv

(* The pass is over, in the handler or in the drain.                       *)
LEMMA Finishes ==
    ASSUME PipelineInv, step \in InHandler \cup Finalizing, app.route = "delegated",
           NEW a, a = Finalized, NEW q, Rewrites(a, q), Nests(q), q.fault \/ Closed(q),
           stamped /\ pos # 0 /\ q.how = "ok" => q.fault,
           UNCHANGED <<app, mode, pos, stamped>>,
           pos = 0 => pend' = Tail(pend) /\ step' = "drain",
           pos # 0 => pend' = pend /\ step' = "wrap",
           ret' = "susp" => ret = "susp"
    PROVE  PipelineInv'
<1> USE Depth
<1>1. /\ a \in 1..Len(passes) /\ depth' = depth
      /\ pos # 0 => a = cur /\ pos = depth + 1
      /\ pos = 0 => pend # <<>> /\ a = Head(pend)
  BY WorksOn DEF depth
<1>2. passes' # <<>> /\ step' \in {"wrap", "drain"} /\ step # "chain"
  BY <1>1 DEF Rewrites, InHandler, Finalizing
<1>p. /\ pend' \in Seq(Nat) /\ Distinct(pend')
      /\ \A p : Holds(pend', p) <=> Holds(pend, p) /\ p # a
  <2>1. pend \in Seq(Nat) /\ Distinct(pend)
    BY DEF PipelineInv, PipelineTypeOK, PendInv
  <2>2. CASE pos = 0
    BY <1>1, <2>1, <2>2, HeadTaken, ZenonT(40)
  <2>3. CASE pos # 0
    BY <1>1, <2>1, <2>3 DEF PipelineInv, PendInv
  <2> QED
    BY <2>2, <2>3
<1>3. PipelineTypeOK'
  BY <1>2, <1>p DEF PipelineInv, PipelineTypeOK, Rewrites, InHandler, Finalizing, InChain
<1>4. PassesInv'
  <2>1. \A p : ~Busy(p)'
    BY <1>2 DEF Busy, InHandler, Finalizing
  <2>2. (Owes' => Owes) /\ (Owes' => stamped /\ pos # 0)
    BY <1>2 DEF Owes
  <2>3. PassOK(app.route, q, Busy(a)', Holds(pend', a), Owes', step')
    BY <1>p, <2>1, <2>2 DEF PassOK
  <2>4. \A p \in 1..Len(passes) : p # a => ~Busy(p)' /\ (Holds(pend', p) <=> Holds(pend, p))
    BY <1>p, <2>1
  <2> QED
    BY <2>2, <2>3, <2>4, Advance
<1>5. PendInv'
  <2>1. pend' # <<>> => pend # <<>>
    BY <1>1
  <2>2. \A p : Holds(pend', p) => p \in 1..Len(passes')
    BY <1>p DEF PipelineInv, PendInv, Rewrites
  <2> QED
    BY <1>2, <1>p, <2>1, <2>2 DEF PipelineInv, PendInv, InHandler, Finalizing
<1>6. PipelineControl'
  BY <1>1, <1>2 DEF PipelineInv, PipelineControl, InHandler, Finalizing
<1>7. Reruns'
  BY <1>2, NoRerun DEF Rewrites
<1> QED
  BY <1>3, <1>4, <1>5, <1>6, <1>7 DEF PipelineInv

\* The chain calls the handler: a new pass.
LEMMA CallHandlerKeeps == ASSUME PipelineInv, CallHandler PROVE PipelineInv'
<1> USE Depth
<1>1. /\ step = "in" /\ pos = depth + 1 /\ pos # 0 /\ depth' = depth
      /\ UNCHANGED <<app, mode, pos, pend>>
      /\ passes' = Append(passes, NewPass)
      /\ stamped' = (stamped \/ (mode = "fast" /\ depth > 0))
  BY DEF CallHandler, depth
<1>2. \/ app.route = "adapter" /\ mode = "slow" /\ ret' = "type" /\ step' = "wrap"
      \/ step' = "endpoint" /\ ret' = ret
  BY DEF CallHandler
<1>3. /\ NewPass \in Pass /\ AtStep(NewPass, "endpoint") /\ Nests(NewPass) /\ Untouched(NewPass)
  BY DEF NewPass, Pass, AtStep, Nests, Untouched
<1>4. /\ passes' \in Seq(Pass) /\ Len(passes') = Len(passes) + 1 /\ passes' # <<>>
      /\ passes'[Len(passes) + 1] = NewPass
      /\ \A p \in 1..Len(passes) : passes'[p] = passes[p]
  BY <1>1, <1>3
<1>5. cur' = Len(passes) + 1 /\ Finalized' = Len(passes) + 1
  BY <1>1, <1>4 DEF cur, Finalized, draining
<1>6. ~Holds(pend, Len(passes) + 1)
  BY DEF PipelineInv, PendInv
<1>7. stamped' \in BOOLEAN /\ (stamped' => depth > 0) /\ (stamped => stamped')
      /\ (stamped' => stamped \/ mode = "fast")
  BY <1>1 DEF PipelineInv, PipelineTypeOK, PipelineControl
<1>8. PipelineTypeOK'
  BY <1>1, <1>2, <1>4, <1>7 DEF PipelineInv, PipelineTypeOK, InHandler, Finalizing, InChain
<1>9. PassesInv'
  <2> SUFFICES ASSUME NEW p \in 1..Len(passes')
               PROVE  PassOK(app.route, passes'[p], Busy(p)', Holds(pend, p), Owes', step')
    BY <1>1 DEF PassesInv
  <2>1. CASE p = Len(passes) + 1
    <3>1. /\ passes'[p] = NewPass /\ ~Holds(pend, p)
          /\ app.route = "delegated" => step' = "endpoint" /\ Busy(p)'
      BY <1>2, <1>4, <1>5, <1>6, <2>1 DEF Busy, InHandler
    <3> QED
      BY <1>3, <3>1 DEF PassOK
  <2>2. CASE p \in 1..Len(passes)
    <3>1. PassOK(app.route, passes[p], Busy(p), Holds(pend, p), Owes, step) /\ ~Busy(p)
      BY <1>1, <2>2 DEF PipelineInv, PassesInv, Busy, InHandler, Finalizing
    <3>2. ~Busy(p)'
      BY <1>5, <2>2 DEF Busy
    <3>3. Owes' => Owes
      BY <1>1, <1>7, <2>2 DEF Owes, PipelineInv, PipelineControl
    <3> QED
      BY <1>4, <2>2, <3>1, <3>2, <3>3 DEF PassOK
  <2> QED
    BY <1>4, <2>1, <2>2
<1>10. PendInv'
  <2>1. \A p : Holds(pend', p) => p \in 1..Len(passes')
    BY <1>1, <1>4 DEF PipelineInv, PendInv
  <2> QED
    BY <1>1, <1>2, <1>5, <1>6, <1>7, <2>1 DEF PipelineInv, PendInv
<1>11. PipelineControl'
  BY <1>1, <1>2, <1>4, <1>7 DEF PipelineInv, PipelineControl, InHandler, Finalizing
<1>12. Reruns'
  <2>1. (HasYieldOut' <=> HasYieldOut) /\ (HasMute' <=> HasMute)
    BY <1>1 DEF HasYieldOut, HasMute
  <2> SUFFICES ASSUME ~HasMute PROVE Reruns'
    BY <2>1 DEF Reruns
  <2>2. mode = "fast" => Len(passes) = 0 /\ ret # "susp" /\ ret' # "susp"
    BY <1>1, <1>2 DEF PipelineInv, Reruns
  <2>3. step' # "in" /\ Len(passes) <= 1 /\ (mode = "slow" /\ Len(passes) = 1 => HasYieldOut)
    BY <1>1, <1>2 DEF PipelineInv, Reruns
  <2>4. mode \in {"fast", "slow"}
    BY DEF PipelineInv, PipelineTypeOK
  <2>5. CASE mode = "fast"
    <3>1. Len(passes') = 1 /\ mode' = "fast" /\ ret' # "susp" /\ step' # "in"
      BY <1>1, <1>4, <2>2, <2>3, <2>5
    <3> QED
      BY <3>1 DEF Reruns
  <2>6. CASE mode = "slow"
    <3>1. /\ Len(passes') <= 2 /\ mode' = "slow" /\ step' # "in"
          /\ Len(passes') = 2 => Len(passes) = 1
      <4>1. Len(passes') = Len(passes) + 1 /\ mode' = mode
        BY <1>1, <1>4
      <4>2. \A k \in Nat : k <= 1 => k + 1 <= 2 /\ (k + 1 = 2 => k = 1)
        OBVIOUS
      <4>3. Len(passes) \in Nat /\ Len(passes) <= 1 /\ step' # "in"
        BY <2>3, Zenon
      <4> QED
        BY <2>6, <4>1, <4>2, <4>3, Zenon
    <3>2. Len(passes') = 2 => HasYieldOut'
      BY <2>1, <2>3, <2>6, <3>1
    <3> QED
      BY <3>1, <3>2 DEF Reruns
  <2> QED
    BY <2>4, <2>5, <2>6
<1> QED
  BY <1>8, <1>9, <1>10, <1>11, <1>12 DEF PipelineInv

\* An endpoint behind _make_sync_wrapper, which has no stacks.
LEMMA RunAdapterKeeps ==
    ASSUME PipelineInv, NEW o \in {"ok", "http", "err"}, RunAdapter(o)
    PROVE  PipelineInv'
<1> USE Depth
<1>1. /\ step = "endpoint" /\ app.route = "adapter" /\ step' = "wrap" /\ depth' = depth
      /\ UNCHANGED <<app, mode, pos, stamped, pend>>
      /\ passes' = [passes EXCEPT ![cur] = Ended(passes[cur], o)]
      /\ ret' \in {"response", o}
  BY DEF RunAdapter, depth
<1>2. /\ cur \in 1..Len(passes) /\ cur = Finalized /\ passes[cur] \in Pass /\ Untouched(passes[cur])
      /\ pos # 0 /\ pos = depth + 1
  BY <1>1, WorksOn DEF InHandler, Finalizing
<1> DEFINE q == Ended(passes[cur], o)
           a == cur
<1>3. q \in Pass /\ Untouched(q) /\ Nests(q)
  BY <1>2, EndedPass DEF Untouched, Nests
<1>4. Rewrites(a, q)
  BY <1>1, <1>2, <1>3, Updated, Zenon
<1> HIDE DEF q
<1>5. passes' # <<>> /\ Len(passes') = Len(passes) /\ passes' \in Seq(Pass)
  BY <1>2, <1>4 DEF Rewrites
<1>6. PipelineTypeOK'
  BY <1>1, <1>5 DEF PipelineInv, PipelineTypeOK, InHandler, Finalizing, InChain
<1>7. PassesInv'
  <2>1. PassOK(app.route, q, Busy(a), Holds(pend', a), Owes', step')
    BY <1>1, <1>3 DEF PassOK
  <2> SUFFICES ASSUME NEW p \in 1..Len(passes)
               PROVE  PassOK("adapter", passes'[p], Busy(p)', Holds(pend', p), Owes', step')
    BY <1>1, <1>5 DEF PassesInv
  <2>2. PassOK(app.route, passes[p], Busy(p), Holds(pend, p), Owes, step)
    BY DEF PipelineInv, PassesInv
  <2>3. Nests(passes'[p]) /\ Untouched(passes'[p])
    BY <1>1, <1>3, <1>4, <2>2 DEF PassOK, Rewrites
  <2> QED
    BY <2>3 DEF PassOK
<1>8. PendInv'
  BY <1>1, <1>5 DEF PipelineInv, PendInv, InHandler, Finalizing
<1>9. PipelineControl'
  BY <1>1, <1>2, <1>5 DEF PipelineInv, PipelineControl, InHandler, Finalizing
<1>10. Reruns'
  <2>1. ret' # "susp"
    BY <1>1
  <2> QED
    BY <1>1, <1>5, <2>1, NoRerun
<1> QED
  BY <1>6, <1>7, <1>8, <1>9, <1>10 DEF PipelineInv

\* The endpoint of a delegated handler runs.
LEMMA RunDelegatedKeeps ==
    ASSUME PipelineInv, NEW o \in {"ok", "rve", "http", "err"}, RunDelegated(o)
    PROVE  PipelineInv'
<1>1. /\ step = "endpoint" /\ app.route = "delegated"
      /\ step' = (IF o \in {"ok", "rve"} THEN "fnExit" ELSE "throwFn")
      /\ UNCHANGED <<app, mode, pos, stamped, pend>>
      /\ passes' = [passes EXCEPT ![cur] = Ended(passes[cur], o)]
      /\ ret' \in {"response", o}
  BY DEF RunDelegated
<1>2. /\ step \in InHandler \cup Finalizing /\ step' \in InHandler /\ step' \notin Finalizing
  BY <1>1 DEF InHandler, Finalizing
<1>3. cur \in 1..Len(passes) /\ cur = Finalized /\ pos # 0 /\ passes[cur] \in Pass
      /\ AtStep(passes[cur], "endpoint")
  BY <1>1, <1>2, WorksOn DEF Finalizing
<1> DEFINE q == Ended(passes[cur], o)
<1>4. q \in Pass /\ Nests(q) /\ AtStep(q, step')
  BY <1>1, <1>3, EndpointEnds
<1>5. Rewrites(cur, q)
  BY <1>1, <1>3, <1>4, Updated, Zenon
<1>6. ret' # "susp"
  BY <1>1
<1> HIDE DEF q
<1> QED
  BY <1>1, <1>2, <1>3, <1>4, <1>5, <1>6, Continues

\* The handler of a validation error raises: the pass ends with its stacks open.
LEMMA ValidationHandlerRaisesKeeps ==
    ASSUME PipelineInv, ValidationHandlerRaises PROVE PipelineInv'
<1> DEFINE x == Ended(passes[cur], "rve")
           q == [x EXCEPT !.fault = TRUE]
<1>1. /\ step = "endpoint" /\ app.route = "delegated" /\ step' = "wrap" /\ ret' = "tear"
      /\ UNCHANGED <<app, mode, pos, stamped, pend>>
      /\ passes' = [passes EXCEPT ![cur] = q]
  BY DEF ValidationHandlerRaises
<1>2. step \in InHandler \cup Finalizing /\ step \notin Finalizing
  BY <1>1 DEF InHandler, Finalizing
<1>3. cur \in 1..Len(passes) /\ cur = Finalized /\ pos # 0 /\ passes[cur] \in Pass
      /\ AtStep(passes[cur], "endpoint")
  BY <1>1, <1>2, WorksOn
<1>4. x \in Pass /\ x.how = "rve" /\ x.fn = 0 /\ x.bg = 0 /\ x.inner = 0 /\ x.file = 0
  BY <1>3, EndedPass DEF AtStep
<1> HIDE DEF x
<1>5. q \in Pass /\ q.how = "rve" /\ q.fault
      /\ q.fn = 0 /\ q.bg = 0 /\ q.inner = 0 /\ q.file = 0
  BY <1>4 DEF Pass
<1>6. Rewrites(cur, q)
  BY <1>1, <1>3, <1>5, Updated, Zenon
<1>7. Nests(q)
  BY <1>5 DEF Nests
<1> HIDE DEF q
<1> QED
  BY <1>1, <1>2, <1>3, <1>5, <1>6, <1>7, Finishes

\* A failed endpoint is thrown into each stack.
LEMMA ThrowIntoKeeps ==
    ASSUME PipelineInv, NEW s \in Stacks, NEW e \in ExitOutcomes, ThrowInto(s, e)
    PROVE  PipelineInv'
<1>1. /\ s = "fn" => step = "throwFn" /\ step' = "throwInner"
      /\ s = "inner" => step = "throwInner" /\ step' = "throwFile"
      /\ s = "file" => step = "throwFile" /\ step' = "wrap"
      /\ UNCHANGED <<app, mode, pos, stamped, pend>>
  BY DEF ThrowInto
<1>2. /\ step \in InHandler \cup Finalizing /\ step \notin Finalizing /\ step # "endpoint"
      /\ s # "file" => step' \in InHandler /\ step' \notin Finalizing
  BY <1>1 DEF InHandler, Finalizing, Stacks
<1>3. /\ cur \in 1..Len(passes) /\ cur = Finalized /\ pos # 0 /\ passes[cur] \in Pass
      /\ app.route = "delegated" /\ AtStep(passes[cur], step)
  BY <1>2, WorksOn DEF PipelineInv, PipelineControl
<1>4. PICK no \in BOOLEAN : ~no /\ passes' = [passes EXCEPT ![cur] = Mark(passes[cur], s, no)]
  BY Zenon DEF ThrowInto
<1> DEFINE q == Mark(passes[cur], s, no)
<1>5. /\ q \in Pass /\ Nests(q) /\ q.how # "ok"
      /\ s = "fn" => AtStep(q, "throwInner")
      /\ s = "inner" => AtStep(q, "throwFile")
      /\ s = "file" => Closed(q)
  BY <1>1, <1>3, <1>4, ThrownInto
<1>6. Rewrites(cur, q)
  BY <1>3, <1>4, <1>5, Updated, Zenon
<1>7. ret' = "susp" => ret = "susp"
  BY DEF ThrowInto
<1> HIDE DEF q
<1>8. CASE s = "file"
  BY <1>1, <1>2, <1>3, <1>5, <1>6, <1>7, <1>8, Finishes
<1>9. CASE s # "file"
  <2>1. AtStep(q, step')
    BY <1>1, <1>5, <1>9 DEF Stacks
  <2> QED
    BY <1>1, <1>2, <1>3, <1>5, <1>6, <1>7, <1>9, <2>1, Continues
<1> QED
  BY <1>8, <1>9

\* The function stack exits.
LEMMA FunctionExitKeeps == ASSUME PipelineInv, NEW f \in BOOLEAN, FunctionExit(f) PROVE PipelineInv'
<1>1. /\ step = "fnExit" /\ UNCHANGED <<app, mode, pos, stamped, pend>>
      /\ passes' = [passes EXCEPT ![cur] = Mark(passes[cur], "fn", f)]
      /\ IF f THEN ret' = "tear" /\ step' = "wrap" ELSE step' = "settle" /\ ret' = ret
  BY DEF FunctionExit
<1>2. step \in InHandler \cup Finalizing /\ step \notin Finalizing
  BY <1>1 DEF InHandler, Finalizing
<1>3. /\ cur \in 1..Len(passes) /\ cur = Finalized /\ pos # 0 /\ passes[cur] \in Pass
      /\ app.route = "delegated" /\ AtStep(passes[cur], "fnExit")
  BY <1>1, <1>2, WorksOn DEF PipelineInv, PipelineControl
<1> DEFINE q == Mark(passes[cur], "fn", f)
<1>4. q \in Pass /\ Nests(q) /\ (f => q.fault) /\ (~f => AtStep(q, "settle"))
  BY <1>3, MarkedClean
<1>5. Rewrites(cur, q)
  BY <1>1, <1>3, <1>4, Updated, Zenon
<1>6. ret' = "susp" => ret = "susp"
  BY <1>1
<1> HIDE DEF q
<1>7. CASE f
  BY <1>1, <1>2, <1>3, <1>4, <1>5, <1>6, <1>7, Finishes
<1>8. CASE ~f
  <2>1. step' \in InHandler /\ step' \notin Finalizing /\ AtStep(q, step')
    BY <1>1, <1>4, <1>8 DEF InHandler, Finalizing
  <2> QED
    BY <1>1, <1>2, <1>3, <1>4, <1>5, <1>6, <2>1, Continues
<1> QED
  BY <1>7, <1>8

\* The heart of ScopeStaysOpen: a success under a middleware is deferred,
\* everything else is finalized inline.
LEMMA SettleKeeps == ASSUME PipelineInv, Settle PROVE PipelineInv'
<1> USE Depth
<1>1. /\ step = "settle" /\ UNCHANGED <<app, mode, pos, ret, passes, stamped>>
      /\ IF passes[cur].how = "ok" /\ depth > 0 /\ stamped
           THEN pend' = Append(pend, cur) /\ step' = "wrap"
           ELSE /\ step' = (IF passes[cur].how = "rve" THEN "inner" ELSE "bg")
                /\ pend' = pend
  BY DEF Settle
<1>2. step \in InHandler \cup Finalizing /\ step \notin Finalizing
  BY <1>1 DEF InHandler, Finalizing
<1>3. /\ cur \in 1..Len(passes) /\ cur = Finalized /\ pos # 0 /\ pos = depth + 1
      /\ passes[cur] \in Pass
      /\ app.route = "delegated" /\ AtStep(passes[cur], "settle")
  BY <1>1, <1>2, WorksOn DEF PipelineInv, PipelineControl
<1>4. Nests(passes[cur]) /\ Rewrites(cur, passes[cur])
  BY <1>1, <1>3 DEF PipelineInv, PassesInv, PassOK, Rewrites
<1>5. CASE passes[cur].how = "ok" /\ depth > 0 /\ stamped
  <2>1. pend' = Append(pend, cur) /\ step' = "wrap" /\ depth' = depth
    BY <1>1, <1>5 DEF depth
  <2>2. /\ pend' \in Seq(Nat) /\ pend' # <<>> /\ Distinct(pend')
        /\ \A p : Holds(pend', p) <=> Holds(pend, p) \/ p = cur
    <3>1. pend \in Seq(Nat) /\ Distinct(pend) /\ ~Holds(pend, cur) /\ cur \in Nat
      BY <1>2, <1>3 DEF PipelineInv, PipelineTypeOK, PendInv
    <3> QED
      BY <2>1, <3>1, Appended
  <2>3. PipelineTypeOK'
    BY <1>1, <2>1, <2>2 DEF PipelineInv, PipelineTypeOK, InChain
  <2>4. PassesInv'
    <3>1. \A p : ~Busy(p)'
      BY <2>1 DEF Busy, InHandler, Finalizing
    <3>2. AtStep(passes[cur], "bg")
      BY <1>3, <1>5 DEF AtStep
    <3>3. Owes' => Owes
      BY <1>1, <1>3, <2>1 DEF Owes
    <3> SUFFICES ASSUME NEW p \in 1..Len(passes)
                 PROVE  PassOK(app.route, passes[p], Busy(p)', Holds(pend', p), Owes', step')
      BY <1>1 DEF PassesInv
    <3>5. CASE p = cur
      BY <1>4, <3>1, <3>2, <3>5, <2>2, <1>3 DEF PassOK
    <3>6. CASE p # cur
      <4>1. PassOK(app.route, passes[p], Busy(p), Holds(pend, p), Owes, step) /\ ~Busy(p)
        BY <1>3, <3>6 DEF PipelineInv, PassesInv, Busy
      <4> QED
        BY <2>2, <3>1, <3>3, <3>6, <4>1 DEF PassOK
    <3> QED
      BY <3>5, <3>6
  <2>5. PendInv'
    BY <1>1, <1>3, <1>5, <2>1, <2>2 DEF PipelineInv, PendInv, InHandler, Finalizing
  <2>6. PipelineControl'
    BY <1>1, <1>3, <2>1 DEF PipelineInv, PipelineControl, InHandler, Finalizing
  <2>7. Reruns'
    BY <1>1, <2>1, NoRerun
  <2> QED
    BY <2>3, <2>4, <2>5, <2>6, <2>7 DEF PipelineInv
<1>6. CASE ~(passes[cur].how = "ok" /\ depth > 0 /\ stamped)
  <2>1. step' = (IF passes[cur].how = "rve" THEN "inner" ELSE "bg") /\ pend' = pend
    BY <1>1, <1>6
  <2>2. AtStep(passes[cur], step') /\ step' \in Finalizing
    BY <1>3, <2>1 DEF AtStep, Finalizing
  <2>3. stamped => passes[cur].how = "rve"
    BY <1>3, <1>6 DEF AtStep, PipelineInv, PipelineControl
  <2> QED
    BY <1>1, <1>2, <1>3, <1>4, <2>1, <2>2, <2>3, Continues
<1> QED
  BY <1>5, <1>6

\* Background task and inner stack, inline or in the drain.
LEMMA FinalizeStepKeeps ==
    ASSUME PipelineInv, NEW f \in BOOLEAN, NEW at \in {"bg", "inner"}, NEW then,
           then = (IF at = "bg" THEN "inner" ELSE "file"), FinalizeStep(at, at, then, f)
    PROVE  PipelineInv'
<1>1. /\ step = at /\ UNCHANGED <<app, mode, pos, stamped>>
      /\ passes' = [passes EXCEPT ![Finalized] = Mark(passes[Finalized], at, f)]
      /\ IF f THEN Abort ELSE step' = then /\ UNCHANGED <<ret, pend>>
  BY DEF FinalizeStep
<1>2. step \in InHandler \cup Finalizing /\ step \in Finalizing
  BY <1>1 DEF InHandler, Finalizing
<1>3. /\ Finalized \in 1..Len(passes) /\ passes[Finalized] \in Pass
      /\ app.route = "delegated" /\ AtStep(passes[Finalized], at)
      /\ pos = 0 => pend # <<>>
      /\ pos # 0 /\ stamped => passes[Finalized].how = "rve"
  BY <1>1, <1>2, WorksOn DEF PipelineInv, PipelineControl
<1> DEFINE q == Mark(passes[Finalized], at, f)
<1>4. /\ q \in Pass /\ Nests(q) /\ q.how = passes[Finalized].how
      /\ (f => q.fault) /\ (~f => AtStep(q, then))
  BY <1>3, MarkedClean
<1>5. Rewrites(Finalized, q)
  BY <1>1, <1>3, <1>4, Updated, Zenon
<1> HIDE DEF q
<1>6. CASE f
  <2>1. /\ pos = 0 => pend' = Tail(pend) /\ step' = "drain" /\ ret' = ret
        /\ pos # 0 => pend' = pend /\ step' = "wrap" /\ ret' = "tear"
    BY <1>1, <1>3, <1>6 DEF Abort, draining
  <2>2. ret' = "susp" => ret = "susp"
    BY <2>1
  <2>3. q.fault \/ Closed(q)
    BY <1>4, <1>6
  <2>4. stamped /\ pos # 0 /\ q.how = "ok" => q.fault
    BY <1>4, <1>6
  <2> QED
    BY <1>1, <1>2, <1>3, <1>4, <1>5, <2>1, <2>2, <2>3, <2>4, Finishes
<1>7. CASE ~f
  <2>1. step' = then /\ UNCHANGED <<ret, pend>> /\ step' \in Finalizing /\ AtStep(q, step')
    BY <1>1, <1>4, <1>7 DEF Finalizing
  <2> QED
    BY <1>1, <1>2, <1>3, <1>4, <1>5, <2>1, Continues
<1> QED
  BY <1>6, <1>7

\* The file stack ends the finalizer.
LEMMA CloseFileKeeps == ASSUME PipelineInv, NEW f \in BOOLEAN, CloseFile(f) PROVE PipelineInv'
<1>1. /\ step = "file" /\ UNCHANGED <<app, mode, pos, stamped>>
      /\ passes' = [passes EXCEPT ![Finalized] = Mark(passes[Finalized], "file", f)]
  BY DEF CloseFile
<1>2. step \in InHandler \cup Finalizing /\ step \in Finalizing
  BY <1>1 DEF InHandler, Finalizing
<1>3. /\ Finalized \in 1..Len(passes) /\ passes[Finalized] \in Pass
      /\ app.route = "delegated" /\ AtStep(passes[Finalized], "file")
      /\ pos = 0 => pend # <<>>
      /\ pos # 0 /\ stamped => passes[Finalized].how = "rve"
  BY <1>1, <1>2, WorksOn DEF PipelineInv, PipelineControl
<1> DEFINE q == Mark(passes[Finalized], "file", f)
<1>4. q \in Pass /\ Nests(q) /\ q.how = passes[Finalized].how /\ Closed(q)
  BY <1>3, MarkedClean
<1>5. Rewrites(Finalized, q)
  BY <1>1, <1>3, <1>4, Updated, Zenon
<1> HIDE DEF q
<1>6. /\ pos = 0 => pend' = Tail(pend) /\ step' = "drain"
      /\ pos # 0 => pend' = pend /\ step' = "wrap"
      /\ ret' \in {ret, "tear"}
  BY <1>1, <1>3 DEF CloseFile, draining
<1>7. ret' = "susp" => ret = "susp"
  BY <1>6
<1>8. stamped /\ pos # 0 => q.how # "ok"
  BY <1>3, <1>4
<1> QED
  BY <1>1, <1>2, <1>3, <1>4, <1>5, <1>6, <1>7, <1>8, Finishes

-----------------------------------------------------------------------------
(* The invariant, and what follows from it                                 *)

\* A request that has not entered the chain.
LEMMA PipelineInitInv == PipelineInit => PipelineInv
<1> SUFFICES ASSUME PipelineInit PROVE PipelineInv
  OBVIOUS
<1>1. /\ app.mws \in Seq(Middleware) /\ app.route \in {"delegated", "adapter"}
      /\ app.faulty \in BOOLEAN
  BY PipelineAssumption, Zenon DEF PipelineInit, Middleware
<1>2. depth \in Nat
  BY <1>1 DEF depth
<1>3. PipelineTypeOK
  <2>1. <<>> \in Seq(Pass) /\ <<>> \in Seq(Nat)
    OBVIOUS
  <2> QED
    BY <1>1, <2>1, Zenon DEF PipelineInit, PipelineTypeOK, InHandler, Finalizing, InChain
<1>4. PassesInv /\ PendInv
  BY DEF PipelineInit, PassesInv, PendInv, Holds, Distinct, InHandler, Finalizing
<1>5. PipelineControl
  BY <1>2 DEF PipelineInit, PipelineControl, InHandler, Finalizing
<1>6. Reruns
  BY <1>2 DEF PipelineInit, Reruns
<1> QED
  BY <1>3, <1>4, <1>5, <1>6 DEF PipelineInv

\* One step per action.
LEMMA PipelineStep == PipelineInv /\ [PipelineNext]_pipelineVars => PipelineInv'
<1> SUFFICES ASSUME PipelineInv, [PipelineNext]_pipelineVars PROVE PipelineInv'
  BY Zenon
<1>1. CASE UNCHANGED pipelineVars
  <2> USE <1>1 DEF pipelineVars
  <2>1. PipelineTypeOK'
    BY ZenonT(40) DEF PipelineInv, PipelineTypeOK
  <2>2. PassesInv' /\ PendInv'
    BY ZenonT(40) DEF PipelineInv, PassesInv, PendInv, Busy, Owes, Finalized, draining, cur
  <2>3. PipelineControl'
    BY ZenonT(40) DEF PipelineInv, PipelineControl, cur, depth
  <2>4. Reruns'
    BY ZenonT(40) DEF PipelineInv, Reruns, HasYieldOut, HasMute
  <2> QED
    BY <2>1, <2>2, <2>3, <2>4 DEF PipelineInv
<1>2. \A f \in Fails : f \in BOOLEAN
  BY Zenon DEF Fails, PipelineInv, PipelineTypeOK
<1>3. ASSUME NEW f \in Fails, RunBackground(f) \/ CloseInner(f) PROVE PipelineInv'
  BY <1>2, <1>3, FinalizeStepKeeps DEF RunBackground, CloseInner
<1> QED
  BY <1>1, <1>2, <1>3, EnterMwKeeps, LeaveMwKeeps, ChainReturnsKeeps, CallHandlerKeeps,
     RunAdapterKeeps, RunDelegatedKeeps, ValidationHandlerRaisesKeeps, ThrowIntoKeeps,
     SettleKeeps, DrainKeeps, FunctionExitKeeps, CloseFileKeeps, LeaveHandlerKeeps, Zenon
  DEF PipelineNext

\* The invariant holds in every reachable state.
LEMMA PipelineInductive == PipelineSpec => []PipelineInv
  BY PipelineInitInv, PipelineStep, PTL DEF PipelineSpec

\* A finished request has no busy and no deferred pass.
LEMMA InvCloses == PipelineInv => StacksCloseInOrder
<1> SUFFICES ASSUME PipelineInv, NEW p \in DOMAIN passes
             PROVE  /\ \A s \in Stacks \cup {"bg"} : passes[p][s] <= 1
                    /\ passes[p].bg + passes[p].inner > 0 => passes[p].fn = 1
                    /\ passes[p].inner = 1 /\ passes[p].how = "ok" => passes[p].bg = 1
                    /\ passes[p].file = 1 => passes[p].inner = 1
                    /\ passes[p].fault => passes[p].how \in {"ok", "rve"}
                    /\ finished /\ app.route = "delegated" /\ ~passes[p].fault =>
                         /\ \A s \in Stacks : passes[p][s] = 1
                         /\ passes[p].bg = IF passes[p].how = "ok" THEN 1 ELSE 0
  BY DEF StacksCloseInOrder
<1>1. p \in 1..Len(passes) /\ passes[p] \in Pass
  BY DEF PipelineInv, PipelineTypeOK
<1>2. PassOK(app.route, passes[p], Busy(p), Holds(pend, p), Owes, step)
  BY <1>1 DEF PipelineInv, PassesInv
<1>3. Nests(passes[p])
  BY <1>2 DEF PassOK
<1>4. \A s \in Stacks \cup {"bg"} : passes[p][s] <= 1
  BY <1>3 DEF Nests, Stacks
<1>5. ASSUME finished, app.route = "delegated", ~passes[p].fault PROVE Closed(passes[p])
  <2>1. ~Busy(p)
    BY <1>5 DEF finished, Busy, InHandler, Finalizing
  <2>2. ~Holds(pend, p)
    BY <1>5, SMTT(30) DEF finished, PipelineInv, PendInv, Holds
  <2> QED
    BY <1>2, <1>5, <2>1, <2>2 DEF PassOK
<1> QED
  BY <1>3, <1>4, <1>5 DEF Nests, Closed, Stacks

\* A pass that still owes its exits has not run them.
LEMMA InvOpenScope == PipelineInv => MiddlewareSeesOpenScope
<1> SUFFICES ASSUME PipelineInv, step \in {"out", "chain"}, stamped, NEW p \in DOMAIN passes,
                    passes[p].how = "ok", app.route = "delegated", ~passes[p].fault
             PROVE  passes[p].inner = 0
  BY DEF MiddlewareSeesOpenScope
<1>1. p \in 1..Len(passes)
  BY DEF PipelineInv, PipelineTypeOK
<1>2. PassOK(app.route, passes[p], Busy(p), Holds(pend, p), Owes, step)
  BY <1>1 DEF PipelineInv, PassesInv
<1>3. ~Busy(p)
  BY DEF Busy, InHandler, Finalizing
<1>4. Owes
  BY DEF Owes, PipelineInv, PipelineControl
<1> QED
  BY <1>2, <1>3, <1>4 DEF PassOK, AtStep

\* Whatever the endpoint, the middleware and the exits do: nothing is closed
\* twice, the exits nest, and once the request is over every pass has closed
\* its three stacks once and run the background task of a successful response
\* once, unless a step raised after the response, or the answer to a validation
\* error, was made. For chains of any length.
THEOREM ClosesStacksInOrder == PipelineSpec => []StacksCloseInOrder
  BY PipelineInductive, InvCloses, PTL

\* Middleware that runs after its call_next finds the request-scoped
\* dependencies of a successful handler open, on the first drive and on the
\* fallback, for chains of any length.
THEOREM ScopeStaysOpen == PipelineSpec => []MiddlewareSeesOpenScope
  BY PipelineInductive, InvOpenScope, PTL

\* A handler that finished is called again only because a middleware suspended
\* after its call_next, and then once, on the slow drive, or because the ASGI
\* class of a shim forwarded no response. For chains of any length.
THEOREM RerunsOnlyByMiddleware == PipelineSpec => []RerunOnlyByMiddleware
<1>1. PipelineInv => RerunOnlyByMiddleware
  <2> SUFFICES ASSUME PipelineInv, cur > 1, ~HasMute
               PROVE  cur = 2 /\ mode = "slow" /\ HasYieldOut
    BY DEF RerunOnlyByMiddleware, HasYieldOut, HasMute
  <2>1. cur \in Nat /\ cur <= 2 /\ (mode = "fast" => cur <= 1) /\ (cur = 2 => HasYieldOut)
    BY Depth DEF PipelineInv, Reruns, cur
  <2>2. mode \in {"fast", "slow"}
    BY DEF PipelineInv, PipelineTypeOK
  <2> QED
    BY <2>1, <2>2
<1> QED
  BY <1>1, PipelineInductive, PTL
=============================================================================
