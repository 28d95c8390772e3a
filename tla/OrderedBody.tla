---------------------------- MODULE OrderedBody ----------------------------
(***************************************************************************)
(* What a streaming response promises, independent of how its generator is *)
(* driven: the client reads a prefix of what the generator yielded, in     *)
(* order, and the body ends only when the generator is finished, every     *)
(* chunk was read and an exception of the generator is on record.          *)
(***************************************************************************)
EXTENDS Integers, Sequences

CONSTANTS Streams

VARIABLE body

Init ==
    body = [s \in Streams |->
              [n |-> 0, got |-> <<>>, source |-> "live", logged |-> FALSE,
               reader |-> "open"]]

Yield(s) ==
    /\ body[s].source = "live"
    /\ body' = [body EXCEPT ![s].n = @ + 1]

Finish(s) ==
    /\ body[s].source = "live"
    /\ \E how \in {"ended", "raised", "closed"} :
          /\ how = "closed" => body[s].reader = "gone"
          /\ body' = [body EXCEPT ![s].source = how]

Log(s) ==
    /\ body[s].source = "raised"
    /\ body' = [body EXCEPT ![s].logged = TRUE]

Read(s) ==
    /\ body[s].reader = "open"
    /\ \E m \in (Len(body[s].got) + 1)..body[s].n :
          body' = [body EXCEPT ![s].got = [i \in 1..m |-> i]]

Eof(s) ==
    /\ body[s].reader = "open"
    /\ body[s].source \in {"ended", "raised"}
    /\ body[s].source = "raised" => body[s].logged
    /\ Len(body[s].got) = body[s].n
    /\ body' = [body EXCEPT ![s].reader = "eof"]

Leave(s) ==
    /\ body[s].reader = "open"
    /\ body' = [body EXCEPT ![s].reader = "gone"]

Next ==
    \E s \in Streams :
        Yield(s) \/ Finish(s) \/ Log(s) \/ Read(s) \/ Eof(s) \/ Leave(s)

Spec == Init /\ [][Next]_body
=============================================================================
