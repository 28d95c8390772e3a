----------------------------- MODULE StreamBody -----------------------------
(***************************************************************************)
(* Streaming response bodies: create_streaming_response and its drivers    *)
(* (src/streaming.rs) with _drive_stream, _spawn_stream_task and           *)
(* _drive_stream_inline (python/fastapi_turbo/responses.py).               *)
(*                                                                         *)
(* Each stream is one response whose generator is stepped by exactly one   *)
(* driver at a time and whose chunks cross a bounded mpsc channel to the   *)
(* HTTP body.  The streams of a model share one code object, hence one     *)
(* run-time verdict (coop_map).  Actors: the request threads that run      *)
(* create_streaming_response, blocking threads, the worker loop (one task  *)
(* at a time), the tokio tasks that wait for channel capacity, and the     *)
(* consumers that poll the bodies.                                         *)
(***************************************************************************)
EXTENDS Integers, Sequences

CONSTANTS
    Streams,
    Kinds,        \* the kinds of the streams that a run may begin with
    Cap,          \* capacity of the body channel (32 in the code)
    FairBurst,    \* chunks between two fairness yields (64 in the code)
    MaxChunks,    \* bound: the generator of s yields at most MaxChunks[s]
    Trampoline,   \* FASTAPI_TURBO_STREAM_TRAMPOLINE is not 0
    LoopMayRefuse, \* call_soon_threadsafe may fail (the loop is closed)
    NoStream

ASSUME StreamAssumption ==
    /\ Kinds \subseteq [Streams -> {"plain", "await"}]
    /\ Cap \in Nat \ {0} /\ FairBurst \in Nat \ {0} /\ MaxChunks \in [Streams -> Nat]
    /\ Trampoline \in BOOLEAN /\ LoopMayRefuse \in BOOLEAN
    /\ NoStream \notin Streams

VARIABLES
    st,       \* st[s]: the record of stream s, see Idle
    verdict,  \* coop_map's entry for the code object
    onLoop    \* the stream whose driver task the worker loop is running

vars == <<st, verdict, onLoop>>

(***************************************************************************)
(* where: the driver of the stream.  "drain" is the inline budget-drain    *)
(* and "tramp" the trampoline, both on the request thread inside create;   *)
(* "thread" is a blocking thread, "queued" a StreamJob handed to           *)
(* call_soon_threadsafe, "loop" its task on the worker loop.               *)
(* ph: what that driver does next: "step" the generator, "push" a chunk,   *)
(* "await", wait on a "full" channel, "yield" for fairness, or end.        *)
(***************************************************************************)
Idle(k) ==
    [kind     |-> k,          \* "plain" (sync, or proven await-free) or "await"
     req      |-> "idle",     \* the request thread: "create", then "returned"
     where    |-> "none",
     ph       |-> "done",
     gen      |-> "live",     \* then "ended", "raised" or "closed"
     n        |-> 0,          \* chunks yielded so far
     chan     |-> <<>>,       \* the body channel
     senders  |-> {"create"}, \* who holds a clone of its sender
     rx       |-> "held",     \* then "polled" or "dropped"
     fut      |-> "none",     \* the capacity future
     got      |-> <<>>,       \* what the client has read
     eof      |-> FALSE,
     captured |-> FALSE,      \* the error is in _captured_server_exceptions
     eager    |-> FALSE,      \* in the eager first step on the loop
     turn     |-> 0]          \* chunks pushed in this turn on the loop

Init ==
    /\ \E kind \in Kinds : st = [s \in Streams |-> Idle(kind[s])]
    /\ verdict = "none"
    /\ onLoop = NoStream

-----------------------------------------------------------------------------
(***************************************************************************)
(* record_coop_verdict: the first writer wins; the only overwrite is the   *)
(* trampoline's demotion.                                                  *)
(***************************************************************************)
Record(v, allowDemote) ==
    IF verdict = "none" \/ (allowDemote /\ v = "awaiting") THEN v ELSE verdict

(* The driver task of s leaves the worker loop, and _spawn_stream_task     *)
(* returns when this was the eager first step: StreamJob records cleanly.  *)
LeaveLoop(s, clean) ==
    /\ onLoop' = NoStream
    /\ verdict' = IF st[s].eager
                  THEN Record(IF clean THEN "cooperative" ELSE "awaiting", FALSE)
                  ELSE verdict

(* run_stream_trampoline: a driver task that comes back unfinished was     *)
(* mispredicted; its code object is demoted, then run_until_complete goes  *)
(* on with it.                                                             *)
Mispredict == verdict' = Record("awaiting", TRUE) /\ UNCHANGED onLoop

(* The driver suspends: on the loop it gives way, the trampoline sees an   *)
(* unfinished task, a dedicated thread just blocks.                        *)
Suspend(s) ==
    CASE st[s].where = "loop"  -> LeaveLoop(s, FALSE)
      [] st[s].where = "tramp" -> Mispredict
      [] OTHER                 -> UNCHANGED <<verdict, onLoop>>

(* The driver of s can take a step now.                                    *)
Running(s) ==
    /\ st[s].where \in {"drain", "tramp", "thread", "loop"}
    /\ st[s].where = "loop" => onLoop = s

(* A suspended driver may be resumed now: on the loop, when it is free.    *)
CanResume(s) == st[s].where = "loop" => onLoop = NoStream
Resumed(s)   == onLoop' = IF st[s].where = "loop" THEN s ELSE onLoop

HasRoom(s) == Len(st[s].chan) < Cap

-----------------------------------------------------------------------------
(* The request thread.                                                     *)

(* schedule_stream_on_worker_loop: a StreamJob queued on the worker loop,  *)
(* or a dedicated thread when call_soon_threadsafe fails.                  *)
Scheduled == {"queued"} \cup (IF LoopMayRefuse THEN {"thread"} ELSE {})

(***************************************************************************)
(* create_streaming_response up to the choice of the driver.  Sync and     *)
(* proven await-free generators are drained inline; an await-stream takes  *)
(* the trampoline when its code object is known to be cooperative, the     *)
(* worker loop otherwise, and a dedicated thread when the enqueue fails.   *)
(***************************************************************************)
Create(s) ==
    /\ st[s].req = "idle"
    /\ \/ /\ st[s].kind = "plain"
          /\ st' = [st EXCEPT ![s].req = "create", ![s].where = "drain",
                              ![s].ph = "step"]
       \/ /\ st[s].kind = "await"
          /\ Trampoline /\ verdict = "cooperative"
          /\ st' = [st EXCEPT ![s].req = "create", ![s].where = "tramp",
                              ![s].ph = "step",
                              ![s].senders = @ \cup {"driver"}]
       \/ /\ st[s].kind = "await"
          /\ ~(Trampoline /\ verdict = "cooperative")
          /\ \E w \in Scheduled :
                st' = [st EXCEPT ![s].req = "create", ![s].where = w,
                                 ![s].ph = "step",
                                 ![s].senders = @ \cup {"driver"}]
    /\ UNCHANGED <<verdict, onLoop>>

(* The inline drain stops early: the channel is full, or the 100 us budget *)
(* is spent after a chunk.  The rest goes to a blocking thread.            *)
Leftover(s) ==
    /\ st[s].where = "drain"
    /\ st[s].ph = "step"
    /\ ~HasRoom(s) \/ st[s].n > 0
    /\ st' = [st EXCEPT ![s].where = "thread", ![s].senders = @ \cup {"driver"}]
    /\ UNCHANGED <<verdict, onLoop>>

(* create_streaming_response returns the response around the receiver; its *)
(* own Sender goes.  A driver on the request thread has finished by then.  *)
Build(s) ==
    /\ st[s].req = "create"
    /\ st[s].where \in {"drain", "tramp"} => st[s].ph = "done"
    /\ st' = [st EXCEPT ![s].req = "returned", ![s].rx = "polled",
                        ![s].senders = @ \ {"create"}]
    /\ UNCHANGED <<verdict, onLoop>>

-----------------------------------------------------------------------------
(* The drivers.                                                            *)

(* StreamJob: the loop starts the driver task, eagerly.                    *)
StartJob(s) ==
    /\ st[s].where = "queued"
    /\ onLoop = NoStream
    /\ onLoop' = s
    /\ st' = [st EXCEPT ![s].where = "loop", ![s].eager = TRUE, ![s].turn = 0]
    /\ UNCHANGED verdict

(* The inline drain steps the generator only when the channel has room.    *)
MayStep(s) ==
    /\ Running(s)
    /\ st[s].ph = "step"
    /\ st[s].where = "drain" => HasRoom(s)

(***************************************************************************)
(* One __next__ / __anext__: the generator yields a chunk, ends, raises,   *)
(* or (an await-stream only) suspends on a real await.  Cooperative        *)
(* checkpoints are resumed inline by _step_anext and are no step here.     *)
(***************************************************************************)
Yields(s) ==
    /\ MayStep(s)
    /\ st[s].n < MaxChunks[s]
    /\ st' = [st EXCEPT ![s].n = @ + 1, ![s].ph = "push"]
    /\ UNCHANGED <<verdict, onLoop>>

Ends(s) ==
    /\ MayStep(s)
    /\ st' = [st EXCEPT ![s].gen = "ended", ![s].ph = "close"]
    /\ UNCHANGED <<verdict, onLoop>>

(* Mutant: a mid-stream raise just ends the stream.                        *)
RaisesUncaptured(s) ==
    /\ MayStep(s)
    /\ st' = [st EXCEPT ![s].gen = "raised", ![s].ph = "close"]
    /\ UNCHANGED <<verdict, onLoop>>

Raises(s) ==
    /\ MayStep(s)
    /\ st' = [st EXCEPT ![s].gen = "raised", ![s].ph = "capture"]
    /\ UNCHANGED <<verdict, onLoop>>

Awaits(s) ==
    /\ MayStep(s)
    /\ st[s].kind = "await"
    /\ st' = [st EXCEPT ![s].ph = "await", ![s].eager = FALSE]
    /\ Suspend(s)

(* What the generator awaited is ready: it is stepped again.               *)
AwaitDone(s) ==
    /\ st[s].ph = "await"
    /\ CanResume(s)
    /\ st' = [st EXCEPT ![s].ph = "step", ![s].turn = 0]
    /\ Resumed(s)
    /\ UNCHANGED verdict

(* Mutant: the fairness yield comes one chunk late.                        *)
LateFairnessYield(s) == st[s].where = "loop" /\ st[s].n % (FairBurst + 1) = 0

(* After a chunk the loop driver yields once per FairBurst chunks.         *)
FairnessYield(s) == st[s].where = "loop" /\ st[s].n % FairBurst = 0

(***************************************************************************)
(* push(chunk): inline drain and LoopChunkPush use try_send, a blocking    *)
(* thread blocking_send.                                                   *)
(***************************************************************************)
PushSent(s) ==
    /\ Running(s)
    /\ st[s].ph = "push"
    /\ st[s].rx # "dropped"
    /\ HasRoom(s)
    /\ st' = [st EXCEPT ![s].chan = Append(@, st[s].n),
                        ![s].turn = @ + 1,
                        ![s].ph = IF FairnessYield(s) THEN "yield" ELSE "step",
                        ![s].eager = @ /\ ~FairnessYield(s)]
    /\ IF FairnessYield(s) THEN Suspend(s) ELSE UNCHANGED <<verdict, onLoop>>

(* The receiver is gone: break out of the loop, and close the generator.   *)
PushClosed(s) ==
    /\ Running(s)
    /\ st[s].ph = "push"
    /\ st[s].rx = "dropped"
    /\ st' = [st EXCEPT ![s].ph = "closing"]
    /\ UNCHANGED <<verdict, onLoop>>

(* LoopChunkPush on a full channel: spawn a waiter with the chunk and hand *)
(* the driver a Future.                                                    *)
PushFull(s) ==
    /\ Running(s)
    /\ st[s].where \in {"loop", "tramp"}
    /\ st[s].ph = "push"
    /\ st[s].rx # "dropped"
    /\ ~HasRoom(s)
    /\ st' = [st EXCEPT ![s].ph = "full", ![s].fut = "pending",
                        ![s].senders = @ \cup {"waiter"}, ![s].eager = FALSE]
    /\ Suspend(s)

(* Mutant: a waiter whose receiver is gone leaves its Future unresolved.   *)
WaiterLeavesFuture(s) ==
    /\ st[s].fut = "pending"
    /\ st[s].rx # "dropped"
    /\ HasRoom(s)
    /\ st' = [st EXCEPT ![s].chan = Append(@, st[s].n),
                        ![s].fut = "true", ![s].senders = @ \ {"waiter"}]
    /\ UNCHANGED <<verdict, onLoop>>

(* The waiter: reserve() gives a permit and the chunk is sent, or the      *)
(* receiver went away.  Either way the Future is resolved.                 *)
Waiter(s) ==
    /\ st[s].fut = "pending"
    /\ \/ /\ st[s].rx # "dropped"
          /\ HasRoom(s)
          /\ st' = [st EXCEPT ![s].chan = Append(@, st[s].n),
                              ![s].fut = "true", ![s].senders = @ \ {"waiter"}]
       \/ /\ st[s].rx = "dropped"
          /\ st' = [st EXCEPT ![s].fut = "false", ![s].senders = @ \ {"waiter"}]
    /\ UNCHANGED <<verdict, onLoop>>

(* The driver is resumed with the Future's value; the fairness yield that  *)
(* may be due after the chunk gives the loop away again at once.           *)
ResumeFull(s) ==
    /\ st[s].ph = "full"
    /\ st[s].fut \in {"true", "false"}
    /\ CanResume(s)
    /\ IF st[s].fut = "true" /\ FairnessYield(s)
         THEN /\ st' = [st EXCEPT ![s].ph = "yield", ![s].fut = "none"]
              /\ UNCHANGED onLoop
         ELSE /\ st' = [st EXCEPT
                          ![s].ph = IF st[s].fut = "true" THEN "step"
                                                          ELSE "closing",
                          ![s].fut = "none", ![s].turn = 0]
              /\ Resumed(s)
    /\ UNCHANGED verdict

(* The loop comes back to a driver that yielded for fairness.              *)
ResumeYield(s) ==
    /\ st[s].ph = "yield"
    /\ CanResume(s)
    /\ Resumed(s)
    /\ st' = [st EXCEPT ![s].ph = "step", ![s].turn = 0]
    /\ UNCHANGED verdict

(* aclose() / close() after a disconnect throws GeneratorExit.             *)
CloseGenerator(s) ==
    /\ Running(s)
    /\ st[s].ph = "closing"
    /\ st' = [st EXCEPT ![s].gen = "closed", ![s].ph = "close"]
    /\ UNCHANGED <<verdict, onLoop>>

(* A mid-stream raise goes onto _captured_server_exceptions first.         *)
Capture(s) ==
    /\ Running(s)
    /\ st[s].ph = "capture"
    /\ st' = [st EXCEPT ![s].captured = TRUE, ![s].ph = "close"]
    /\ UNCHANGED <<verdict, onLoop>>

(* Then the driver lets go of its Sender, and of the loop.                 *)
DropSender(s) ==
    /\ Running(s)
    /\ st[s].ph = "close"
    /\ st' = [st EXCEPT ![s].senders = @ \ {"driver"}, ![s].ph = "done",
                        ![s].eager = FALSE]
    /\ IF st[s].where = "loop" THEN LeaveLoop(s, st[s].gen # "raised")
                               ELSE UNCHANGED <<verdict, onLoop>>

-----------------------------------------------------------------------------
(* The consumer: the HTTP body, polled by the connection.                  *)

(* CoalescingReceiver: one poll hands over a non-empty prefix of what is   *)
(* queued (how long depends on the chunks' sizes).                         *)
Poll(s) ==
    /\ st[s].rx = "polled"
    /\ \E k \in 1..Len(st[s].chan) :
          st' = [st EXCEPT ![s].got = @ \o SubSeq(st[s].chan, 1, k),
                           ![s].chan = SubSeq(@, k + 1, Len(@))]
    /\ UNCHANGED <<verdict, onLoop>>

(* Every Sender is gone and the channel is empty: end of body.             *)
PollEof(s) ==
    /\ st[s].rx = "polled"
    /\ ~st[s].eof
    /\ st[s].chan = <<>>
    /\ st[s].senders = {}
    /\ st' = [st EXCEPT ![s].eof = TRUE]
    /\ UNCHANGED <<verdict, onLoop>>

(* The client goes away, or the door drops the body.                       *)
Disconnect(s) ==
    /\ st[s].rx = "polled"
    /\ ~st[s].eof
    /\ st' = [st EXCEPT ![s].rx = "dropped", ![s].chan = <<>>]
    /\ UNCHANGED <<verdict, onLoop>>

Request(s)  == Create(s) \/ Leftover(s) \/ Build(s)
GenStep(s)  == Yields(s) \/ Ends(s) \/ Raises(s) \/ Awaits(s)
Driver(s)   == \/ StartJob(s) \/ PushSent(s) \/ PushClosed(s) \/ PushFull(s)
               \/ ResumeFull(s) \/ ResumeYield(s) \/ CloseGenerator(s)
               \/ Capture(s) \/ DropSender(s)
Consumer(s) == Poll(s) \/ PollEof(s) \/ Disconnect(s)

Next ==
    \E s \in Streams :
        \/ Request(s) \/ GenStep(s) \/ AwaitDone(s) \/ Driver(s) \/ Waiter(s)
        \/ Consumer(s)

Spec == Init /\ [][Next]_vars

(***************************************************************************)
(* Fairness.  Threads and tokio tasks are scheduled, and the worker loop   *)
(* resumes ready tasks.  A generator that is stepped again and again does  *)
(* not await for ever between two chunks (strong fairness), and what it    *)
(* awaits becomes ready.  The client reads the body or goes away.          *)
(***************************************************************************)
Fairness ==
    \A s \in Streams :
        /\ WF_vars(Request(s))
        /\ SF_vars(Yields(s) \/ Ends(s) \/ Raises(s))
        /\ WF_vars(AwaitDone(s))
        /\ WF_vars(Driver(s))
        /\ WF_vars(Waiter(s))
        /\ WF_vars(Poll(s) \/ PollEof(s))

FairSpec == Spec /\ Fairness

-----------------------------------------------------------------------------
(***************************************************************************)
(* What the drivers promise the response: an ordered, complete body.       *)
(***************************************************************************)
Reader(r) == IF r.eof THEN "eof" ELSE IF r.rx = "dropped" THEN "gone" ELSE "open"

View(r) ==
    [n |-> r.n, got |-> r.got, source |-> r.gen, logged |-> r.captured,
     reader |-> Reader(r)]

Body == [s \in Streams |-> View(st[s])]

Promise == INSTANCE OrderedBody WITH body <- Body

(***************************************************************************)
(* Whichever driver or hand-over between drivers a stream takes, the       *)
(* client reads the generator's chunks in order and without gaps; it sees  *)
(* end-of-body only after every chunk and, if the generator raised, after  *)
(* the exception was captured; GeneratorExit is thrown only after the      *)
(* client has gone.                                                        *)
(***************************************************************************)
KeepsPromise == Promise!Spec

(***************************************************************************)
(* The shared worker loop is never held by one stream for more than        *)
(* FairBurst chunks, however cooperative its generator is.                 *)
(***************************************************************************)
LoopBurstBounded ==
    \A s \in Streams : st[s].where = "loop" => st[s].turn <= FairBurst

(***************************************************************************)
(* A stream that the trampoline began is finished there, mispredicted or   *)
(* not: run_until_complete "finishes the stream correctly right there".    *)
(* A full channel breaks it: the request thread waits for capacity inside  *)
(* create_streaming_response, before there is a body to be polled.         *)
(***************************************************************************)
TrampolineFinishes ==
    \A s \in Streams : st[s].where = "tramp" ~> st[s].ph = "done"

(***************************************************************************)
(* No stream is left behind: a response that was built is read to its end, *)
(* or, when the client goes away at any point (mid-push, mid-await, parked *)
(* on a full channel), its generator comes to its own end or is closed.    *)
(***************************************************************************)
StreamSettles ==
    \A s \in Streams :
        st[s].req = "returned" ~>
            st[s].eof \/ (st[s].rx = "dropped" /\ st[s].gen # "live")
=============================================================================
