---------------------------- MODULE AsyncWorker ----------------------------
(***************************************************************************)
(* The submit hot path of python/fastapi_turbo/_async_worker.py: a caller  *)
(* thread hands a coroutine to the worker event loop and parks on a pooled *)
(* completion gate (SubmitGate of src/handler_bridge.rs) until the loop    *)
(* has finished the coroutine, or until its timeout elapses.               *)
(*                                                                         *)
(* Two kinds of process run concurrently: the caller of each submit        *)
(* (pc[s]) and the single loop thread (kicking, callbacks, co).  A submit  *)
(* is modelled with its own identity, so a thread that submits twice is    *)
(* two members of Submits whose steps happen one after the other.          *)
(*                                                                         *)
(* The loop's ready queue is a set of pending callbacks: asyncio runs them *)
(* in FIFO order, and the model allows every order, because the code       *)
(* claims its result does not depend on which callback runs first.         *)
(***************************************************************************)
EXTENDS FiniteSets, Integers

CONSTANTS
    Submits,    \* the submit_fast calls of a run
    Timed,      \* the submits that pass a timeout
    Gates,      \* identities of gate objects (SubmitGate or threading.Event)
    Warm,       \* the gates init() put into the pool
    PoolCap,    \* _release_event keeps at most this many gates
    NoGate, NoSubmit

ASSUME SubmitAssumption == Timed \subseteq Submits /\ NoSubmit \notin Submits
ASSUME GateAssumption   == Warm \subseteq Gates /\ NoGate \notin Gates
ASSUME PoolAssumption   == PoolCap \in Nat

VARIABLES
    pool,       \* _event_pool
    isSet,      \* isSet[g]: the Mutex<bool> inside gate g
    pc,         \* pc[s]: where the caller of submit s is
    gate,       \* gate[s]: the gate that submit acquired
    cancelReq,  \* box[3] of the submit
    task,       \* box[2] of the submit is a task
    co,         \* co[s]: what became of the submitted coroutine
    cancelling, \* task.cancel() was called, CancelledError not yet thrown
    callbacks,  \* callbacks handed to call_soon_threadsafe and not yet run
    kicking     \* the submit whose _kickoff is between its two halves

vars == <<pool, isSet, pc, gate, cancelReq, task, co, cancelling, callbacks,
          kicking>>

(***************************************************************************)
(* co: "none" before the hand-over, "queued" once the loop has it,         *)
(* "eager" while the first step runs inside create_task, "suspended" at a  *)
(* real await; the rest are final.  "closed" was never started.            *)
(***************************************************************************)
Unfinished == {"queued", "eager", "suspended"}
Finished   == {"closed", "result", "raised", "cancelled"}
Parked     == {"waiting", "timedout", "pooling"}
Outcomes   == {"returned", "raised", "timeout", "interrupted"}

Callbacks == {"kickoff", "cancel"} \X Submits

(* The types: a pool holds gates, callbacks belong to submits.             *)
TypeOK ==
    /\ pool \subseteq Gates
    /\ isSet \in [Gates -> BOOLEAN]
    /\ pc \in [Submits -> {"start"} \cup Parked \cup Outcomes]
    /\ gate \in [Submits -> Gates \cup {NoGate}]
    /\ cancelReq \in [Submits -> BOOLEAN]
    /\ task \in [Submits -> BOOLEAN]
    /\ co \in [Submits -> {"none"} \cup Unfinished \cup Finished]
    /\ cancelling \in [Submits -> BOOLEAN]
    /\ callbacks \subseteq Callbacks
    /\ kicking \in Submits \cup {NoSubmit}

Init ==
    /\ pool = Warm
    /\ isSet = [g \in Gates |-> FALSE]
    /\ pc = [s \in Submits |-> "start"]
    /\ gate = [s \in Submits |-> NoGate]
    /\ cancelReq = [s \in Submits |-> FALSE]
    /\ task = [s \in Submits |-> FALSE]
    /\ co = [s \in Submits |-> "none"]
    /\ cancelling = [s \in Submits |-> FALSE]
    /\ callbacks = {}
    /\ kicking = NoSubmit

(***************************************************************************)
(* A gate is referenced while its submit has not left submit_fast, and     *)
(* while the loop still holds a coroutine that will set it.                *)
(***************************************************************************)
Live(s) == pc[s] \in Parked \/ co[s] \in Unfinished

(***************************************************************************)
(* A gate that nobody references: a freshly allocated _Gate() may take its *)
(* identity.                                                               *)
(***************************************************************************)
Unreferenced(g) == g \notin pool /\ \A s \in Submits : Live(s) => gate[s] # g

(* Mutant: a pooled gate is handed out without ev.clear().                 *)
AcquireEventUncleared(g) ==
    /\ \/ g \in pool
       \/ pool = {} /\ Unreferenced(g)
    /\ pool' = pool \ {g}
    /\ UNCHANGED isSet

(***************************************************************************)
(* _acquire_event: pop a pooled gate and clear it; allocate on a miss.     *)
(* AcquireEvent(g) holds when g is the gate that comes back.               *)
(***************************************************************************)
AcquireEvent(g) ==
    /\ \/ g \in pool
       \/ pool = {} /\ Unreferenced(g)
    /\ pool' = pool \ {g}
    /\ isSet' = [isSet EXCEPT ![g] = FALSE]

(***************************************************************************)
(* _release_event: keep the gate unless the pool is at its cap.  The       *)
(* length check and the append are two steps of the interpreter: another   *)
(* caller may run between them.                                            *)
(***************************************************************************)
PoolHasRoom == Cardinality(pool) < PoolCap

(***************************************************************************)
(* submit_fast up to the wait: acquire a gate, make the box, hand          *)
(* _kickoff to the loop.                                                   *)
(***************************************************************************)
SubmitFast(s) ==
    /\ pc[s] = "start"
    /\ \E g \in Gates :
          /\ AcquireEvent(g)
          /\ gate' = [gate EXCEPT ![s] = g]
    /\ pc' = [pc EXCEPT ![s] = "waiting"]
    /\ co' = [co EXCEPT ![s] = "queued"]
    /\ callbacks' = callbacks \cup {<<"kickoff", s>>}
    /\ UNCHANGED <<cancelReq, task, cancelling, kicking>>

(***************************************************************************)
(* ev.wait returned True: raise the exception in the box and drop the      *)
(* gate, or go on to release the gate and return the result.               *)
(***************************************************************************)
Wake(s) ==
    /\ pc[s] = "waiting"
    /\ isSet[gate[s]]
    /\ pc' = [pc EXCEPT ![s] =
                IF co[s] \in {"raised", "cancelled"} THEN "raised"
                ELSE IF PoolHasRoom THEN "pooling" ELSE "returned"]
    /\ UNCHANGED <<pool, isSet, gate, cancelReq, task, co, cancelling,
                   callbacks, kicking>>

(***************************************************************************)
(* The append of _release_event, and the return.  The gate goes back as it *)
(* is, still set.                                                          *)
(***************************************************************************)
ReleaseEvent(s) ==
    /\ pc[s] = "pooling"
    /\ pc' = [pc EXCEPT ![s] = "returned"]
    /\ pool' = pool \cup {gate[s]}
    /\ UNCHANGED <<isSet, gate, cancelReq, task, co, cancelling, callbacks,
                   kicking>>

(***************************************************************************)
(* ev.wait returned False: the gate was not set when the deadline passed.  *)
(* The loop may still complete the coroutine before the next step.         *)
(***************************************************************************)
WaitTimesOut(s) ==
    /\ s \in Timed
    /\ pc[s] = "waiting"
    /\ ~isSet[gate[s]]
    /\ pc' = [pc EXCEPT ![s] = "timedout"]
    /\ UNCHANGED <<pool, isSet, gate, cancelReq, task, co, cancelling,
                   callbacks, kicking>>

(* Mutant: the flag alone is raised, no cancel is scheduled.               *)
RequestCancelFlagOnly(s) ==
    /\ pc[s] = "timedout"
    /\ pc' = [pc EXCEPT ![s] = "timeout"]
    /\ cancelReq' = [cancelReq EXCEPT ![s] = TRUE]
    /\ UNCHANGED <<pool, isSet, gate, task, co, cancelling, callbacks, kicking>>

(***************************************************************************)
(* The rest of the timeout branch: raise the flag, schedule the cancel,    *)
(* raise TimeoutError.  The gate is dropped, never pooled.                 *)
(***************************************************************************)
RequestCancel(s) ==
    /\ pc[s] = "timedout"
    /\ pc' = [pc EXCEPT ![s] = "timeout"]
    /\ cancelReq' = [cancelReq EXCEPT ![s] = TRUE]
    /\ callbacks' = callbacks \cup {<<"cancel", s>>}
    /\ UNCHANGED <<pool, isSet, gate, task, co, cancelling, kicking>>

(***************************************************************************)
(* A signal handler raised inside ev.wait (check_signals between two 50 ms *)
(* slices, where the gate may just have been set): the exception leaves    *)
(* submit_fast, the gate is dropped, the coroutine is left to the loop.    *)
(***************************************************************************)
Interrupt(s) ==
    /\ pc[s] = "waiting"
    /\ pc' = [pc EXCEPT ![s] = "interrupted"]
    /\ UNCHANGED <<pool, isSet, gate, cancelReq, task, co, cancelling,
                   callbacks, kicking>>

-----------------------------------------------------------------------------
(* The loop thread.                                                        *)

(* Mutant: the gate is set after the await instead of in the finally.      *)
CompleteOnResult(s, how) ==
    /\ co' = [co EXCEPT ![s] = how]
    /\ isSet' = [isSet EXCEPT ![gate[s]] = @ \/ how = "result"]

(***************************************************************************)
(* _runner's try/except/finally: record how the coroutine ended, then set  *)
(* the gate.                                                               *)
(***************************************************************************)
Complete(s, how) ==
    /\ co' = [co EXCEPT ![s] = how]
    /\ isSet' = [isSet EXCEPT ![gate[s]] = TRUE]

(***************************************************************************)
(* _kickoff for a caller that already timed out: close the coroutine       *)
(* without starting it, and set the gate.                                  *)
(***************************************************************************)
KickoffClose(s) ==
    /\ kicking = NoSubmit
    /\ <<"kickoff", s>> \in callbacks
    /\ cancelReq[s]
    /\ callbacks' = callbacks \ {<<"kickoff", s>>}
    /\ Complete(s, "closed")
    /\ UNCHANGED <<pool, pc, gate, cancelReq, task, cancelling, kicking>>

(***************************************************************************)
(* _kickoff up to create_task: the eager factory starts the first step of  *)
(* the coroutine inside the call, while callers keep running.              *)
(***************************************************************************)
KickoffStart(s) ==
    /\ kicking = NoSubmit
    /\ <<"kickoff", s>> \in callbacks
    /\ ~cancelReq[s]
    /\ callbacks' = callbacks \ {<<"kickoff", s>>}
    /\ co' = [co EXCEPT ![s] = "eager"]
    /\ kicking' = s
    /\ UNCHANGED <<pool, isSet, pc, gate, cancelReq, task, cancelling>>

(***************************************************************************)
(* The first step ends: the coroutine finished, or reached a real await.   *)
(***************************************************************************)
EagerStep(s) ==
    /\ kicking = s
    /\ co[s] = "eager"
    /\ \/ /\ co' = [co EXCEPT ![s] = "suspended"]
          /\ UNCHANGED isSet
       \/ \E how \in {"result", "raised"} : Complete(s, how)
    /\ UNCHANGED <<pool, pc, gate, cancelReq, task, cancelling, callbacks,
                   kicking>>

(***************************************************************************)
(* The rest of _kickoff: publish the task in the box, and cancel it when   *)
(* the caller gave up while the first step ran.                            *)
(***************************************************************************)
KickoffEnd(s) ==
    /\ kicking = s
    /\ co[s] # "eager"
    /\ task' = [task EXCEPT ![s] = TRUE]
    /\ cancelling' = [cancelling EXCEPT
                        ![s] = cancelReq[s] /\ co[s] = "suspended"]
    /\ kicking' = NoSubmit
    /\ UNCHANGED <<pool, isSet, pc, gate, cancelReq, co, callbacks>>

(***************************************************************************)
(* _cancel_in_box: cancel the task if it exists and is not done.           *)
(***************************************************************************)
CancelInBox(s) ==
    /\ kicking = NoSubmit
    /\ <<"cancel", s>> \in callbacks
    /\ callbacks' = callbacks \ {<<"cancel", s>>}
    /\ cancelling' = [cancelling EXCEPT
                        ![s] = @ \/ (task[s] /\ co[s] = "suspended")]
    /\ UNCHANGED <<pool, isSet, pc, gate, cancelReq, task, co, kicking>>

(***************************************************************************)
(* A suspended coroutine gets the CancelledError its task owes it and ends *)
(* (the model's coroutines do not swallow it).                             *)
(***************************************************************************)
ThrowCancelled(s) ==
    /\ kicking = NoSubmit
    /\ co[s] = "suspended"
    /\ cancelling[s]
    /\ cancelling' = [cancelling EXCEPT ![s] = FALSE]
    /\ Complete(s, "cancelled")
    /\ UNCHANGED <<pool, pc, gate, cancelReq, task, callbacks, kicking>>

(***************************************************************************)
(* What a suspended coroutine awaited is ready: it runs to its end.  (An   *)
(* await that is followed by another one leaves the state as it is.)       *)
(***************************************************************************)
Resume(s) ==
    /\ kicking = NoSubmit
    /\ co[s] = "suspended"
    /\ ~cancelling[s]
    /\ \E how \in {"result", "raised"} : Complete(s, how)
    /\ UNCHANGED <<pool, pc, gate, cancelReq, task, cancelling, callbacks,
                   kicking>>

Caller(s) ==
    \/ SubmitFast(s) \/ Wake(s) \/ ReleaseEvent(s) \/ WaitTimesOut(s)
    \/ RequestCancel(s) \/ Interrupt(s)

LoopThread(s) ==
    \/ KickoffClose(s) \/ KickoffStart(s) \/ EagerStep(s) \/ KickoffEnd(s)
    \/ CancelInBox(s) \/ ThrowCancelled(s) \/ Resume(s)

Next == \E s \in Submits : Caller(s) \/ LoopThread(s)

Spec == Init /\ [][Next]_vars

(***************************************************************************)
(* Fairness.  The loop thread runs its callbacks and throws a requested    *)
(* CancelledError at the next step; the first, synchronous step of a       *)
(* coroutine ends; a woken caller thread is scheduled.  Nothing is assumed *)
(* of Resume: what a coroutine awaits may never become ready.              *)
(***************************************************************************)
Fairness ==
    \A s \in Submits :
        /\ WF_vars(KickoffClose(s) \/ KickoffStart(s))
        /\ WF_vars(EagerStep(s))
        /\ WF_vars(KickoffEnd(s))
        /\ WF_vars(CancelInBox(s))
        /\ WF_vars(ThrowCancelled(s))
        /\ WF_vars(Wake(s))
        /\ WF_vars(ReleaseEvent(s))
        /\ WF_vars(RequestCancel(s))

FairSpec == Spec /\ Fairness

-----------------------------------------------------------------------------
(***************************************************************************)
(* A gate serves one submit at a time: no gate that a caller or the loop   *)
(* may still use is in the pool, and two such submits never share a gate.  *)
(* It is what dropping, instead of pooling, the gate of a timed-out or     *)
(* failed submit in submit_fast is for.                                    *)
(***************************************************************************)
GateExclusive ==
    /\ \A s \in Submits : Live(s) => gate[s] \notin pool
    /\ \A s, t \in Submits : Live(s) /\ Live(t) /\ s # t => gate[s] # gate[t]

(***************************************************************************)
(* submit_fast never returns on somebody else's completion: it returns     *)
(* only after its own coroutine produced a result, and raises the box's    *)
(* exception only when its own coroutine raised.  A stale "set" left on a  *)
(* pooled gate, or a late ev.set() of another submit, would break it.      *)
(***************************************************************************)
OwnCompletion ==
    \A s \in Submits :
        /\ pc[s] \in {"pooling", "returned"} => co[s] = "result"
        /\ pc[s] = "raised" => co[s] = "raised"

(***************************************************************************)
(* Once box[3] is True the coroutine cannot survive, in every interleaving *)
(* of the caller with the two halves of _kickoff and with _cancel_in_box:  *)
(* it has ended, or it will not be started, or a cancellation is on its    *)
(* way to it.                                                              *)
(***************************************************************************)
NoOrphan ==
    \A s \in Submits :
        cancelReq[s] =>
            \/ co[s] \in Finished
            \/ co[s] = "queued"
            \/ kicking = s
            \/ cancelling[s]
            \/ task[s] /\ <<"cancel", s>> \in callbacks

(***************************************************************************)
(* No lost wake-up: a caller parked on its gate leaves submit_fast once    *)
(* its coroutine has ended, however it ended.                              *)
(***************************************************************************)
WaiterLeaves ==
    \A s \in Submits :
        (co[s] \in Finished /\ pc[s] \in Parked) ~> pc[s] \in Outcomes
=============================================================================
