----------------------------- MODULE WorkerInit -----------------------------
(***************************************************************************)
(* Start-up of the worker event loop: init(), _run() and get_loop() of     *)
(* python/fastapi_turbo/_async_worker.py, called by init_async_worker() of *)
(* src/handler_bridge.rs from several request threads at once, and the     *)
(* OnceLock slots that init_async_worker() fills for the hot paths.        *)
(***************************************************************************)
EXTENDS Integers

CONSTANTS
    Threads,      \* request threads racing the first submit
    MaxTimeouts   \* bound on how often _ready.wait(timeout=10) elapses

NoLoop   == 0     \* _loop is None
Unset    == -1    \* an empty OnceLock
NoThread == "no thread"

ASSUME WorkerInitAssumption == MaxTimeouts \in Nat /\ NoThread \notin Threads

(* A worker thread and the loop it creates; StartupTypeOK and LoopPerWait  *)
(* show that one more than the elapsed waits is enough.                    *)
Loops == 1..(MaxTimeouts + 2)

VARIABLES
    loop,         \* _loop
    ready,        \* _ready is set
    lock,         \* holder of _init_lock
    worker,       \* worker[k]: state of the k-th worker thread
    loopsStarted, \* _loops_started
    at,           \* at[t]: where request thread t is in init_async_worker
    inGetLoop,    \* t is in the init() that get_loop() called
    gotLoop,      \* what get_loop() returned to t
    timeouts,     \* waits for _ready that elapsed
    callSoon, workerLoop, submitFast, submit \* the OnceLock slots

startupVars == <<loop, ready, lock, worker, loopsStarted, at, inGetLoop, gotLoop,
                 timeouts, callSoon, workerLoop, submitFast, submit>>

pyVars   == <<loop, ready, lock, worker, loopsStarted>>
slotVars == <<callSoon, workerLoop, submitFast, submit>>

(* The types of the module globals, the OnceLock slots and the threads.    *)
StartupTypeOK ==
    /\ loop \in {NoLoop} \cup Loops
    /\ ready \in BOOLEAN
    /\ lock \in {NoThread} \cup Threads
    /\ worker \in [Loops -> {"none", "started", "published", "running"}]
    /\ loopsStarted \in 0..(MaxTimeouts + 2)
    /\ at \in [Threads -> {"enter", "fast", "lock", "recheck", "wait", "unlock",
                           "getloop", "callsoon", "loop", "subfast", "submit",
                           "done"}]
    /\ inGetLoop \in [Threads -> BOOLEAN]
    /\ gotLoop \in [Threads -> {NoLoop} \cup Loops]
    /\ timeouts \in 0..MaxTimeouts
    /\ callSoon \in {Unset} \cup Loops
    /\ workerLoop \in {Unset, NoLoop} \cup Loops
    /\ submitFast \in BOOLEAN
    /\ submit \in BOOLEAN

StartupInit ==
    /\ loop = NoLoop
    /\ ready = FALSE
    /\ lock = NoThread
    /\ worker = [k \in Loops |-> "none"]
    /\ loopsStarted = 0
    /\ at = [t \in Threads |-> "enter"]
    /\ inGetLoop = [t \in Threads |-> FALSE]
    /\ gotLoop = [t \in Threads |-> NoLoop]
    /\ timeouts = 0
    /\ callSoon = Unset
    /\ workerLoop = Unset
    /\ submitFast = FALSE
    /\ submit = FALSE

Goto(t, l) == at' = [at EXCEPT ![t] = l]

(* init() returns: to init_async_worker, or to the get_loop() it is in.    *)
InitReturnsTo(t) == IF inGetLoop[t] THEN "callsoon" ELSE "getloop"

(* What get_loop() hands to its caller when init() is done.                *)
LoopForCaller(t) ==
    gotLoop' = IF inGetLoop[t] THEN [gotLoop EXCEPT ![t] = loop] ELSE gotLoop

(***************************************************************************)
(* init_async_worker: nothing to do when ASYNC_SUBMIT is already set.      *)
(***************************************************************************)
Enter(t) ==
    /\ at[t] = "enter"
    /\ Goto(t, IF submit THEN "done" ELSE "fast")
    /\ UNCHANGED <<timeouts, pyVars, inGetLoop, gotLoop, slotVars>>

(* init: the unlocked fast-path check.                                     *)
FastCheck(t) ==
    /\ at[t] = "fast"
    /\ Goto(t, IF loop # NoLoop THEN InitReturnsTo(t) ELSE "lock")
    /\ LoopForCaller(t)
    /\ UNCHANGED <<timeouts, pyVars, inGetLoop, slotVars>>

TakeLock(t) ==
    /\ at[t] = "lock"
    /\ lock = NoThread
    /\ lock' = t
    /\ Goto(t, "recheck")
    /\ UNCHANGED <<timeouts, loop, ready, worker, loopsStarted, inGetLoop, gotLoop,
                   slotVars>>

(* Mutant: no second look at _loop under the lock.                         *)
RecheckSkipped(t) ==
    /\ at[t] = "recheck"
    /\ \E k \in Loops :
          /\ worker[k] = "none"
          /\ \A j \in 1..(k - 1) : worker[j] # "none"
          /\ worker' = [worker EXCEPT ![k] = "started"]
          /\ ready' = FALSE
          /\ Goto(t, "wait")
    /\ UNCHANGED <<timeouts, loop, lock, loopsStarted, inGetLoop, gotLoop, slotVars>>

(***************************************************************************)
(* init under the lock: return when another thread won; else clear _ready  *)
(* and start a worker thread.                                              *)
(***************************************************************************)
Recheck(t) ==
    /\ at[t] = "recheck"
    /\ IF loop # NoLoop
         THEN /\ Goto(t, "unlock")
              /\ UNCHANGED <<ready, worker>>
         ELSE \E k \in Loops :
              /\ worker[k] = "none"
              /\ \A j \in 1..(k - 1) : worker[j] # "none"
              /\ worker' = [worker EXCEPT ![k] = "started"]
              /\ ready' = FALSE
              /\ Goto(t, "wait")
    /\ UNCHANGED <<timeouts, loop, lock, loopsStarted, inGetLoop, gotLoop, slotVars>>

(* _ready.wait(timeout=10): its result is not looked at.                   *)
WaitReady(t) ==
    /\ at[t] = "wait"
    /\ \/ ready /\ UNCHANGED timeouts
       \/ ~ready /\ timeouts < MaxTimeouts /\ timeouts' = timeouts + 1
    /\ Goto(t, "unlock")
    /\ UNCHANGED <<pyVars, inGetLoop, gotLoop, slotVars>>

(* Mutant: an early return leaves _init_lock held.                         *)
ReturnLocked(t) ==
    /\ at[t] = "unlock"
    /\ Goto(t, InitReturnsTo(t))
    /\ LoopForCaller(t)
    /\ UNCHANGED <<timeouts, pyVars, inGetLoop, slotVars>>

(* init leaves the with block (after warming the gate pool) and returns.   *)
ReleaseLock(t) ==
    /\ at[t] = "unlock"
    /\ lock' = NoThread
    /\ Goto(t, InitReturnsTo(t))
    /\ LoopForCaller(t)
    /\ UNCHANGED <<timeouts, loop, ready, worker, loopsStarted, inGetLoop, slotVars>>

(***************************************************************************)
(* get_loop: return _loop, calling init() first when there is none.        *)
(***************************************************************************)
GetLoop(t) ==
    /\ at[t] = "getloop"
    /\ IF loop = NoLoop
         THEN /\ inGetLoop' = [inGetLoop EXCEPT ![t] = TRUE]
              /\ Goto(t, "fast")
              /\ UNCHANGED gotLoop
         ELSE /\ gotLoop' = [gotLoop EXCEPT ![t] = loop]
              /\ Goto(t, "callsoon")
              /\ UNCHANGED inGetLoop
    /\ UNCHANGED <<timeouts, pyVars, slotVars>>

(* OnceLock::set: the first value wins.                                    *)
SetOnce(slot, v) == IF slot = Unset THEN v ELSE slot

(* WORKER_CALL_SOON.set, skipped when the loop object has no such method.  *)
SetCallSoon(t) ==
    /\ at[t] = "callsoon"
    /\ callSoon' = IF gotLoop[t] = NoLoop THEN callSoon
                   ELSE SetOnce(callSoon, gotLoop[t])
    /\ Goto(t, "loop")
    /\ UNCHANGED <<timeouts, pyVars, inGetLoop, gotLoop, workerLoop, submitFast, submit>>

SetWorkerLoop(t) ==
    /\ at[t] = "loop"
    /\ workerLoop' = SetOnce(workerLoop, gotLoop[t])
    /\ Goto(t, "subfast")
    /\ UNCHANGED <<timeouts, pyVars, inGetLoop, gotLoop, callSoon, submitFast, submit>>

SetSubmitFast(t) ==
    /\ at[t] = "subfast"
    /\ submitFast' = TRUE
    /\ Goto(t, "submit")
    /\ UNCHANGED <<timeouts, pyVars, inGetLoop, gotLoop, callSoon, workerLoop, submit>>

SetSubmit(t) ==
    /\ at[t] = "submit"
    /\ submit' = TRUE
    /\ Goto(t, "done")
    /\ UNCHANGED <<timeouts, pyVars, inGetLoop, gotLoop, callSoon, workerLoop, submitFast>>

(***************************************************************************)
(* _run: create the loop, count it, publish it, set _ready, run for ever.  *)
(***************************************************************************)
Publish(k) ==
    /\ worker[k] = "started"
    /\ worker' = [worker EXCEPT ![k] = "published"]
    /\ loopsStarted' = loopsStarted + 1
    /\ loop' = k
    /\ UNCHANGED <<timeouts, ready, lock, at, inGetLoop, gotLoop, slotVars>>

SetReady(k) ==
    /\ worker[k] = "published"
    /\ worker' = [worker EXCEPT ![k] = "running"]
    /\ ready' = TRUE
    /\ UNCHANGED <<timeouts, loop, lock, loopsStarted, at, inGetLoop, gotLoop, slotVars>>

RequestThread(t) ==
    \/ Enter(t) \/ FastCheck(t) \/ TakeLock(t) \/ Recheck(t) \/ WaitReady(t)
    \/ ReleaseLock(t) \/ GetLoop(t) \/ SetCallSoon(t) \/ SetWorkerLoop(t)
    \/ SetSubmitFast(t) \/ SetSubmit(t)

WorkerThread(k) == Publish(k) \/ SetReady(k)

StartupNext ==
    \/ \E t \in Threads : RequestThread(t)
    \/ \E k \in Loops : WorkerThread(k)

(* Every thread, request or worker, is scheduled by the operating system.  *)
StartupFairness ==
    /\ \A t \in Threads : WF_startupVars(RequestThread(t))
    /\ \A k \in Loops : WF_startupVars(WorkerThread(k))

StartupSpec == StartupInit /\ [][StartupNext]_startupVars /\ StartupFairness

-----------------------------------------------------------------------------
(***************************************************************************)
(* However many threads race the first submit, exactly one worker loop is  *)
(* ever created, as the docstring of init and the comment on               *)
(* _loops_started say.  A wait for _ready that elapses breaks it: nobody   *)
(* looks at its result, so the next caller starts a second worker.         *)
(***************************************************************************)
OneLoop == loopsStarted <= 1

(* What init does guarantee, because of its second look at _loop under the *)
(* lock: one loop, and one more per elapsed wait, however many threads     *)
(* race it.                                                                *)
LoopPerWait == loopsStarted <= 1 + timeouts

(***************************************************************************)
(* A thread that observes ASYNC_SUBMIT set finds every slot the hot paths  *)
(* read filled, and filled with the loop that is actually up (unless a     *)
(* wait elapsed: then a slot may keep None or an abandoned loop for good). *)
(***************************************************************************)
SlotsBeforeSubmit ==
    submit /\ timeouts = 0 =>
        /\ loop # NoLoop
        /\ workerLoop = loop
        /\ callSoon = loop
        /\ submitFast

(***************************************************************************)
(* Every racing thread gets through init_async_worker, and leaves it with  *)
(* the loop up: nobody stays blocked on _init_lock or on _ready.           *)
(***************************************************************************)
EveryoneStarts ==
    \A t \in Threads : <>[](at[t] = "done" /\ loop # NoLoop)
=============================================================================
