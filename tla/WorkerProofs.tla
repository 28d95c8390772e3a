---------------------------- MODULE WorkerProofs ----------------------------
(***************************************************************************)
(* Proofs about the worker event loop.                                     *)
(*                                                                         *)
(* WorkerInit, for any number of racing threads and any number of elapsed  *)
(* waits: one worker loop per wait that may have elapsed, and the slots of *)
(* the hot paths are filled before ASYNC_SUBMIT is.                        *)
(*                                                                         *)
(* AsyncWorker, for any number of submits, any pool size and any choice of *)
(* timeouts: a gate serves one submit at a time, submit_fast returns only  *)
(* on its own completion, and no coroutine survives a timeout.             *)
(***************************************************************************)
EXTENDS AsyncWorker, WorkerInit, FiniteSetTheorems, TLAPS

-----------------------------------------------------------------------------
(* The first submit: how the loop comes up                                 *)

Up == {k \in Loops : worker[k] \in {"published", "running"}}

(* _init_lock: exactly its holder is between the acquire and the release.  *)
LockOK ==
    \A t \in Threads : at[t] \in {"recheck", "wait", "unlock"} <=> lock = t

(* The worker threads started so far are the first m.                      *)
StartedUpTo(m) == \A k \in Loops : worker[k] # "none" <=> k <= m

(***************************************************************************)
(* The heart of LoopPerWait: every started worker but one is paid for by   *)
(* an elapsed wait, and so is that one when no loop is up and nobody waits *)
(* for it, which is the only state in which init starts another.           *)
(***************************************************************************)
WorkersOK ==
    /\ \E m \in Nat :
          /\ m <= 1 + timeouts
          /\ StartedUpTo(m)
          /\ loop = NoLoop /\ (\A t \in Threads : at[t] # "wait") => m <= timeouts
    /\ ready => loop # NoLoop
    /\ \A k \in Loops : worker[k] \in {"published", "running"} => loop # NoLoop
    /\ loop # NoLoop => worker[loop] # "none"
    /\ loopsStarted = Cardinality(Up)

(***************************************************************************)
(* The slots while no wait has elapsed: there is only one loop, so whoever *)
(* fills a slot fills it with that one, in the order of init_async_worker. *)
(***************************************************************************)
SlotsOK ==
    timeouts = 0 =>
        /\ \A t \in Threads :
              /\ ~inGetLoop[t]
              /\ at[t] \in {"unlock", "getloop"} => loop # NoLoop
              /\ at[t] \in {"callsoon", "loop", "subfast", "submit"}
                    => loop # NoLoop /\ gotLoop[t] = loop
              /\ at[t] \in {"loop", "subfast", "submit"} => callSoon = loop
              /\ at[t] \in {"subfast", "submit"} => workerLoop = loop
              /\ at[t] = "submit" => submitFast = TRUE
        /\ callSoon # Unset => loop # NoLoop /\ callSoon = loop
        /\ workerLoop # Unset => loop # NoLoop /\ workerLoop = loop
        /\ submit = TRUE => /\ loop # NoLoop /\ callSoon = loop
                            /\ workerLoop = loop /\ submitFast = TRUE

StartupInv == StartupTypeOK /\ LockOK /\ WorkersOK /\ SlotsOK

LEMMA StartupInitInv == StartupInit => StartupInv
  <1> SUFFICES ASSUME StartupInit PROVE StartupInv
    OBVIOUS
  <1> USE WorkerInitAssumption DEF StartupInit, NoLoop, Unset, Loops
  <1>1. StartupTypeOK
    <2>1. /\ worker \in [Loops -> {"none", "started", "published", "running"}]
          /\ at \in [Threads -> {"enter", "fast", "lock", "recheck", "wait", "unlock",
                                 "getloop", "callsoon", "loop", "subfast", "submit",
                                 "done"}]
          /\ gotLoop \in [Threads -> {NoLoop} \cup Loops]
      OBVIOUS
    <2>2. inGetLoop \in [Threads -> BOOLEAN]
      OBVIOUS
    <2>3. loopsStarted \in 0..(MaxTimeouts + 2) /\ timeouts \in 0..MaxTimeouts
      OBVIOUS
    <2>4. ready \in BOOLEAN /\ submitFast \in BOOLEAN /\ submit \in BOOLEAN
      BY Zenon
    <2> QED
      BY <2>1, <2>2, <2>3, <2>4 DEF StartupTypeOK
  <1>2. LockOK
    BY DEF LockOK
  <1>3. WorkersOK
    <2>1. StartedUpTo(0)
      BY DEF StartedUpTo
    <2>2. Up = {}
      BY DEF Up
    <2>3. Cardinality(Up) = 0
      BY <2>2, FS_EmptySet
    <2> QED
      BY <2>1, <2>3 DEF WorkersOK
  <1>4. SlotsOK
    BY DEF SlotsOK
  <1> QED
    BY <1>1, <1>2, <1>3, <1>4 DEF StartupInv

\* Only a request thread that holds _init_lock is in the locked section.
LEMMA LockStep == StartupInv /\ [StartupNext]_startupVars => LockOK'
  <1> SUFFICES ASSUME StartupInv, [StartupNext]_startupVars PROVE LockOK'
    OBVIOUS
  <1> USE WorkerInitAssumption DEF StartupInv, StartupTypeOK, LockOK, Goto
  <1>1. ASSUME NEW t \in Threads, Enter(t) PROVE LockOK'
    BY <1>1 DEF Enter, pyVars
  <1>2. ASSUME NEW t \in Threads, FastCheck(t) PROVE LockOK'
    BY <1>2 DEF FastCheck, InitReturnsTo, pyVars
  <1>3. ASSUME NEW t \in Threads, TakeLock(t) PROVE LockOK'
    BY <1>3 DEF TakeLock
  <1>4. ASSUME NEW t \in Threads, Recheck(t) PROVE LockOK'
    BY <1>4 DEF Recheck
  <1>5. ASSUME NEW t \in Threads, WaitReady(t) PROVE LockOK'
    BY <1>5 DEF WaitReady, pyVars
  <1>6. ASSUME NEW t \in Threads, ReleaseLock(t) PROVE LockOK'
    BY <1>6 DEF ReleaseLock, InitReturnsTo
  <1>7. ASSUME NEW t \in Threads, GetLoop(t) PROVE LockOK'
    BY <1>7 DEF GetLoop, pyVars
  <1>8. ASSUME NEW t \in Threads,
               SetCallSoon(t) \/ SetWorkerLoop(t) \/ SetSubmitFast(t) \/ SetSubmit(t)
        PROVE LockOK'
    BY <1>8 DEF SetCallSoon, SetWorkerLoop, SetSubmitFast, SetSubmit, pyVars
  <1>9. ASSUME NEW k \in Loops, WorkerThread(k) PROVE LockOK'
    BY <1>9 DEF WorkerThread, Publish, SetReady
  <1>10. CASE UNCHANGED startupVars
    BY <1>10 DEF startupVars
  <1> QED
    BY <1>1, <1>2, <1>3, <1>4, <1>5, <1>6, <1>7, <1>8, <1>9, <1>10
       DEF StartupNext, RequestThread

\* Starting a worker is only done under the lock and without a loop, so the
\* wait that follows pays for it.
LEMMA WorkersStep == StartupInv /\ [StartupNext]_startupVars => WorkersOK'
  <1> SUFFICES ASSUME StartupInv, [StartupNext]_startupVars PROVE WorkersOK'
    OBVIOUS
  <1>1. PICK m \in Nat :
          /\ m <= 1 + timeouts
          /\ StartedUpTo(m)
          /\ loop = NoLoop /\ (\A t \in Threads : at[t] # "wait") => m <= timeouts
    BY DEF StartupInv, WorkersOK
  <1> USE WorkerInitAssumption DEF StartupInv, StartupTypeOK, Goto
  <1>2. ASSUME NEW t \in Threads, UNCHANGED <<loop, ready, worker, loopsStarted, timeouts>>,
               NEW l, l # "wait", at[t] # "wait", Goto(t, l)
        PROVE  WorkersOK'
    <2>1. \A u \in Threads : at'[u] = "wait" <=> at[u] = "wait"
      BY <1>2
    <2> QED
      BY <1>1, <1>2, <2>1 DEF WorkersOK, StartedUpTo, Up
  <1>3. ASSUME NEW t \in Threads, Recheck(t), loop = NoLoop PROVE WorkersOK'
    <2>1. PICK k \in Loops :
            /\ worker[k] = "none"
            /\ \A j \in 1..(k - 1) : worker[j] # "none"
            /\ worker' = [worker EXCEPT ![k] = "started"]
      BY <1>3 DEF Recheck
    <2>2. \A u \in Threads : at[u] # "wait"
      BY <1>3 DEF Recheck, LockOK
    <2>3. m <= timeouts
      BY <1>1, <1>3, <2>2
    <2>4. k = m + 1
      <3>1. k > m
        BY <1>1, <2>1 DEF StartedUpTo, Loops
      <3>2. ASSUME m + 1 < k PROVE FALSE
        <4>1. m + 1 \in 1..(k - 1) /\ m + 1 \in Loops
          BY <3>2 DEF Loops
        <4>2. worker[m + 1] # "none"
          BY <2>1, <4>1
        <4> QED
          BY <1>1, <4>1, <4>2 DEF StartedUpTo
      <3> QED
        BY <3>1, <3>2 DEF Loops
    <2>5. StartedUpTo(m + 1)'
      BY <1>1, <2>1, <2>4 DEF StartedUpTo, Loops
    <2>6. at'[t] = "wait"
      BY <1>3 DEF Recheck
    <2>7. Up' = Up
      BY <2>1 DEF Up
    <2>8. UNCHANGED <<loop, timeouts, loopsStarted>> /\ ready' = FALSE
      BY <1>3 DEF Recheck
    <2>9. \A j \in Loops : worker'[j] \notin {"published", "running"}
      BY <1>3, <2>1 DEF WorkersOK
    <2> QED
      BY <1>3, <2>3, <2>5, <2>6, <2>7, <2>8, <2>9 DEF WorkersOK
  <1>4. ASSUME NEW t \in Threads, WaitReady(t) PROVE WorkersOK'
    <2>1. UNCHANGED <<loop, ready, worker, loopsStarted>>
      BY <1>4 DEF WaitReady, pyVars
    <2>2. CASE ready /\ timeouts' = timeouts
      BY <1>1, <2>1, <2>2 DEF WorkersOK, StartedUpTo, Up
    <2>3. CASE timeouts' = timeouts + 1
      BY <1>1, <2>1, <2>3 DEF WorkersOK, StartedUpTo, Up
    <2> QED
      BY <1>4, <2>2, <2>3 DEF WaitReady
  <1>5. ASSUME NEW k \in Loops, Publish(k) PROVE WorkersOK'
    <2>1. /\ loop' = k /\ k # NoLoop
          /\ worker' = [worker EXCEPT ![k] = "published"]
          /\ UNCHANGED <<timeouts, ready, at>>
      BY <1>5 DEF Publish, Loops, NoLoop
    <2>2. Up' = Up \cup {k} /\ k \notin Up
      BY <1>5, <2>1 DEF Up, Publish
    <2>3. IsFiniteSet(Up)
      BY FS_Interval, FS_Subset DEF Up, Loops
    <2>4. Cardinality(Up)' = Cardinality(Up) + 1
      BY <2>2, <2>3, FS_AddElement, Zenon
    <2>5. StartedUpTo(m)'
      BY <1>1, <1>5, <2>1 DEF StartedUpTo, Publish
    <2>6. loopsStarted' = Cardinality(Up)'
      BY <1>5, <2>4 DEF Publish, WorkersOK
    <2> QED
      BY <1>1, <2>1, <2>5, <2>6 DEF WorkersOK
  <1>6. ASSUME NEW k \in Loops, SetReady(k) PROVE WorkersOK'
    <2>1. /\ worker' = [worker EXCEPT ![k] = "running"]
          /\ UNCHANGED <<timeouts, loop, at, loopsStarted>>
      BY <1>6 DEF SetReady
    <2>2. Up' = Up
      BY <1>6, <2>1 DEF Up, SetReady
    <2>3. StartedUpTo(m)'
      BY <1>1, <1>6, <2>1 DEF StartedUpTo, SetReady
    <2>4. loop # NoLoop
      BY <1>6 DEF SetReady, WorkersOK
    <2> QED
      BY <1>1, <2>1, <2>2, <2>3, <2>4 DEF WorkersOK, NoLoop
  <1>7. CASE UNCHANGED startupVars
    BY <1>7 DEF startupVars, WorkersOK, StartedUpTo, Up
  <1>8. ASSUME NEW t \in Threads, Enter(t) \/ FastCheck(t) PROVE WorkersOK'
    BY <1>2, <1>8 DEF Enter, FastCheck, pyVars, InitReturnsTo
  <1>9. ASSUME NEW t \in Threads, TakeLock(t) PROVE WorkersOK'
    BY <1>2, <1>9, Zenon DEF TakeLock
  <1>10. ASSUME NEW t \in Threads, Recheck(t), loop # NoLoop PROVE WorkersOK'
    BY <1>2, <1>10 DEF Recheck
  <1>11. ASSUME NEW t \in Threads, ReleaseLock(t) PROVE WorkersOK'
    BY <1>2, <1>11, ZenonT(40) DEF ReleaseLock, InitReturnsTo
  <1>12. ASSUME NEW t \in Threads, GetLoop(t) PROVE WorkersOK'
    BY <1>2, <1>12 DEF GetLoop, pyVars
  <1>13. ASSUME NEW t \in Threads,
                SetCallSoon(t) \/ SetWorkerLoop(t) \/ SetSubmitFast(t) \/ SetSubmit(t)
         PROVE WorkersOK'
    BY <1>2, <1>13 DEF SetCallSoon, SetWorkerLoop, SetSubmitFast, SetSubmit, pyVars
  <1> QED
    BY <1>3, <1>4, <1>5, <1>6, <1>7, <1>8, <1>9, <1>10, <1>11, <1>12, <1>13
       DEF StartupNext, RequestThread, WorkerThread

\* Before the first elapsed wait there is one loop, and a thread passes
\* get_loop() only with that loop in hand.
LEMMA SlotsStep == StartupInv /\ [StartupNext]_startupVars => SlotsOK'
  <1> SUFFICES ASSUME StartupInv, [StartupNext]_startupVars, timeouts' = 0 PROVE SlotsOK'
    BY ZenonT(40) DEF SlotsOK
  <1>1. timeouts = 0
    BY DEF StartupInv, StartupTypeOK, StartupNext, startupVars, RequestThread, WorkerThread,
       Enter, FastCheck,
           TakeLock, Recheck, WaitReady, ReleaseLock, GetLoop, SetCallSoon,
           SetWorkerLoop, SetSubmitFast, SetSubmit, Publish, SetReady
  <1> USE <1>1, WorkerInitAssumption
          DEF StartupInv, StartupTypeOK, SlotsOK, Goto, pyVars, slotVars, NoLoop, Unset
  <1>2. ASSUME NEW t \in Threads, Enter(t) PROVE SlotsOK'
    BY <1>2 DEF Enter
  <1>3. ASSUME NEW t \in Threads, FastCheck(t) PROVE SlotsOK'
    BY <1>3 DEF FastCheck, InitReturnsTo, LoopForCaller
  <1>4. ASSUME NEW t \in Threads, TakeLock(t) PROVE SlotsOK'
    BY <1>4 DEF TakeLock
  <1>5. ASSUME NEW t \in Threads, Recheck(t) PROVE SlotsOK'
    BY <1>5 DEF Recheck
  <1>6. ASSUME NEW t \in Threads, WaitReady(t) PROVE SlotsOK'
    BY <1>6 DEF WaitReady, WorkersOK
  <1>7. ASSUME NEW t \in Threads, ReleaseLock(t) PROVE SlotsOK'
    BY <1>7 DEF ReleaseLock, InitReturnsTo, LoopForCaller
  <1>8. ASSUME NEW t \in Threads, GetLoop(t) PROVE SlotsOK'
    BY <1>8 DEF GetLoop
  <1>9. ASSUME NEW t \in Threads, SetCallSoon(t) PROVE SlotsOK'
    BY <1>9 DEF SetCallSoon, SetOnce
  <1>10. ASSUME NEW t \in Threads, SetWorkerLoop(t) PROVE SlotsOK'
    BY <1>10 DEF SetWorkerLoop, SetOnce
  <1>11. ASSUME NEW t \in Threads, SetSubmitFast(t) PROVE SlotsOK'
    BY <1>11 DEF SetSubmitFast
  <1>12. ASSUME NEW t \in Threads, SetSubmit(t) PROVE SlotsOK'
    BY <1>12 DEF SetSubmit
  <1>13. ASSUME NEW k \in Loops, Publish(k) PROVE SlotsOK'
    <2>1. loop = NoLoop \/ loop = k
      BY <1>13 DEF Publish, WorkersOK, StartedUpTo, Loops
    <2>2. loop' = k /\ k # NoLoop
      BY <1>13 DEF Publish, Loops
    <2> QED
      BY <1>13, <2>1, <2>2 DEF Publish
  <1>14. ASSUME NEW k \in Loops, SetReady(k) PROVE SlotsOK'
    BY <1>14 DEF SetReady
  <1>15. CASE UNCHANGED startupVars
    BY <1>15 DEF startupVars
  <1> QED
    BY ZenonT(40), <1>2, <1>3, <1>4, <1>5, <1>6, <1>7, <1>8, <1>9, <1>10, <1>11, <1>12, <1>13,
       <1>14, <1>15 DEF StartupNext, RequestThread, WorkerThread

\* The bound on the number of loops follows from the worker threads' prefix.
LEMMA LoopBound ==
  timeouts \in 0..MaxTimeouts /\ WorkersOK
    => loopsStarted \in 0..(MaxTimeouts + 2) /\ loopsStarted <= 1 + timeouts
  <1> SUFFICES ASSUME timeouts \in 0..MaxTimeouts, WorkersOK
               PROVE  loopsStarted \in 0..(MaxTimeouts + 2) /\ loopsStarted <= 1 + timeouts
    OBVIOUS
  <1> USE WorkerInitAssumption
  <1>1. PICK m \in Nat : m <= 1 + timeouts /\ StartedUpTo(m)
    BY DEF WorkersOK
  <1>2. Up \subseteq 1..m
    BY <1>1 DEF Up, StartedUpTo, Loops
  <1>3. IsFiniteSet(1..m) /\ Cardinality(1..m) = m
    BY <1>1, FS_Interval
  <1>4. IsFiniteSet(Up) /\ Cardinality(Up) <= m
    BY <1>2, <1>3, FS_Subset, ZenonT(40)
  <1>5. Cardinality(Up) \in Nat
    BY <1>4, FS_CardinalityType
  <1> QED
    BY <1>1, <1>4, <1>5 DEF WorkersOK

\* StartupTypeOK without the three flags and the counter, which are argued apart.
TypesRest ==
    /\ loop \in {NoLoop} \cup Loops
    /\ lock \in {NoThread} \cup Threads
    /\ worker \in [Loops -> {"none", "started", "published", "running"}]
    /\ at \in [Threads -> {"enter", "fast", "lock", "recheck", "wait", "unlock",
                           "getloop", "callsoon", "loop", "subfast", "submit",
                           "done"}]
    /\ inGetLoop \in [Threads -> BOOLEAN]
    /\ gotLoop \in [Threads -> {NoLoop} \cup Loops]
    /\ timeouts \in 0..MaxTimeouts
    /\ callSoon \in {Unset} \cup Loops
    /\ workerLoop \in {Unset, NoLoop} \cup Loops

LEMMA RestStep == TypesRest /\ [StartupNext]_startupVars => TypesRest'
  <1> SUFFICES ASSUME TypesRest, [StartupNext]_startupVars PROVE TypesRest'
    OBVIOUS
  <1> USE WorkerInitAssumption DEF TypesRest, Goto, pyVars, slotVars
  <1>1. ASSUME NEW t \in Threads, Enter(t) \/ TakeLock(t) PROVE TypesRest'
    BY <1>1 DEF Enter, TakeLock
  <1>2. ASSUME NEW t \in Threads, FastCheck(t) PROVE TypesRest'
    BY <1>2 DEF FastCheck, InitReturnsTo, LoopForCaller
  <1>3. ASSUME NEW t \in Threads, Recheck(t) PROVE TypesRest'
    BY <1>3 DEF Recheck
  <1>4. ASSUME NEW t \in Threads, WaitReady(t) PROVE TypesRest'
    BY <1>4 DEF WaitReady
  <1>5. ASSUME NEW t \in Threads, ReleaseLock(t) PROVE TypesRest'
    BY <1>5 DEF ReleaseLock, InitReturnsTo, LoopForCaller
  <1>6. ASSUME NEW t \in Threads, GetLoop(t) PROVE TypesRest'
    BY <1>6, ZenonT(40) DEF GetLoop
  <1>7. ASSUME NEW t \in Threads, SetCallSoon(t) \/ SetWorkerLoop(t) PROVE TypesRest'
    BY <1>7 DEF SetCallSoon, SetWorkerLoop, SetOnce
  <1>8. ASSUME NEW t \in Threads, SetSubmitFast(t) \/ SetSubmit(t) PROVE TypesRest'
    BY <1>8 DEF SetSubmitFast, SetSubmit
  <1>9. ASSUME NEW k \in Loops, WorkerThread(k) PROVE TypesRest'
    BY <1>9 DEF WorkerThread, Publish, SetReady
  <1>10. CASE UNCHANGED startupVars
    BY <1>10 DEF startupVars
  <1> QED
    BY <1>1, <1>2, <1>3, <1>4, <1>5, <1>6, <1>7, <1>8, <1>9, <1>10, Zenon
       DEF StartupNext, RequestThread

LEMMA StartupTypeStep == StartupInv /\ [StartupNext]_startupVars => StartupTypeOK'
  <1> SUFFICES ASSUME StartupInv, [StartupNext]_startupVars PROVE StartupTypeOK'
    OBVIOUS
  <1>1. ready' \in BOOLEAN /\ submitFast' \in BOOLEAN /\ submit' \in BOOLEAN
    <2>1. /\ ready' = ready \/ ready' = TRUE \/ ready' = FALSE
          /\ submitFast' = submitFast \/ submitFast' = TRUE
          /\ submit' = submit \/ submit' = TRUE
      BY Zenon DEF StartupNext, startupVars, RequestThread, WorkerThread, Enter, FastCheck,
             TakeLock, Recheck, WaitReady, ReleaseLock, GetLoop, SetCallSoon,
             SetWorkerLoop, SetSubmitFast, SetSubmit, Publish, SetReady, pyVars, slotVars
    <2> QED
      BY <2>1, Zenon DEF StartupInv, StartupTypeOK
  <1>2. TypesRest'
    BY RestStep DEF StartupInv, StartupTypeOK, TypesRest
  <1>3. loopsStarted' \in 0..(MaxTimeouts + 2)
    <2>1. (timeouts \in 0..MaxTimeouts /\ WorkersOK
             => loopsStarted \in 0..(MaxTimeouts + 2) /\ loopsStarted <= 1 + timeouts)'
      BY LoopBound, PTL
    <2> QED
      BY <1>2, <2>1, WorkersStep DEF TypesRest
  <1> QED
    BY <1>1, <1>2, <1>3, Zenon DEF StartupTypeOK, TypesRest

LEMMA StartupInductive == StartupSpec => []StartupInv
  <1>1. StartupInv /\ [StartupNext]_startupVars => StartupInv'
    BY StartupTypeStep, LockStep, WorkersStep, SlotsStep DEF StartupInv
  <1> QED
    BY StartupInitInv, <1>1, PTL DEF StartupSpec

\* The globals of _async_worker.py and the OnceLock slots keep their types;
\* _loops_started never exceeds the worker threads there can be.
THEOREM StartupTypeCorrect == StartupSpec => []StartupTypeOK
  <1>1. StartupInv => StartupTypeOK
    BY DEF StartupInv
  <1> QED
    BY StartupInductive, <1>1, PTL

\* However many request threads race init(), at most one loop more than the
\* waits for _ready that elapsed is ever started.
THEOREM LoopsArePaidFor == StartupSpec => []LoopPerWait
  <1>1. StartupInv => LoopPerWait
    BY LoopBound DEF StartupInv, StartupTypeOK, LoopPerWait
  <1> QED
    BY StartupInductive, <1>1, PTL

\* As long as no wait for _ready elapses, exactly what the docstring of init
\* says: the racing threads create one loop at most.
THEOREM LoopIsUnique == StartupSpec => [](timeouts = 0 => OneLoop)
  <1>1. StartupInv => (timeouts = 0 => OneLoop)
    <2> SUFFICES ASSUME StartupInv, timeouts = 0 PROVE OneLoop
      OBVIOUS
    <2>1. loopsStarted \in 0..(MaxTimeouts + 2) /\ loopsStarted <= 1 + timeouts
      BY LoopBound DEF StartupInv, StartupTypeOK
    <2> QED
      BY <2>1, WorkerInitAssumption DEF OneLoop
  <1> QED
    BY StartupInductive, <1>1, PTL

\* Whoever sees ASYNC_SUBMIT set finds the other slots filled with the loop
\* that is up, as long as no wait elapsed.
THEOREM SlotsFilledFirst == StartupSpec => []SlotsBeforeSubmit
  <1>1. StartupInv => SlotsBeforeSubmit
    BY DEF StartupInv, StartupTypeOK, SlotsOK, SlotsBeforeSubmit
  <1> QED
    BY StartupInductive, <1>1, PTL

-----------------------------------------------------------------------------
(* Submits and their gates                                                 *)

(***************************************************************************)
(* How the caller's and the loop's view of one submit fit together.  The   *)
(* last conjunct is the heart of OwnCompletion: a gate that a caller waits *)
(* on is set only by the end of that caller's own coroutine.               *)
(***************************************************************************)
SubmitOK(s) ==
    /\ pc[s] = "start" <=> co[s] = "none"
    /\ pc[s] # "start" => gate[s] \in Gates
    /\ cancelReq[s] <=> pc[s] = "timeout"
    /\ co[s] = "queued" <=> <<"kickoff", s>> \in callbacks
    /\ co[s] = "eager" => kicking = s
    /\ kicking = s => co[s] \in {"eager", "suspended", "result", "raised"}
    /\ co[s] = "suspended" => kicking = s \/ task[s]
    /\ cancelling[s] => cancelReq[s]
    /\ <<"cancel", s>> \in callbacks => cancelReq[s]
    /\ co[s] \in {"closed", "cancelled"} => cancelReq[s]
    /\ pc[s] = "waiting" /\ isSet[gate[s]] => co[s] \in Finished

IInv ==
    /\ TypeOK
    /\ \A s \in Submits : SubmitOK(s)
    /\ GateExclusive
    /\ OwnCompletion
    /\ NoOrphan

LEMMA InitInv == Init => IInv
  <1> SUFFICES ASSUME Init PROVE IInv
    OBVIOUS
  <1> USE DEF Init
  <1>1. TypeOK
    BY GateAssumption DEF TypeOK, Callbacks
  <1>2. \A s \in Submits : SubmitOK(s)
    BY SubmitAssumption DEF SubmitOK
  <1>3. GateExclusive /\ OwnCompletion /\ NoOrphan
    BY DEF GateExclusive, OwnCompletion, NoOrphan, Live, Parked, Unfinished
  <1> QED
    BY <1>1, <1>2, <1>3 DEF IInv

\* Every step of a caller or of the loop keeps the types.
LEMMA TypeStep == IInv /\ [Next]_vars => TypeOK'
  <1> SUFFICES ASSUME IInv, [Next]_vars PROVE TypeOK'
    OBVIOUS
  <1>0. TypeOK /\ \A s \in Submits : pc[s] # "start" => gate[s] \in Gates
    BY Zenon DEF IInv, SubmitOK
  <1> USE <1>0, SubmitAssumption, GateAssumption DEF TypeOK, Callbacks, Parked, Outcomes,
          Unfinished, Finished
  <1>1. ASSUME NEW s \in Submits, SubmitFast(s) PROVE TypeOK'
    BY <1>1 DEF SubmitFast, AcquireEvent
  <1>2. ASSUME NEW s \in Submits, Wake(s) PROVE TypeOK'
    BY <1>2 DEF Wake
  <1>3. ASSUME NEW s \in Submits, ReleaseEvent(s) PROVE TypeOK'
    BY <1>3 DEF ReleaseEvent
  <1>4. ASSUME NEW s \in Submits, WaitTimesOut(s) PROVE TypeOK'
    BY <1>4 DEF WaitTimesOut
  <1>5. ASSUME NEW s \in Submits, RequestCancel(s) PROVE TypeOK'
    BY <1>5 DEF RequestCancel
  <1>6. ASSUME NEW s \in Submits, Interrupt(s) PROVE TypeOK'
    BY <1>6 DEF Interrupt
  <1>7. ASSUME NEW s \in Submits, KickoffClose(s) PROVE TypeOK'
    BY <1>7, Zenon DEF KickoffClose, Complete
  <1>8. ASSUME NEW s \in Submits, KickoffStart(s) PROVE TypeOK'
    BY <1>8 DEF KickoffStart
  <1>9. ASSUME NEW s \in Submits, EagerStep(s) PROVE TypeOK'
    <2>1. CASE co' = [co EXCEPT ![s] = "suspended"] /\ UNCHANGED isSet
      BY <1>9, <2>1 DEF EagerStep
    <2>2. ASSUME NEW how \in {"result", "raised"}, Complete(s, how) PROVE TypeOK'
      BY <1>9, <2>2, Zenon DEF EagerStep, Complete
    <2> QED
      BY <1>9, <2>1, <2>2 DEF EagerStep
  <1>10. ASSUME NEW s \in Submits, KickoffEnd(s) PROVE TypeOK'
    BY <1>10 DEF KickoffEnd
  <1>11. ASSUME NEW s \in Submits, CancelInBox(s) PROVE TypeOK'
    BY <1>11 DEF CancelInBox
  <1>12. ASSUME NEW s \in Submits, ThrowCancelled(s) PROVE TypeOK'
    BY <1>12, Zenon DEF ThrowCancelled, Complete
  <1>13. ASSUME NEW s \in Submits, Resume(s) PROVE TypeOK'
    <2>1. PICK how \in {"result", "raised"} : Complete(s, how)
      BY <1>13 DEF Resume
    <2> QED
      BY <1>13, <2>1, ZenonT(40) DEF Resume, Complete
  <1>14. CASE UNCHANGED vars
    BY <1>14 DEF vars
  <1> QED
    BY <1>1, <1>2, <1>3, <1>4, <1>5, <1>6, <1>7, <1>8, <1>9, <1>10, <1>11, <1>12, <1>13, <1>14,
       ZenonT(40)
       DEF Next, Caller, LoopThread

\* The two views of a submit stay in step.  A completion sets only its own
\* waiter's gate, because two live submits never share one.
LEMMA ShapeStep == IInv /\ [Next]_vars => (\A t \in Submits : SubmitOK(t))'
  <1> SUFFICES ASSUME IInv, [Next]_vars PROVE (\A t \in Submits : SubmitOK(t))'
    OBVIOUS
  <1> SUFFICES ASSUME NEW t \in Submits PROVE SubmitOK(t)'
    BY DEF IInv
  <1> USE SubmitAssumption, GateAssumption DEF IInv, TypeOK, SubmitOK, GateExclusive, Live,
          Parked, Unfinished, Finished, Outcomes
  <1>1. ASSUME NEW s \in Submits, SubmitFast(s) PROVE SubmitOK(t)'
    BY <1>1 DEF SubmitFast, AcquireEvent
  <1>2. ASSUME NEW s \in Submits, Wake(s) PROVE SubmitOK(t)'
    BY <1>2 DEF Wake
  <1>3. ASSUME NEW s \in Submits, ReleaseEvent(s) PROVE SubmitOK(t)'
    BY <1>3 DEF ReleaseEvent
  <1>4. ASSUME NEW s \in Submits, WaitTimesOut(s) PROVE SubmitOK(t)'
    BY <1>4 DEF WaitTimesOut
  <1>5. ASSUME NEW s \in Submits, RequestCancel(s) PROVE SubmitOK(t)'
    BY <1>5 DEF RequestCancel
  <1>6. ASSUME NEW s \in Submits, Interrupt(s) PROVE SubmitOK(t)'
    BY <1>6 DEF Interrupt
  <1>7. ASSUME NEW s \in Submits, KickoffClose(s) PROVE SubmitOK(t)'
    <2>1. CASE t = s
      <3>1. pc[s] = "timeout" /\ cancelReq[s] /\ kicking # s
        BY <1>7, Zenon DEF KickoffClose
      <3>2. co'[s] = "closed" /\ <<"kickoff", s>> \notin callbacks'
        BY <1>7 DEF KickoffClose, Complete
      <3>3. UNCHANGED <<pc, gate, cancelReq, task, cancelling, kicking>>
        BY <1>7 DEF KickoffClose
      <3> QED
        BY <2>1, <3>1, <3>2, <3>3, Zenon
    <2>2. CASE t # s
      <3>1. gate[s] # gate[t] \/ pc[t] # "waiting"
        <4>1. co[s] = "queued"
          BY <1>7, Zenon DEF KickoffClose
        <4>2. Live(s) /\ (pc[t] = "waiting" => Live(t))
          BY <4>1
        <4> HIDE DEF TypeOK, SubmitOK, Live
        <4> QED
          BY <2>2, <4>2
      <3>2. co'[t] = co[t] /\ (pc[t] = "waiting" => isSet'[gate[t]] = isSet[gate[t]])
        <4>1. pc[t] = "waiting" => gate[t] \in Gates
          BY ZenonT(40)
        <4>2. co'[t] = co[t] /\ isSet' = [isSet EXCEPT ![gate[s]] = TRUE]
          BY <1>7, <2>2 DEF KickoffClose, Complete
        <4> HIDE DEF SubmitOK, GateExclusive
        <4> QED
          BY <3>1, <4>1, <4>2, Zenon
      <3>3. /\ <<"kickoff", t>> \in callbacks' <=> <<"kickoff", t>> \in callbacks
            /\ <<"cancel", t>> \in callbacks' <=> <<"cancel", t>> \in callbacks
        BY <1>7, <2>2, SMTT(30) DEF KickoffClose
      <3>4. UNCHANGED <<pc, gate, cancelReq, task, cancelling, kicking>>
        BY <1>7 DEF KickoffClose
      <3> QED
        BY <3>2, <3>3, <3>4, SMTT(30)
    <2> QED
      BY <2>1, <2>2, ZenonT(40)
  <1>8. ASSUME NEW s \in Submits, KickoffStart(s) PROVE SubmitOK(t)'
    BY <1>8 DEF KickoffStart
  <1>9. ASSUME NEW s \in Submits, EagerStep(s) PROVE SubmitOK(t)'
    BY <1>9, SMTT(30) DEF EagerStep, Complete
  <1>10. ASSUME NEW s \in Submits, KickoffEnd(s) PROVE SubmitOK(t)'
    BY <1>10 DEF KickoffEnd
  <1>11. ASSUME NEW s \in Submits, CancelInBox(s) PROVE SubmitOK(t)'
    BY <1>11 DEF CancelInBox
  <1>12. ASSUME NEW s \in Submits, ThrowCancelled(s) PROVE SubmitOK(t)'
    BY <1>12 DEF ThrowCancelled, Complete
  <1>13. ASSUME NEW s \in Submits, Resume(s) PROVE SubmitOK(t)'
    BY <1>13 DEF Resume, Complete
  <1>14. CASE UNCHANGED vars
    BY <1>14 DEF vars
  <1> QED
    BY <1>1, <1>2, <1>3, <1>4, <1>5, <1>6, <1>7, <1>8, <1>9, <1>10, <1>11, <1>12, <1>13, <1>14,
       Zenon
       DEF Next, Caller, LoopThread

\* A gate enters the pool only when neither its caller nor the loop can use it
\* again, and leaves the pool for one submit.
LEMMA ExclusiveStep == IInv /\ [Next]_vars => GateExclusive'
  <1> SUFFICES ASSUME IInv, [Next]_vars PROVE GateExclusive'
    OBVIOUS
  <1> USE SubmitAssumption, GateAssumption DEF IInv, TypeOK, SubmitOK, GateExclusive,
          OwnCompletion, Live, Unreferenced, Parked, Unfinished, Finished, Outcomes
  <1>1. ASSUME NEW s \in Submits, SubmitFast(s) PROVE GateExclusive'
    BY <1>1 DEF SubmitFast, AcquireEvent
  <1>2. ASSUME NEW s \in Submits, Wake(s) PROVE GateExclusive'
    BY <1>2 DEF Wake
  <1>3. ASSUME NEW s \in Submits, ReleaseEvent(s) PROVE GateExclusive'
    BY <1>3 DEF ReleaseEvent
  <1>4. ASSUME NEW s \in Submits, WaitTimesOut(s) PROVE GateExclusive'
    BY <1>4 DEF WaitTimesOut
  <1>5. ASSUME NEW s \in Submits, RequestCancel(s) PROVE GateExclusive'
    BY <1>5 DEF RequestCancel
  <1>6. ASSUME NEW s \in Submits, Interrupt(s) PROVE GateExclusive'
    BY <1>6 DEF Interrupt
  <1>7. ASSUME NEW s \in Submits, KickoffClose(s) PROVE GateExclusive'
    BY <1>7 DEF KickoffClose, Complete
  <1>8. ASSUME NEW s \in Submits, KickoffStart(s) PROVE GateExclusive'
    <2>1. \A t \in Submits : Live(t)' => Live(t)
      BY <1>8, ZenonT(40) DEF KickoffStart
    <2> QED
      BY <1>8, <2>1 DEF KickoffStart
  <1>9. ASSUME NEW s \in Submits, EagerStep(s) PROVE GateExclusive'
    BY <1>9 DEF EagerStep, Complete
  <1>10. ASSUME NEW s \in Submits, KickoffEnd(s) PROVE GateExclusive'
    BY <1>10 DEF KickoffEnd
  <1>11. ASSUME NEW s \in Submits, CancelInBox(s) PROVE GateExclusive'
    BY <1>11 DEF CancelInBox
  <1>12. ASSUME NEW s \in Submits, ThrowCancelled(s) PROVE GateExclusive'
    BY <1>12 DEF ThrowCancelled, Complete
  <1>13. ASSUME NEW s \in Submits, Resume(s) PROVE GateExclusive'
    BY <1>13 DEF Resume, Complete
  <1>14. CASE UNCHANGED vars
    BY <1>14 DEF vars
  <1> QED
    BY ZenonT(40), <1>1, <1>2, <1>3, <1>4, <1>5, <1>6, <1>7, <1>8, <1>9, <1>10, <1>11, <1>12, <1>13, <1>14,
       ZenonT(40)
       DEF Next, Caller, LoopThread

\* A caller is woken by its own coroutine, whose outcome it reports.
LEMMA OwnStep == IInv /\ [Next]_vars => OwnCompletion'
  <1> SUFFICES ASSUME IInv, [Next]_vars PROVE OwnCompletion'
    OBVIOUS
  <1> USE SubmitAssumption, GateAssumption DEF IInv, TypeOK, SubmitOK, OwnCompletion, Parked,
          Unfinished, Finished, Outcomes
  <1>1. ASSUME NEW s \in Submits, SubmitFast(s) PROVE OwnCompletion'
    BY <1>1 DEF SubmitFast, AcquireEvent
  <1>2. ASSUME NEW s \in Submits, Wake(s) PROVE OwnCompletion'
    <2>1. co[s] \in {"result", "raised"}
      BY <1>2, ZenonT(40) DEF Wake
    <2>2. pc'[s] = "raised" \/ pc'[s] \in {"pooling", "returned"}
      BY <1>2 DEF Wake
    <2>3. pc'[s] = "raised" <=> co[s] = "raised"
      BY <1>2, <2>1 DEF Wake
    <2>4. \A t \in Submits \ {s} : pc'[t] = pc[t]
      BY <1>2 DEF Wake
    <2>5. co' = co
      BY <1>2 DEF Wake
    <2> HIDE DEF TypeOK, SubmitOK
    <2> QED
      BY <2>1, <2>2, <2>3, <2>4, <2>5, ZenonT(40)
  <1>3. ASSUME NEW s \in Submits, ReleaseEvent(s) PROVE OwnCompletion'
    BY <1>3 DEF ReleaseEvent
  <1>4. ASSUME NEW s \in Submits, WaitTimesOut(s) PROVE OwnCompletion'
    BY <1>4 DEF WaitTimesOut
  <1>5. ASSUME NEW s \in Submits, RequestCancel(s) PROVE OwnCompletion'
    BY <1>5 DEF RequestCancel
  <1>6. ASSUME NEW s \in Submits, Interrupt(s) PROVE OwnCompletion'
    BY <1>6 DEF Interrupt
  <1>7. ASSUME NEW s \in Submits, KickoffClose(s) PROVE OwnCompletion'
    BY <1>7, ZenonT(40) DEF KickoffClose, Complete
  <1>8. ASSUME NEW s \in Submits, KickoffStart(s) PROVE OwnCompletion'
    BY <1>8, ZenonT(40) DEF KickoffStart
  <1>9. ASSUME NEW s \in Submits, EagerStep(s) PROVE OwnCompletion'
    BY <1>9 DEF EagerStep, Complete
  <1>10. ASSUME NEW s \in Submits, KickoffEnd(s) PROVE OwnCompletion'
    BY <1>10 DEF KickoffEnd
  <1>11. ASSUME NEW s \in Submits, CancelInBox(s) PROVE OwnCompletion'
    BY <1>11 DEF CancelInBox
  <1>12. ASSUME NEW s \in Submits, ThrowCancelled(s) PROVE OwnCompletion'
    BY <1>12 DEF ThrowCancelled, Complete
  <1>13. ASSUME NEW s \in Submits, Resume(s) PROVE OwnCompletion'
    BY <1>13 DEF Resume, Complete
  <1>14. CASE UNCHANGED vars
    BY <1>14 DEF vars
  <1> QED
    BY ZenonT(40), <1>1, <1>2, <1>3, <1>4, <1>5, <1>6, <1>7, <1>8, <1>9, <1>10, <1>11, <1>12, <1>13, <1>14,
       ZenonT(40)
       DEF Next, Caller, LoopThread

\* Whichever of the timeout, the two halves of _kickoff and _cancel_in_box
\* comes first, the cancellation reaches the coroutine.
LEMMA OrphanStep == IInv /\ [Next]_vars => NoOrphan'
  <1> SUFFICES ASSUME IInv, [Next]_vars PROVE NoOrphan'
    OBVIOUS
  <1> USE SubmitAssumption, GateAssumption DEF IInv, TypeOK, SubmitOK, NoOrphan, Parked,
          Unfinished, Finished, Outcomes
  <1>1. ASSUME NEW s \in Submits, SubmitFast(s) PROVE NoOrphan'
    BY <1>1, SMTT(30) DEF SubmitFast, AcquireEvent
  <1>2. ASSUME NEW s \in Submits, Wake(s) PROVE NoOrphan'
    BY <1>2, SMTT(30) DEF Wake
  <1>3. ASSUME NEW s \in Submits, ReleaseEvent(s) PROVE NoOrphan'
    BY <1>3 DEF ReleaseEvent
  <1>4. ASSUME NEW s \in Submits, WaitTimesOut(s) PROVE NoOrphan'
    BY <1>4 DEF WaitTimesOut
  <1>5. ASSUME NEW s \in Submits, RequestCancel(s) PROVE NoOrphan'
    BY <1>5, ZenonT(40) DEF RequestCancel
  <1>6. ASSUME NEW s \in Submits, Interrupt(s) PROVE NoOrphan'
    BY <1>6 DEF Interrupt
  <1>7. ASSUME NEW s \in Submits, KickoffClose(s) PROVE NoOrphan'
    BY <1>7 DEF KickoffClose, Complete
  <1>8. ASSUME NEW s \in Submits, KickoffStart(s) PROVE NoOrphan'
    BY <1>8 DEF KickoffStart
  <1>9. ASSUME NEW s \in Submits, EagerStep(s) PROVE NoOrphan'
    BY <1>9, SMTT(30) DEF EagerStep, Complete
  <1>10. ASSUME NEW s \in Submits, KickoffEnd(s) PROVE NoOrphan'
    <2> SUFFICES ASSUME NEW t \in Submits, cancelReq[t]
                 PROVE \/ co[t] \in Finished \/ co[t] = "queued" \/ cancelling'[t]
                       \/ task'[t] /\ <<"cancel", t>> \in callbacks
      BY <1>10 DEF KickoffEnd
    <2>1. CASE t = s
      <3>1. cancelling'[s] = (cancelReq[s] /\ co[s] = "suspended")
        BY <1>10 DEF KickoffEnd
      <3>2. co[s] \in {"suspended", "result", "raised"}
        BY <1>10, ZenonT(40) DEF KickoffEnd
      <3> QED
        BY <2>1, <3>1, <3>2
    <2>2. CASE t # s
      BY <1>10, <2>2, SMTT(30) DEF KickoffEnd
    <2> QED
      BY <2>1, <2>2, SMTT(30)
  <1>11. ASSUME NEW s \in Submits, CancelInBox(s) PROVE NoOrphan'
    <2> SUFFICES ASSUME NEW t \in Submits, cancelReq[t]
                 PROVE \/ co[t] \in Finished \/ co[t] = "queued" \/ cancelling'[t]
                       \/ task[t] /\ <<"cancel", t>> \in callbacks'
      BY <1>11, SMTT(30) DEF CancelInBox
    <2>1. CASE t = s
      <3>1. cancelling'[s] = (cancelling[s] \/ (task[s] /\ co[s] = "suspended"))
        BY <1>11 DEF CancelInBox
      <3>2. co[s] \in {"queued", "suspended"} \cup Finished
        <4>1. pc[s] = "timeout"
          BY <2>1, Zenon
        <4>2. co[s] # "none" /\ co[s] # "eager"
          BY <1>11, <4>1, Zenon DEF CancelInBox
        <4> QED
          BY <4>2
      <3>3. co[s] = "suspended" => task[s]
        BY <1>11, ZenonT(40) DEF CancelInBox
      <3> QED
        BY <2>1, <3>1, <3>2, <3>3, SMTT(30)
    <2>2. CASE t # s
      BY <1>11, <2>2, SMTT(30) DEF CancelInBox
    <2> QED
      BY <2>1, <2>2, SMTT(30)
  <1>12. ASSUME NEW s \in Submits, ThrowCancelled(s) PROVE NoOrphan'
    BY <1>12 DEF ThrowCancelled, Complete
  <1>13. ASSUME NEW s \in Submits, Resume(s) PROVE NoOrphan'
    BY <1>13 DEF Resume, Complete
  <1>14. CASE UNCHANGED vars
    BY <1>14 DEF vars
  <1> QED
    BY ZenonT(40), <1>1, <1>2, <1>3, <1>4, <1>5, <1>6, <1>7, <1>8, <1>9, <1>10, <1>11, <1>12, <1>13, <1>14,
       ZenonT(40)
       DEF Next, Caller, LoopThread

LEMMA Inductive == Spec => []IInv
  <1>1. Init => IInv
    BY InitInv
  <1>2. IInv /\ [Next]_vars => IInv'
    BY TypeStep, ShapeStep, ExclusiveStep, OwnStep, OrphanStep DEF IInv
  <1> QED
    BY <1>1, <1>2, PTL DEF Spec

\* The type invariant, for every pool and every number of submits.
THEOREM TypeCorrect == Spec => []TypeOK
  <1>1. IInv => TypeOK
    BY DEF IInv
  <1> QED
    BY <1>1, Inductive, PTL

\* A pooled gate is never handed out while a caller waits on it or the loop
\* may still set it.
THEOREM GatesExclusive == Spec => []GateExclusive
  <1>1. IInv => GateExclusive
    BY DEF IInv
  <1> QED
    BY <1>1, Inductive, PTL

\* submit_fast returns, or re-raises, only what its own coroutine produced.
THEOREM CompletionIsOwn == Spec => []OwnCompletion
  <1>1. IInv => OwnCompletion
    BY DEF IInv
  <1> QED
    BY <1>1, Inductive, PTL

\* "no race where the coroutine survives" (_async_worker.py:292): once the
\* cancel flag is up the coroutine has ended, will not start, or has a
\* cancellation on its way.
THEOREM NoCoroutineSurvives == Spec => []NoOrphan
  <1>1. IInv => NoOrphan
    BY DEF IInv
  <1> QED
    BY <1>1, Inductive, PTL
=============================================================================
