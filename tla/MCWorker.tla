------------------------------ MODULE MCWorker ------------------------------
(***************************************************************************)
(* TLC instance of the worker loop: WorkerInit, then AsyncWorker.  Two     *)
(* request threads race the first submit and one wait for the loop thread  *)
(* may elapse.  Submits follow a start-up that every thread went through   *)
(* and in which no wait elapsed: overlapping ones over a pool that starts  *)
(* with one gate and keeps one, so that gates are reused, allocated on a   *)
(* miss and discarded at the cap.                                          *)
(***************************************************************************)
EXTENDS AsyncWorker, WorkerInit

CONSTANTS t1, t2, s1, s2, s3, g1, g2, g3

MCThreads == {t1, t2}
MCSubmits == {s1, s2, s3}
MCTimed   == {s1}
MCGates   == {g1, g2, g3}
MCWarm    == {g1}

Started ==
    /\ timeouts = 0
    /\ \E k \in Loops : worker[k] = "running"
    /\ \A t \in Threads : at[t] = "done" /\ gotLoop[t] # NoLoop

LoopInit == StartupInit /\ Init

WorkerNext ==
    \/ StartupNext /\ UNCHANGED vars
    \/ Started /\ Next /\ UNCHANGED startupVars

WorkerSpec ==
    /\ LoopInit
    /\ [][WorkerNext]_<<vars, startupVars>>
    /\ Fairness /\ StartupFairness
=============================================================================
