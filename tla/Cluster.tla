------------------------------ MODULE Cluster ------------------------------
(***************************************************************************)
(* The multi-worker fd-passing mode of src/cluster.rs: one acceptor        *)
(* process hands accepted TCP connections to worker processes over unix    *)
(* sockets, and keeps for each worker the number of connections it has     *)
(* outstanding, which the worker's completion notices bring down again.    *)
(*                                                                         *)
(* Concurrent actors: the acceptor's main loop, its dispatch tasks (one    *)
(* per connection), its reader tasks (one per worker), and each worker's   *)
(* receive loop, connection tasks and completer task.  The list mutex      *)
(* orders picks, pushes and removals; the outstanding counters are atomics *)
(* that readers and failing dispatches decrement without the mutex.        *)
(***************************************************************************)
EXTENDS Integers, FiniteSets, Sequences

CONSTANTS Procs, Conns, Nobody

ASSUME ClusterAssumption ==
    /\ Nobody \notin Procs /\ Nobody \notin Conns
    /\ IsFiniteSet(Conns)

VARIABLES
    acc,     \* the acceptor process: running, draining or exited
    adding,  \* the worker Workers::add has spawned a reader for, not pushed
    list,    \* Workers.list
    next,    \* Workers.next
    out,     \* out[w]: the worker's outstanding counter
    reader,  \* reader[w]: its completion-notice reader task
    pick,    \* the pick() that holds the list mutex
    conn,    \* conn[c]: where connection c is
    at,      \* at[c]: the worker picked for c
    proc,    \* proc[w]: the worker process
    done,    \* done[w]: completions in the worker's done channel
    notices  \* notices[w]: completion bytes on the socket to the acceptor

clusterVars == <<acc, adding, list, next, out, reader, pick, conn, at, proc, done,
          notices>>

NoPick == [c |-> Nobody, phase |-> "none", k |-> 0, min |-> 0, start |-> 0]

(* Where a connection that was picked for a worker is accounted for.       *)
Held  == {"picked", "sent", "serving"}
Final == {"refused", "failed", "served", "lost"}

ClusterInit ==
    /\ acc = "running"
    /\ adding = Nobody
    /\ list = <<>>
    /\ next = 0
    /\ out = [w \in Procs |-> 0]
    /\ reader = [w \in Procs |-> "none"]
    /\ pick = NoPick
    /\ conn = [c \in Conns |-> "new"]
    /\ at = [c \in Conns |-> Nobody]
    /\ proc = [w \in Procs |-> "starting"]
    /\ done = [w \in Procs |-> 0]
    /\ notices = [w \in Procs |-> 0]

Unlocked == pick = NoPick
OfWorker(w, S) == {c \in Conns : at[c] = w /\ conn[c] \in S}

-----------------------------------------------------------------------------
(* The acceptor.                                                           *)

(* run_acceptor accepts a worker: Workers::add spawns the reader task ...  *)
AddWorker(w) ==
    /\ acc = "running"
    /\ adding = Nobody
    /\ proc[w] \notin {"starting", "absent"}
    /\ reader[w] = "none"
    /\ reader' = [reader EXCEPT ![w] = "reading"]
    /\ adding' = w
    /\ UNCHANGED <<acc, list, next, out, pick, conn, at, proc, done, notices>>

(* ... and then pushes the worker under the mutex.                         *)
PushWorker(w) ==
    /\ adding = w
    /\ Unlocked
    /\ list' = Append(list, w)
    /\ adding' = Nobody
    /\ UNCHANGED <<acc, next, out, reader, pick, conn, at, proc, done, notices>>

(* run_acceptor accepts a TCP connection and spawns dispatch_one for it.   *)
AcceptConn(c) ==
    /\ acc = "running"
    /\ adding = Nobody
    /\ conn[c] = "new"
    /\ conn' = [conn EXCEPT ![c] = "accepted"]
    /\ UNCHANGED <<acc, adding, list, next, out, reader, pick, at, proc, done,
                   notices>>

(* Mutant: an empty list is waited for instead of refusing.                *)
PickLockWaits(c) ==
    /\ acc # "exited"
    /\ conn[c] = "accepted"
    /\ Unlocked
    /\ list # <<>>
    /\ pick' = [c |-> c, phase |-> "load", k |-> 0,
                min |-> Cardinality(Conns), start |-> 0]
    /\ UNCHANGED <<acc, adding, list, next, out, reader, conn, at, proc, done,
                   notices>>

(***************************************************************************)
(* pick, step by step: take the mutex (None when the list is empty); load  *)
(* every counter for the minimum; advance the cursor; scan from it for a   *)
(* counter that still equals the minimum.                                  *)
(***************************************************************************)
PickLock(c) ==
    /\ acc # "exited"
    /\ conn[c] = "accepted"
    /\ Unlocked
    /\ IF list = <<>>
         THEN /\ conn' = [conn EXCEPT ![c] = "refused"]
              /\ UNCHANGED pick
         ELSE /\ pick' = [c |-> c, phase |-> "load", k |-> 0,
                          min |-> Cardinality(Conns), start |-> 0]
              /\ UNCHANGED conn
    /\ UNCHANGED <<acc, adding, list, next, out, reader, at, proc, done,
                   notices>>

PickLoad(c) ==
    /\ pick.c = c /\ pick.phase = "load"
    /\ IF pick.k < Len(list)
         THEN LET load == out[list[pick.k + 1]]
              IN  /\ pick' = [pick EXCEPT !.k = @ + 1,
                                !.min = IF load < @ THEN load ELSE @]
                  /\ UNCHANGED next
         ELSE /\ pick' = [pick EXCEPT !.phase = "scan", !.k = 0,
                                      !.start = next % Len(list)]
              /\ next' = next + 1
    /\ UNCHANGED <<acc, adding, list, out, reader, conn, at, proc, done, notices>>

PickScan(c) ==
    /\ pick.c = c /\ pick.phase = "scan"
    /\ IF pick.k = Len(list)
         THEN /\ conn' = [conn EXCEPT ![c] = "refused"]
              /\ pick' = NoPick
              /\ UNCHANGED <<out, at>>
         ELSE LET w == list[((pick.start + pick.k) % Len(list)) + 1]
              IN  IF out[w] = pick.min
                    THEN /\ out' = [out EXCEPT ![w] = @ + 1]
                         /\ at' = [at EXCEPT ![c] = w]
                         /\ conn' = [conn EXCEPT ![c] = "picked"]
                         /\ pick' = NoPick
                    ELSE /\ pick' = [pick EXCEPT !.k = @ + 1]
                         /\ UNCHANGED <<out, at, conn>>
    /\ UNCHANGED <<acc, adding, list, next, reader, proc, done, notices>>

(* The rest of dispatch_one: pass the fd to a worker that is still there.  *)
SendFd(c) ==
    /\ acc # "exited"
    /\ conn[c] = "picked"
    /\ proc[at[c]] # "exited"
    /\ conn' = [conn EXCEPT ![c] = "sent"]
    /\ UNCHANGED <<acc, adding, list, next, out, reader, pick, at, proc, done,
                   notices>>

(* into_std or send_fd failed: the slot is freed, the connection closed.   *)
DispatchFails(c) ==
    /\ acc # "exited"
    /\ conn[c] = "picked"
    /\ out' = [out EXCEPT ![at[c]] = @ - 1]
    /\ conn' = [conn EXCEPT ![c] = "failed"]
    /\ UNCHANGED <<acc, adding, list, next, reader, pick, at, proc, done,
                   notices>>

(* The reader task: a completion byte, with outstanding > 0, ...           *)
ReadNotice(w) ==
    /\ acc # "exited"
    /\ reader[w] = "reading"
    /\ notices[w] > 0
    /\ notices' = [notices EXCEPT ![w] = @ - 1]
    /\ reader' = [reader EXCEPT ![w] = IF out[w] > 0 THEN "sub" ELSE @]
    /\ UNCHANGED <<acc, adding, list, next, out, pick, conn, at, proc, done>>

(* ... and the fetch_sub that follows the load.                            *)
CountNotice(w) ==
    /\ acc # "exited"
    /\ reader[w] = "sub"
    /\ out' = [out EXCEPT ![w] = @ - 1]
    /\ reader' = [reader EXCEPT ![w] = "reading"]
    /\ UNCHANGED <<acc, adding, list, next, pick, conn, at, proc, done, notices>>

(* The reader sees EOF or an error (which may overtake unread bytes) ...   *)
ReadEof(w) ==
    /\ acc # "exited"
    /\ reader[w] = "reading"
    /\ proc[w] = "exited"
    /\ reader' = [reader EXCEPT ![w] = "removing"]
    /\ notices' = [notices EXCEPT ![w] = 0]
    /\ UNCHANGED <<acc, adding, list, next, out, pick, conn, at, proc, done>>

(* ... and removes the worker from the list under the mutex.               *)
RemoveWorker(w) ==
    /\ acc # "exited"
    /\ reader[w] = "removing"
    /\ Unlocked
    /\ list' = SelectSeq(list, LAMBDA v : v # w)
    /\ reader' = [reader EXCEPT ![w] = "gone"]
    /\ UNCHANGED <<acc, adding, next, out, pick, conn, at, proc, done, notices>>

(* Shutdown of the acceptor, and the end of its drain: no dispatch is left *)
(* or the grace period is over; the tasks and sockets go with it.          *)
StopAcceptor ==
    /\ acc = "running"
    /\ adding = Nobody
    /\ acc' = "draining"
    /\ UNCHANGED <<adding, list, next, out, reader, pick, conn, at, proc, done,
                   notices>>

ExitAcceptor ==
    /\ acc = "draining"
    /\ acc' = "exited"
    /\ pick' = NoPick
    /\ conn' = [c \in Conns |-> IF conn[c] \in {"accepted", "picked"}
                                THEN "lost" ELSE conn[c]]
    /\ UNCHANGED <<adding, list, next, out, reader, at, proc, done, notices>>

-----------------------------------------------------------------------------
(* A worker process.                                                       *)

(* run_worker's retry loop connects (to the backlog of the listener).      *)
ConnectWorker(w) ==
    /\ proc[w] = "starting"
    /\ acc = "running"
    /\ proc' = [proc EXCEPT ![w] = "up"]
    /\ UNCHANGED <<acc, adding, list, next, out, reader, pick, conn, at, done,
                   notices>>

(* The receive loop takes an fd and serves it, or cannot use the fd.       *)
RecvFd(c) ==
    /\ conn[c] = "sent"
    /\ proc[at[c]] = "up"
    /\ conn' = [conn EXCEPT ![c] = "serving"]
    /\ UNCHANGED <<acc, adding, list, next, out, reader, pick, at, proc, done,
                   notices>>

(* Mutant: an fd that cannot be used is dropped without a completion.      *)
RecvBadFdSilently(c) ==
    /\ conn[c] = "sent"
    /\ proc[at[c]] = "up"
    /\ conn' = [conn EXCEPT ![c] = "failed"]
    /\ UNCHANGED <<acc, adding, list, next, out, reader, pick, at, proc, done,
                   notices>>

RecvBadFd(c) ==
    /\ conn[c] = "sent"
    /\ proc[at[c]] = "up"
    /\ conn' = [conn EXCEPT ![c] = "failed"]
    /\ done' = [done EXCEPT ![at[c]] = @ + 1]
    /\ UNCHANGED <<acc, adding, list, next, out, reader, pick, at, proc, notices>>

(* A connection task finishes: one message on the done channel.            *)
FinishConn(c) ==
    /\ conn[c] = "serving"
    /\ proc[at[c]] \in {"up", "draining"}
    /\ conn' = [conn EXCEPT ![c] = "served"]
    /\ done' = [done EXCEPT ![at[c]] = @ + 1]
    /\ UNCHANGED <<acc, adding, list, next, out, reader, pick, at, proc, notices>>

(* The completer writes one byte for it; it returns on a write error.      *)
SendNotice(w) ==
    /\ proc[w] \in {"up", "draining"}
    /\ done[w] > 0
    /\ IF acc = "exited"
         THEN /\ done' = [done EXCEPT ![w] = 0]
              /\ UNCHANGED notices
         ELSE /\ done' = [done EXCEPT ![w] = @ - 1]
              /\ notices' = [notices EXCEPT ![w] = @ + 1]
    /\ UNCHANGED <<acc, adding, list, next, out, reader, pick, conn, at, proc>>

(* A shutdown signal, or EOF from the acceptor, ends the receive loop.     *)
StopWorker(w) ==
    /\ proc[w] = "up"
    /\ proc' = [proc EXCEPT ![w] = "draining"]
    /\ UNCHANGED <<acc, adding, list, next, out, reader, pick, conn, at, done,
                   notices>>

(* What a worker takes with it: fds in its socket, open connections.       *)
LoseConns(w) ==
    conn' = [c \in Conns |-> IF at[c] = w /\ conn[c] \in {"sent", "serving"}
                             THEN "lost" ELSE conn[c]]

(* The retry loop gave up after its 200 attempts.                          *)
GiveUp(w) ==
    /\ proc[w] = "starting"
    /\ proc' = [proc EXCEPT ![w] = "absent"]
    /\ UNCHANGED <<acc, adding, list, next, out, reader, pick, conn, at, done,
                   notices>>

Exit(w) ==
    /\ proc' = [proc EXCEPT ![w] = "exited"]
    /\ done' = [done EXCEPT ![w] = 0]
    /\ LoseConns(w)
    /\ UNCHANGED <<acc, adding, list, next, out, reader, pick, at, notices>>

(* End of the drain: no connection is open and the completer has flushed   *)
(* the done channel, or the grace period ended with connections open.      *)
ExitDrained(w) ==
    /\ proc[w] = "draining"
    /\ OfWorker(w, {"serving"}) = {} => done[w] = 0
    /\ Exit(w)

CrashWorker(w) == proc[w] = "up" /\ Exit(w)

Dispatch(c) == \/ PickLock(c) \/ PickLoad(c) \/ PickScan(c) \/ SendFd(c)
               \/ DispatchFails(c)
Reader(w)   == \/ ReadNotice(w) \/ CountNotice(w) \/ ReadEof(w)
               \/ RemoveWorker(w)

ClusterNext ==
    \/ \E w \in Procs :
          \/ AddWorker(w) \/ PushWorker(w) \/ Reader(w)
          \/ ConnectWorker(w) \/ GiveUp(w) \/ SendNotice(w) \/ StopWorker(w)
          \/ ExitDrained(w) \/ CrashWorker(w)
    \/ \E c \in Conns :
          \/ AcceptConn(c) \/ Dispatch(c)
          \/ RecvFd(c) \/ RecvBadFd(c) \/ FinishConn(c)
    \/ StopAcceptor \/ ExitAcceptor

ClusterSpec == ClusterInit /\ [][ClusterNext]_clusterVars

(***************************************************************************)
(* Fairness: tasks are scheduled, sockets deliver, clients close their     *)
(* connections, the grace period ends.  Shutdowns, crashes and arrivals    *)
(* are not assumed to happen.                                              *)
(***************************************************************************)
ClusterFairness ==
    /\ WF_clusterVars(\E w \in Procs : PushWorker(w))
    /\ \A w \in Procs :
          /\ WF_clusterVars(Reader(w))
          /\ WF_clusterVars(SendNotice(w)) /\ WF_clusterVars(ExitDrained(w))
    /\ \A c \in Conns : WF_clusterVars(Dispatch(c) \/ RecvFd(c) \/ FinishConn(c))

ClusterFairSpec == ClusterSpec /\ ClusterFairness

-----------------------------------------------------------------------------
(***************************************************************************)
(* The load the acceptor balances by is exact: for a live worker whose     *)
(* notices are being read, outstanding counts its connections that are     *)
(* picked, in the socket or being served, plus the completions that are    *)
(* still on their way (done channel, socket, reader).  A dispatch or a     *)
(* completion counted twice, or not at all, would skew routing for good.   *)
(***************************************************************************)
LoadConserved ==
    \A w \in Procs :
        proc[w] \in {"up", "draining"} /\ acc # "exited" =>
            out[w] = Cardinality(OfWorker(w, Held)) + done[w] + notices[w]
                     + (IF reader[w] = "sub" THEN 1 ELSE 0)

(***************************************************************************)
(* outstanding is unsigned: neither the reader's load-then-fetch_sub nor   *)
(* the fetch_sub of a failed dispatch may take it below zero, even while   *)
(* the worker is going away.                                               *)
(***************************************************************************)
NoUnderflow == \A w \in Procs : out[w] >= 0

(***************************************************************************)
(* Every accepted connection is served, or closed by somebody: none is     *)
(* forgotten between the dispatch task, the socket and the worker, unless  *)
(* the acceptor stops first.  (A connection is taken up once, so there is  *)
(* one that stays in hand exactly if there are always some in hand.)       *)
(***************************************************************************)
InHand == {c \in Conns : conn[c] \notin {"new"} \cup Final}
ConnResolved == InHand # {} ~> (InHand = {} \/ acc # "running")
=============================================================================
