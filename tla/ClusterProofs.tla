--------------------------- MODULE ClusterProofs ---------------------------
(***************************************************************************)
(* The load accounting of the acceptor, for any set of workers and any     *)
(* finite set of connections: while the acceptor lives, the counter of a   *)
(* worker is never below what the worker still owes it, and is exactly     *)
(* that until the worker exits.                                            *)
(***************************************************************************)
EXTENDS Cluster, FiniteSetTheorems, TLAPS

Counting(w) == IF reader[w] = "sub" THEN 1 ELSE 0

\* What is still going to be subtracted from outstanding.
Owed(w) == Cardinality(OfWorker(w, Held)) + done[w] + notices[w] + Counting(w)

Types ==
  /\ out \in [Procs -> Int]
  /\ done \in [Procs -> Nat] /\ notices \in [Procs -> Nat]
  /\ reader = [w \in Procs |-> reader[w]]
  /\ proc = [w \in Procs |-> proc[w]]
  /\ conn = [c \in Conns |-> conn[c]]
  /\ at = [c \in Conns |-> at[c]]
  /\ pick = [c |-> pick.c, phase |-> pick.phase, k |-> pick.k, min |-> pick.min,
             start |-> pick.start]

\* The connection that a pick works for has not been picked yet; no pick
\* outlives the acceptor.
PickInv ==
  /\ \A c \in Conns : pick.c = c => conn[c] = "accepted"
  /\ acc = "exited" => pick = NoPick

LoadInv ==
  \A w \in Procs :
    /\ out[w] >= 0
    /\ acc # "exited" => out[w] >= Owed(w)
    /\ acc # "exited" /\ proc[w] # "exited" => out[w] = Owed(w)

Inv == Types /\ PickInv /\ LoadInv

-----------------------------------------------------------------------------

LEMMA OwedNat ==
  ASSUME Types, NEW w \in Procs
  PROVE  /\ Cardinality(OfWorker(w, Held)) \in Nat
         /\ Owed(w) \in Nat
         /\ Owed(w) >= done[w] + notices[w] + Counting(w)
<1>1. IsFiniteSet(OfWorker(w, Held))
  BY ClusterAssumption, FS_Subset DEF OfWorker
<1>2. Cardinality(OfWorker(w, Held)) \in Nat
  BY <1>1, FS_CardinalityType
<1> QED
  BY <1>2 DEF Owed, Types, Counting

LEMMA SameHeld ==
  ASSUME at' = at, \A c \in Conns : conn'[c] \in Held <=> conn[c] \in Held
  PROVE  \A w : OfWorker(w, Held)' = OfWorker(w, Held)
BY DEF OfWorker

LEMMA LeaveHeld ==
  ASSUME Types, NEW c \in Conns, NEW st, at' = at, conn' = [conn EXCEPT ![c] = st],
         conn[c] \in Held, st \notin Held
  PROVE  \A w \in Procs :
           Cardinality(OfWorker(w, Held))' =
             Cardinality(OfWorker(w, Held)) - (IF at[c] = w THEN 1 ELSE 0)
<1> SUFFICES ASSUME NEW w \in Procs
             PROVE  Cardinality(OfWorker(w, Held))' =
                      Cardinality(OfWorker(w, Held)) - (IF at[c] = w THEN 1 ELSE 0)
  OBVIOUS
<1>1. IsFiniteSet(OfWorker(w, Held)) /\ Cardinality(OfWorker(w, Held)) \in Nat
  BY ClusterAssumption, FS_Subset, FS_CardinalityType DEF OfWorker
<1>2. CASE at[c] = w
  <2>1. c \in OfWorker(w, Held) /\ OfWorker(w, Held)' = OfWorker(w, Held) \ {c}
    BY <1>2 DEF OfWorker, Types
  <2>2. Cardinality(OfWorker(w, Held) \ {c}) = Cardinality(OfWorker(w, Held)) - 1
    BY <1>1, <2>1, FS_RemoveElement, Zenon
  <2> QED
    BY <1>2, <2>1, <2>2
<1>3. CASE at[c] # w
  <2>1. OfWorker(w, Held)' = OfWorker(w, Held)
    BY <1>3 DEF OfWorker, Types
  <2> QED
    BY <1>1, <1>3, <2>1
<1> QED
  BY <1>2, <1>3

LEMMA JoinHeld ==
  ASSUME Types, NEW c \in Conns, NEW v, at' = [at EXCEPT ![c] = v],
         conn' = [conn EXCEPT ![c] = "picked"], conn[c] = "accepted"
  PROVE  \A w \in Procs :
           Cardinality(OfWorker(w, Held))' =
             Cardinality(OfWorker(w, Held)) + (IF v = w THEN 1 ELSE 0)
<1> SUFFICES ASSUME NEW w \in Procs
             PROVE  Cardinality(OfWorker(w, Held))' =
                      Cardinality(OfWorker(w, Held)) + (IF v = w THEN 1 ELSE 0)
  OBVIOUS
<1>1. IsFiniteSet(OfWorker(w, Held)) /\ Cardinality(OfWorker(w, Held)) \in Nat
  BY ClusterAssumption, FS_Subset, FS_CardinalityType DEF OfWorker
<1>2. c \notin OfWorker(w, Held)
  BY DEF OfWorker, Held
<1>3. CASE v = w
  <2>1. OfWorker(w, Held)' = OfWorker(w, Held) \cup {c}
    BY <1>3 DEF OfWorker, Types, Held
  <2> QED
    BY <1>1, <1>2, <1>3, <2>1, FS_AddElement
<1>4. CASE v # w
  <2>1. OfWorker(w, Held)' = OfWorker(w, Held)
    BY <1>4 DEF OfWorker, Types, Held
  <2> QED
    BY <1>1, <1>4, <2>1
<1> QED
  BY <1>3, <1>4

LEMMA LoseHeld ==
  ASSUME Types, NEW w \in Procs, at' = at, LoseConns(w)
  PROVE  \A v \in Procs :
           /\ Cardinality(OfWorker(v, Held))' <= Cardinality(OfWorker(v, Held))
           /\ v # w => OfWorker(v, Held)' = OfWorker(v, Held)
<1> SUFFICES ASSUME NEW v \in Procs
             PROVE  /\ Cardinality(OfWorker(v, Held))' <= Cardinality(OfWorker(v, Held))
                    /\ v # w => OfWorker(v, Held)' = OfWorker(v, Held)
  OBVIOUS
<1>1. IsFiniteSet(OfWorker(v, Held))
  BY ClusterAssumption, FS_Subset DEF OfWorker
<1>2. OfWorker(v, Held)' \subseteq OfWorker(v, Held)
  BY DEF OfWorker, LoseConns, Held
<1>3. v # w => OfWorker(v, Held)' = OfWorker(v, Held)
  BY DEF OfWorker, LoseConns, Held
<1> QED
  BY <1>1, <1>2, <1>3, FS_Subset

LEMMA InitInv == ClusterInit => Inv
<1> SUFFICES ASSUME ClusterInit PROVE Inv
  OBVIOUS
<1>1. Types
  BY DEF ClusterInit, Types, NoPick
<1>2. PickInv
  BY ClusterAssumption DEF ClusterInit, PickInv, NoPick
<1>3. ASSUME NEW w \in Procs PROVE out[w] = 0 /\ Owed(w) = 0
  <2>1. OfWorker(w, Held) = {}
    BY DEF ClusterInit, OfWorker, Held
  <2> QED
    BY <2>1, FS_EmptySet DEF ClusterInit, Owed, Counting
<1> QED
  BY <1>1, <1>2, <1>3 DEF Inv, LoadInv

LEMMA ExceptType ==
  ASSUME NEW D, NEW T, NEW f \in [D -> T], NEW x, NEW e, x \in D => e \in T
  PROVE  [f EXCEPT ![x] = e] \in [D -> T]
OBVIOUS

LEMMA CountType ==
  ASSUME NEW D, NEW x
  PROVE  /\ \A f \in [D -> Nat] : [f EXCEPT ![x] = @ + 1] \in [D -> Nat]
         /\ \A f \in [D -> Int] : [f EXCEPT ![x] = @ - 1] \in [D -> Int]
<1>1. ASSUME NEW f \in [D -> Nat] PROVE [f EXCEPT ![x] = @ + 1] \in [D -> Nat]
  <2>1. x \in D => f[x] + 1 \in Nat
    OBVIOUS
  <2> QED
    BY <2>1, Zenon
<1>2. ASSUME NEW f \in [D -> Int] PROVE [f EXCEPT ![x] = @ - 1] \in [D -> Int]
  <2>1. x \in D => f[x] - 1 \in Int
    OBVIOUS
  <2> QED
    BY <2>1, Zenon
<1> QED
  BY <1>1, <1>2, Zenon

LEMMA ExceptDomain ==
  ASSUME NEW D, NEW f, f = [d \in D |-> f[d]], NEW x, NEW e
  PROVE  [f EXCEPT ![x] = e] = [d \in D |-> [f EXCEPT ![x] = e][d]]
OBVIOUS

LEMMA TypesStep == Inv /\ [ClusterNext]_clusterVars => Types'
<1> SUFFICES ASSUME Inv, [ClusterNext]_clusterVars PROVE Types'
  OBVIOUS
<1> USE DEF Inv, Types
<1>1. ASSUME NEW w \in Procs, AddWorker(w) PROVE Types'
  BY <1>1 DEF AddWorker
<1>2. ASSUME NEW w \in Procs, PushWorker(w) PROVE Types'
  BY <1>2 DEF PushWorker
<1>3. ASSUME NEW w \in Procs, ReadNotice(w) PROVE Types'
  <2>1. notices[w] - 1 \in Nat
    BY <1>3 DEF ReadNotice
  <2>2. notices' \in [Procs -> Nat]
    BY <1>3, <2>1, ExceptType, Zenon DEF ReadNotice
  <2>3. reader' = [v \in Procs |-> reader'[v]]
    BY <1>3, ExceptDomain, Zenon DEF ReadNotice
  <2> QED
    BY <1>3, <2>2, <2>3, Zenon DEF ReadNotice
<1>4. ASSUME NEW w \in Procs, CountNotice(w) PROVE Types'
  <2>1. out[w] - 1 \in Int
    OBVIOUS
  <2>2. out' \in [Procs -> Int]
    BY <1>4, <2>1, ExceptType, Zenon DEF CountNotice
  <2>3. reader' = [v \in Procs |-> reader'[v]]
    BY <1>4, ExceptDomain, Zenon DEF CountNotice
  <2> QED
    BY <1>4, <2>2, <2>3, Zenon DEF CountNotice
<1>5. ASSUME NEW w \in Procs, ReadEof(w) PROVE Types'
  BY <1>5 DEF ReadEof
<1>6. ASSUME NEW w \in Procs, RemoveWorker(w) PROVE Types'
  BY <1>6 DEF RemoveWorker
<1>7. ASSUME NEW w \in Procs, ConnectWorker(w) PROVE Types'
  BY <1>7 DEF ConnectWorker
<1>8. ASSUME NEW w \in Procs, GiveUp(w) PROVE Types'
  BY <1>8 DEF GiveUp
<1>9. ASSUME NEW w \in Procs, SendNotice(w) PROVE Types'
  BY <1>9 DEF SendNotice
<1>10. ASSUME NEW w \in Procs, StopWorker(w) PROVE Types'
  BY <1>10 DEF StopWorker
<1>11. ASSUME NEW w \in Procs, ExitDrained(w) PROVE Types'
  BY <1>11 DEF ExitDrained, Exit, LoseConns
<1>12. ASSUME NEW w \in Procs, CrashWorker(w) PROVE Types'
  BY <1>12 DEF CrashWorker, Exit, LoseConns
<1>13. ASSUME NEW c \in Conns, AcceptConn(c) PROVE Types'
  BY <1>13 DEF AcceptConn
<1>14. ASSUME NEW c \in Conns, PickLock(c) PROVE Types'
  BY <1>14 DEF PickLock, Unlocked, NoPick
<1>15. ASSUME NEW c \in Conns, PickLoad(c) PROVE Types'
  BY <1>15 DEF PickLoad
<1>16. ASSUME NEW c \in Conns, PickScan(c) PROVE Types'
  BY <1>16 DEF PickScan, NoPick
<1>17. ASSUME NEW c \in Conns, SendFd(c) PROVE Types'
  BY <1>17 DEF SendFd
<1>18. ASSUME NEW c \in Conns, DispatchFails(c) PROVE Types'
  <2>1. out' \in [Procs -> Int]
    BY <1>18, CountType, Zenon DEF DispatchFails
  <2>2. conn' = [d \in Conns |-> conn'[d]]
    BY <1>18, ExceptDomain, Zenon DEF DispatchFails
  <2> QED
    BY <1>18, <2>1, <2>2, Zenon DEF DispatchFails
<1>19. ASSUME NEW c \in Conns, RecvFd(c) PROVE Types'
  BY <1>19 DEF RecvFd
<1>20. ASSUME NEW c \in Conns, RecvBadFd(c) PROVE Types'
  <2>1. done' \in [Procs -> Nat]
    BY <1>20, CountType, Zenon DEF RecvBadFd
  <2>2. conn' = [d \in Conns |-> conn'[d]]
    BY <1>20, ExceptDomain, Zenon DEF RecvBadFd
  <2> QED
    BY <1>20, <2>1, <2>2, Zenon DEF RecvBadFd
<1>21. ASSUME NEW c \in Conns, FinishConn(c) PROVE Types'
  <2>1. done' \in [Procs -> Nat]
    BY <1>21, CountType, Zenon DEF FinishConn
  <2>2. conn' = [d \in Conns |-> conn'[d]]
    BY <1>21, ExceptDomain, Zenon DEF FinishConn
  <2> QED
    BY <1>21, <2>1, <2>2, Zenon DEF FinishConn
<1>22. CASE StopAcceptor
  BY <1>22 DEF StopAcceptor
<1>23. CASE ExitAcceptor
  BY <1>23 DEF ExitAcceptor, NoPick
<1>24. CASE UNCHANGED clusterVars
  BY <1>24 DEF clusterVars
<1> QED
  BY <1>1, <1>2, <1>3, <1>4, <1>5, <1>6, <1>7, <1>8, <1>9, <1>10, <1>11, <1>12, <1>13,
     <1>14, <1>15, <1>16, <1>17, <1>18, <1>19, <1>20, <1>21, <1>22, <1>23, <1>24
  DEF ClusterNext, Dispatch, Reader

LEMMA PickStep == Inv /\ [ClusterNext]_clusterVars => PickInv'
<1> SUFFICES ASSUME Inv, [ClusterNext]_clusterVars PROVE PickInv'
  OBVIOUS
<1> USE ClusterAssumption DEF Inv, Types, PickInv, NoPick
<1>1. ASSUME NEW w \in Procs, AddWorker(w) PROVE PickInv'
  BY <1>1 DEF AddWorker
<1>2. ASSUME NEW w \in Procs, PushWorker(w) PROVE PickInv'
  BY <1>2 DEF PushWorker, Unlocked
<1>3. ASSUME NEW w \in Procs, ReadNotice(w) PROVE PickInv'
  BY <1>3 DEF ReadNotice
<1>4. ASSUME NEW w \in Procs, CountNotice(w) PROVE PickInv'
  BY <1>4 DEF CountNotice
<1>5. ASSUME NEW w \in Procs, ReadEof(w) PROVE PickInv'
  BY <1>5 DEF ReadEof
<1>6. ASSUME NEW w \in Procs, RemoveWorker(w) PROVE PickInv'
  BY <1>6 DEF RemoveWorker
<1>7. ASSUME NEW w \in Procs, ConnectWorker(w) PROVE PickInv'
  BY <1>7 DEF ConnectWorker
<1>8. ASSUME NEW w \in Procs, GiveUp(w) PROVE PickInv'
  BY <1>8 DEF GiveUp
<1>9. ASSUME NEW w \in Procs, SendNotice(w) PROVE PickInv'
  BY <1>9 DEF SendNotice
<1>10. ASSUME NEW w \in Procs, StopWorker(w) PROVE PickInv'
  BY <1>10 DEF StopWorker
<1>11. ASSUME NEW w \in Procs, ExitDrained(w) PROVE PickInv'
  BY <1>11 DEF ExitDrained, Exit, LoseConns
<1>12. ASSUME NEW w \in Procs, CrashWorker(w) PROVE PickInv'
  BY <1>12 DEF CrashWorker, Exit, LoseConns
<1>13. ASSUME NEW c \in Conns, AcceptConn(c) PROVE PickInv'
  BY <1>13 DEF AcceptConn
<1>14. ASSUME NEW c \in Conns, PickLock(c) PROVE PickInv'
  BY <1>14 DEF PickLock, Unlocked
<1>15. ASSUME NEW c \in Conns, PickLoad(c) PROVE PickInv'
  <2>1. pick.c = c /\ pick'.c = pick.c /\ UNCHANGED <<conn, acc>>
    BY <1>15 DEF PickLoad
  <2>2. acc # "exited"
    BY <2>1
  <2> QED
    BY <2>1, <2>2
<1>16. ASSUME NEW c \in Conns, PickScan(c) PROVE PickInv'
  <2>1. /\ pick.c = c /\ acc' = acc
        /\ pick' = NoPick \/ (pick'.c = pick.c /\ conn' = conn)
    BY <1>16 DEF PickScan
  <2>2. acc # "exited"
    BY <2>1
  <2> QED
    BY <2>1, <2>2
<1>17. ASSUME NEW c \in Conns, SendFd(c) PROVE PickInv'
  BY <1>17 DEF SendFd
<1>18. ASSUME NEW c \in Conns, DispatchFails(c) PROVE PickInv'
  BY <1>18 DEF DispatchFails
<1>19. ASSUME NEW c \in Conns, RecvFd(c) PROVE PickInv'
  BY <1>19 DEF RecvFd
<1>20. ASSUME NEW c \in Conns, RecvBadFd(c) PROVE PickInv'
  BY <1>20 DEF RecvBadFd
<1>21. ASSUME NEW c \in Conns, FinishConn(c) PROVE PickInv'
  BY <1>21 DEF FinishConn
<1>22. CASE StopAcceptor
  BY <1>22 DEF StopAcceptor
<1>23. CASE ExitAcceptor
  BY <1>23 DEF ExitAcceptor
<1>24. CASE UNCHANGED clusterVars
  BY <1>24 DEF clusterVars
<1> QED
  BY <1>1, <1>2, <1>3, <1>4, <1>5, <1>6, <1>7, <1>8, <1>9, <1>10, <1>11, <1>12, <1>13,
     <1>14, <1>15, <1>16, <1>17, <1>18, <1>19, <1>20, <1>21, <1>22, <1>23, <1>24
  DEF ClusterNext, Dispatch, Reader

\* A step keeps the account of v: the counter and what is owed move together,
\* except that a worker that exits may owe less.
Balanced(v) ==
  /\ acc' = "exited" => out'[v] = out[v]
  /\ acc' # "exited" =>
       /\ acc # "exited"
       /\ out'[v] - Owed(v)' >= out[v] - Owed(v)
       /\ proc'[v] # "exited" =>
            proc[v] # "exited" /\ out'[v] - Owed(v)' = out[v] - Owed(v)

LEMMA BalancedKeeps ==
  ASSUME Inv, Types', \A v \in Procs : Balanced(v)
  PROVE  LoadInv'
<1> SUFFICES ASSUME NEW v \in Procs
             PROVE  /\ out'[v] >= 0
                    /\ acc' # "exited" => out'[v] >= Owed(v)'
                    /\ acc' # "exited" /\ proc'[v] # "exited" => out'[v] = Owed(v)'
  BY DEF LoadInv
<1>1. out[v] \in Int /\ out'[v] \in Int
  BY DEF Inv, Types
<1>2. Owed(v) \in Nat
  BY OwedNat DEF Inv
<1>3. Owed(v)' \in Nat
  <2>1. IsFiniteSet(OfWorker(v, Held)')
    BY ClusterAssumption, FS_Subset DEF OfWorker
  <2>2. Cardinality(OfWorker(v, Held)') \in Nat
    BY <2>1, FS_CardinalityType
  <2> QED
    BY <2>2 DEF Owed, Types, Counting
<1>4. /\ out[v] >= 0
      /\ acc # "exited" => out[v] >= Owed(v)
      /\ acc # "exited" /\ proc[v] # "exited" => out[v] = Owed(v)
  BY DEF Inv, LoadInv
<1> QED
  BY <1>1, <1>2, <1>3, <1>4 DEF Balanced

\* A step that leaves the counter of v and all it owes as they are.
LEMMA Untouched ==
  ASSUME Inv, NEW v \in Procs, out'[v] = out[v], done'[v] = done[v],
         notices'[v] = notices[v], Counting(v)' = Counting(v),
         OfWorker(v, Held)' = OfWorker(v, Held),
         proc'[v] # "exited" => proc[v] # "exited",
         acc' # "exited" => acc # "exited"
  PROVE  Balanced(v)
<1>1. Owed(v)' = Owed(v)
  BY DEF Owed
<1>2. Owed(v) \in Nat /\ out[v] \in Int
  BY OwedNat DEF Inv, Types
<1> QED
  BY <1>1, <1>2 DEF Balanced

LEMMA LoadStep == Inv /\ [ClusterNext]_clusterVars => LoadInv'
<1> SUFFICES ASSUME Inv, [ClusterNext]_clusterVars PROVE LoadInv'
  OBVIOUS
<1>0. Types'
  BY TypesStep
<1> SUFFICES ASSUME NEW v \in Procs PROVE Balanced(v)
  BY <1>0, BalancedKeeps
<1>a. Types /\ PickInv /\ LoadInv
  BY DEF Inv
<1>b. /\ out[v] \in Int /\ done[v] \in Nat /\ notices[v] \in Nat /\ Counting(v) \in {0, 1}
      /\ Cardinality(OfWorker(v, Held)) \in Nat /\ Owed(v) \in Nat
  BY <1>a, OwedNat DEF Types, Counting
<1>c. ASSUME UNCHANGED <<at, conn>> PROVE OfWorker(v, Held)' = OfWorker(v, Held)
  BY <1>c DEF OfWorker
<1>1. ASSUME NEW w \in Procs, AddWorker(w) PROVE Balanced(v)
  <2>1. Counting(v)' = Counting(v)
    BY <1>1, <1>a DEF AddWorker, Counting, Types
  <2> QED
    BY <1>1, <1>c, <2>1, Untouched DEF AddWorker
<1>2. ASSUME NEW w \in Procs, PushWorker(w) PROVE Balanced(v)
  BY <1>2, <1>c, Untouched DEF PushWorker, Counting
<1>3. ASSUME NEW w \in Procs, ReadNotice(w) PROVE Balanced(v)
  <2>1. UNCHANGED <<acc, out, conn, at, proc, done>> /\ acc # "exited"
    BY <1>3 DEF ReadNotice
  <2>2. CASE v = w
    <3>1. out[w] > 0
      BY <1>3, <1>a, <1>b, <2>2, OwedNat DEF ReadNotice, LoadInv
    <3>2. notices'[v] = notices[v] - 1 /\ Counting(v)' = Counting(v) + 1
      BY <1>3, <1>a, <2>2, <3>1 DEF ReadNotice, Types, Counting
    <3>3. Owed(v)' = Owed(v)
      BY <1>b, <1>c, <2>1, <3>2 DEF Owed
    <3> QED
      BY <1>b, <2>1, <3>3 DEF Balanced
  <2>3. CASE v # w
    <3>1. notices'[v] = notices[v] /\ Counting(v)' = Counting(v)
      BY <1>3, <1>a, <2>3 DEF ReadNotice, Types, Counting
    <3> QED
      BY <1>c, <2>1, <3>1, Untouched
  <2> QED
    BY <2>2, <2>3
<1>4. ASSUME NEW w \in Procs, CountNotice(w) PROVE Balanced(v)
  <2>1. UNCHANGED <<acc, conn, at, proc, done, notices>> /\ acc # "exited"
    BY <1>4 DEF CountNotice
  <2>2. CASE v = w
    <3>1. out'[v] = out[v] - 1 /\ Counting(v)' = Counting(v) - 1
      BY <1>4, <1>a, <2>2 DEF CountNotice, Types, Counting
    <3>2. Owed(v)' = Owed(v) - 1
      BY <1>b, <1>c, <2>1, <3>1 DEF Owed
    <3> QED
      BY <1>b, <2>1, <3>1, <3>2 DEF Balanced
  <2>3. CASE v # w
    <3>1. out'[v] = out[v] /\ Counting(v)' = Counting(v)
      BY <1>4, <1>a, <2>3 DEF CountNotice, Types, Counting
    <3> QED
      BY <1>c, <2>1, <3>1, Untouched
  <2> QED
    BY <2>2, <2>3
<1>5. ASSUME NEW w \in Procs, ReadEof(w) PROVE Balanced(v)
  <2>1. UNCHANGED <<acc, out, conn, at, proc, done>> /\ acc # "exited" /\ proc[w] = "exited"
    BY <1>5 DEF ReadEof
  <2>2. Counting(v)' = Counting(v)
    BY <1>5, <1>a DEF ReadEof, Types, Counting
  <2>3. CASE v = w
    <3>1. notices'[v] = 0
      BY <1>5, <1>a, <2>3 DEF ReadEof, Types
    <3>2. Owed(v)' <= Owed(v) /\ Owed(v)' \in Nat
      BY <1>b, <1>c, <2>1, <2>2, <3>1 DEF Owed
    <3> QED
      BY <1>b, <2>1, <2>3, <3>2 DEF Balanced
  <2>4. CASE v # w
    <3>1. notices'[v] = notices[v]
      BY <1>5, <1>a, <2>4 DEF ReadEof, Types
    <3> QED
      BY <1>c, <2>1, <2>2, <3>1, Untouched
  <2> QED
    BY <2>3, <2>4
<1>6. ASSUME NEW w \in Procs, RemoveWorker(w) PROVE Balanced(v)
  <2>1. Counting(v)' = Counting(v)
    BY <1>6, <1>a DEF RemoveWorker, Counting, Types
  <2> QED
    BY <1>6, <1>c, <2>1, Untouched DEF RemoveWorker
<1>7. ASSUME NEW w \in Procs, ConnectWorker(w) PROVE Balanced(v)
  <2>1. proc'[v] # "exited" => proc[v] # "exited"
    BY <1>7, <1>a DEF ConnectWorker, Types
  <2> QED
    BY <1>7, <1>c, <2>1, Untouched DEF ConnectWorker, Counting
<1>8. ASSUME NEW w \in Procs, GiveUp(w) PROVE Balanced(v)
  <2>1. proc'[v] # "exited" => proc[v] # "exited"
    BY <1>8, <1>a DEF GiveUp, Types
  <2> QED
    BY <1>8, <1>c, <2>1, Untouched DEF GiveUp, Counting
<1>9. ASSUME NEW w \in Procs, StopWorker(w) PROVE Balanced(v)
  <2>1. proc'[v] # "exited" => proc[v] # "exited"
    BY <1>9, <1>a DEF StopWorker, Types
  <2> QED
    BY <1>9, <1>c, <2>1, Untouched DEF StopWorker, Counting
<1>10. ASSUME NEW w \in Procs, SendNotice(w) PROVE Balanced(v)
  <2>1. UNCHANGED <<acc, out, conn, at, proc, reader>> /\ Counting(v)' = Counting(v)
    BY <1>10 DEF SendNotice, Counting
  <2>2. CASE acc = "exited"
    BY <2>1, <2>2 DEF Balanced
  <2>3. CASE acc # "exited" /\ v = w
    <3>1. done'[v] = done[v] - 1 /\ notices'[v] = notices[v] + 1
      BY <1>10, <1>a, <2>3 DEF SendNotice, Types
    <3>2. Owed(v)' = Owed(v)
      BY <1>b, <1>c, <2>1, <3>1 DEF Owed
    <3> QED
      BY <1>b, <2>1, <2>3, <3>2 DEF Balanced
  <2>4. CASE acc # "exited" /\ v # w
    <3>1. done'[v] = done[v] /\ notices'[v] = notices[v]
      BY <1>10, <1>a, <2>4 DEF SendNotice, Types
    <3> QED
      BY <1>c, <2>1, <3>1, Untouched
  <2> QED
    BY <2>2, <2>3, <2>4
<1>11. ASSUME NEW w \in Procs, Exit(w) PROVE Balanced(v)
  <2>1. /\ UNCHANGED <<acc, out, at, notices, reader>> /\ LoseConns(w)
        /\ Counting(v)' = Counting(v)
    BY <1>11 DEF Exit, Counting
  <2>2. CASE acc = "exited"
    BY <2>1, <2>2 DEF Balanced
  <2>3. CASE acc # "exited" /\ v = w
    <3>1. done'[v] = 0 /\ proc'[v] = "exited"
      BY <1>11, <1>a, <2>3 DEF Exit, Types
    <3>2. Cardinality(OfWorker(v, Held))' <= Cardinality(OfWorker(v, Held))
      BY <1>a, <2>1, LoseHeld
    <3>3. Cardinality(OfWorker(v, Held))' \in Nat
      <4>1. IsFiniteSet(OfWorker(v, Held)')
        BY ClusterAssumption, FS_Subset DEF OfWorker
      <4> QED
        BY <4>1, FS_CardinalityType
    <3>4. Owed(v)' <= Owed(v) /\ Owed(v)' \in Nat
      BY <1>b, <2>1, <3>1, <3>2, <3>3 DEF Owed
    <3> QED
      BY <1>b, <2>1, <2>3, <3>1, <3>4 DEF Balanced
  <2>4. CASE acc # "exited" /\ v # w
    <3>1. done'[v] = done[v] /\ proc'[v] = proc[v]
      BY <1>11, <1>a, <2>4 DEF Exit, Types
    <3>2. OfWorker(v, Held)' = OfWorker(v, Held)
      BY <1>a, <2>1, <2>4, LoseHeld
    <3> QED
      BY <2>1, <3>1, <3>2, Untouched
  <2> QED
    BY <2>2, <2>3, <2>4
<1>12. ASSUME NEW c \in Conns, AcceptConn(c) PROVE Balanced(v)
  <2>1. \A d \in Conns : conn'[d] \in Held <=> conn[d] \in Held
    BY <1>12, <1>a DEF AcceptConn, Types, Held
  <2>2. OfWorker(v, Held)' = OfWorker(v, Held)
    BY <1>12, <2>1, SameHeld DEF AcceptConn
  <2> QED
    BY <1>12, <2>2, Untouched DEF AcceptConn, Counting
<1>13. ASSUME NEW c \in Conns, PickLock(c) PROVE Balanced(v)
  <2>1. \A d \in Conns : conn'[d] \in Held <=> conn[d] \in Held
    BY <1>13, <1>a DEF PickLock, Types, Held
  <2>2. OfWorker(v, Held)' = OfWorker(v, Held)
    BY <1>13, <2>1, SameHeld DEF PickLock
  <2> QED
    BY <1>13, <2>2, Untouched DEF PickLock, Counting
<1>14. ASSUME NEW c \in Conns, SendFd(c) PROVE Balanced(v)
  <2>1. \A d \in Conns : conn'[d] \in Held <=> conn[d] \in Held
    BY <1>14, <1>a DEF SendFd, Types, Held
  <2>2. OfWorker(v, Held)' = OfWorker(v, Held)
    BY <1>14, <2>1, SameHeld DEF SendFd
  <2> QED
    BY <1>14, <2>2, Untouched DEF SendFd, Counting
<1>15. ASSUME NEW c \in Conns, RecvFd(c) PROVE Balanced(v)
  <2>1. \A d \in Conns : conn'[d] \in Held <=> conn[d] \in Held
    BY <1>15, <1>a DEF RecvFd, Types, Held
  <2>2. OfWorker(v, Held)' = OfWorker(v, Held)
    BY <1>15, <2>1, SameHeld DEF RecvFd
  <2> QED
    BY <1>15, <2>2, Untouched DEF RecvFd, Counting
<1>16. ASSUME NEW c \in Conns, PickLoad(c) PROVE Balanced(v)
  BY <1>16, <1>c, Untouched DEF PickLoad, Counting
<1>17. ASSUME NEW c \in Conns, PickScan(c) PROVE Balanced(v)
  <2>1. UNCHANGED <<acc, proc, done, notices, reader>> /\ Counting(v)' = Counting(v)
    BY <1>17 DEF PickScan, Counting
  <2>2. conn[c] = "accepted" /\ acc # "exited"
    BY <1>17, <1>a, ClusterAssumption DEF PickScan, PickInv, NoPick
  <2>3. CASE /\ out' = out /\ at' = at
             /\ conn' = conn \/ conn' = [conn EXCEPT ![c] = "refused"]
    <3>1. \A d \in Conns : conn'[d] \in Held <=> conn[d] \in Held
      BY <1>a, <2>2, <2>3 DEF Types, Held
    <3>2. OfWorker(v, Held)' = OfWorker(v, Held)
      BY <2>3, <3>1, SameHeld
    <3> QED
      BY <2>1, <2>3, <3>2, Untouched
  <2>4. ASSUME NEW u, out' = [out EXCEPT ![u] = @ + 1], at' = [at EXCEPT ![c] = u],
               conn' = [conn EXCEPT ![c] = "picked"]
        PROVE  Balanced(v)
    <3>1. Cardinality(OfWorker(v, Held))' =
            Cardinality(OfWorker(v, Held)) + (IF u = v THEN 1 ELSE 0)
      BY <1>a, <2>2, <2>4, JoinHeld
    <3>2. out'[v] = out[v] + (IF u = v THEN 1 ELSE 0)
      <4>1. out \in [Procs -> Int]
        BY <1>a DEF Types
      <4> QED
        BY <4>1, <2>4
    <3>3. Owed(v)' = Owed(v) + (IF u = v THEN 1 ELSE 0)
      BY <1>b, <2>1, <3>1 DEF Owed
    <3> QED
      BY <1>b, <2>1, <2>2, <3>2, <3>3 DEF Balanced
  <2> QED
    BY <1>17, <2>3, <2>4 DEF PickScan
<1>18. ASSUME NEW c \in Conns, DispatchFails(c) PROVE Balanced(v)
  <2>1. UNCHANGED <<acc, at, proc, done, notices, reader>> /\ Counting(v)' = Counting(v)
        /\ acc # "exited"
    BY <1>18 DEF DispatchFails, Counting
  <2>2. Cardinality(OfWorker(v, Held))' =
          Cardinality(OfWorker(v, Held)) - (IF at[c] = v THEN 1 ELSE 0)
    BY <1>18, <1>a, LeaveHeld DEF DispatchFails, Held
  <2>3. out'[v] = out[v] - (IF at[c] = v THEN 1 ELSE 0)
    BY <1>18, <1>a, <1>b DEF DispatchFails, Types
  <2>4. Owed(v)' = Owed(v) - (IF at[c] = v THEN 1 ELSE 0)
    BY <1>b, <2>1, <2>2 DEF Owed
  <2> QED
    BY <1>b, <2>1, <2>3, <2>4 DEF Balanced
<1>19. ASSUME NEW c \in Conns, RecvBadFd(c) PROVE Balanced(v)
  <2>1. UNCHANGED <<acc, at, proc, out, notices, reader>> /\ Counting(v)' = Counting(v)
    BY <1>19 DEF RecvBadFd, Counting
  <2>2. Cardinality(OfWorker(v, Held))' =
          Cardinality(OfWorker(v, Held)) - (IF at[c] = v THEN 1 ELSE 0)
    BY <1>19, <1>a, LeaveHeld DEF RecvBadFd, Held
  <2>3. done'[v] = done[v] + (IF at[c] = v THEN 1 ELSE 0)
    BY <1>19, <1>a, <1>b DEF RecvBadFd, Types
  <2>4. Owed(v)' = Owed(v)
    BY <1>b, <2>1, <2>2, <2>3 DEF Owed
  <2> QED
    BY <1>b, <2>1, <2>4 DEF Balanced
<1>20. ASSUME NEW c \in Conns, FinishConn(c) PROVE Balanced(v)
  <2>1. UNCHANGED <<acc, at, proc, out, notices, reader>> /\ Counting(v)' = Counting(v)
    BY <1>20 DEF FinishConn, Counting
  <2>2. Cardinality(OfWorker(v, Held))' =
          Cardinality(OfWorker(v, Held)) - (IF at[c] = v THEN 1 ELSE 0)
    BY <1>20, <1>a, LeaveHeld DEF FinishConn, Held
  <2>3. done'[v] = done[v] + (IF at[c] = v THEN 1 ELSE 0)
    BY <1>20, <1>a, <1>b DEF FinishConn, Types
  <2>4. Owed(v)' = Owed(v)
    BY <1>b, <2>1, <2>2, <2>3 DEF Owed
  <2> QED
    BY <1>b, <2>1, <2>4 DEF Balanced
<1>21. CASE StopAcceptor
  BY <1>21, <1>c, Untouched DEF StopAcceptor, Counting
<1>22. CASE ExitAcceptor
  BY <1>22 DEF ExitAcceptor, Balanced
<1>23. CASE UNCHANGED clusterVars
  BY <1>23, <1>c, Untouched DEF clusterVars, Counting
<1> QED
  BY <1>1, <1>2, <1>3, <1>4, <1>5, <1>6, <1>7, <1>8, <1>9, <1>10, <1>11, <1>12, <1>13,
     <1>14, <1>15, <1>16, <1>17, <1>18, <1>19, <1>20, <1>21, <1>22, <1>23
     DEF ClusterNext, Dispatch, Reader, ExitDrained, CrashWorker

LEMMA Inductive == ClusterSpec => []Inv
<1>1. Inv /\ [ClusterNext]_clusterVars => Inv'
  BY TypesStep, PickStep, LoadStep DEF Inv
<1> QED
  BY <1>1, InitInv, PTL DEF ClusterSpec

-----------------------------------------------------------------------------

\* LoadConserved for any set of workers and any finite set of connections: the
\* outstanding counter that pick() balances by is exactly what the worker still
\* owes, through failed dispatches, bad fds, drains and crashes of the others.
THEOREM LoadIsExact == ClusterSpec => []LoadConserved
<1>1. Inv => LoadConserved
  BY DEF Inv, LoadInv, LoadConserved, Owed, Counting
<1> QED
  BY <1>1, Inductive, PTL

\* NoUnderflow for any set of workers and any finite set of connections: the
\* reader's load-then-fetch_sub and the fetch_sub of a failed dispatch never
\* take the unsigned counter below zero, even as the worker goes away.
THEOREM CounterNeverUnderflows == ClusterSpec => []NoUnderflow
<1>1. Inv => NoUnderflow
  BY DEF Inv, LoadInv, NoUnderflow
<1> QED
  BY <1>1, Inductive, PTL

=============================================================================
