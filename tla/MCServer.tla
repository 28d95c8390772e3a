------------------------------ MODULE MCServer ------------------------------
(***************************************************************************)
(* TLC instance of a server: app.run() starts its workers (Supervisor);    *)
(* once they all serve, the acceptor hands them connections (Cluster).  A  *)
(* process that serves alone runs the application's lifespans (Lifespan).  *)
(*                                                                         *)
(* Two workers, the watched one with two tasks, enough for one to finish   *)
(* and notify while the other still runs; two connections, so that picks,  *)
(* completions, failures and removals overlap on one counter; two          *)
(* lifespans, two startup and two shutdown handlers and nine calls, for    *)
(* several cycles with requests before, inside and between them.           *)
(***************************************************************************)
EXTENDS Supervisor, Cluster, Lifespan

CONSTANTS w1, w2, t1, t2, c1, c2

MCWorkers == {w1, w2}
MCTasks == {t1, t2}
MCRequests == [workers : {None, 1, 2}, env : {None, 2}, cpus : {1, 2},
               fork : BOOLEAN, main : BOOLEAN]

MCConns == {c1, c2}

MCAllFail == {"enter", "start", "exit", "stop", "middleware"}

\* All workers serve, and no connection has come in yet.
AllServe == parent = "accept" /\ (\A w \in Workers : child[w] = "serve") /\ Init

\* The lifespans are those of an application served over ASGI, not called yet.
LifespanRests == LifespanInit /\ door = "asgi"

ServerInit ==
  /\ SupInit /\ ClusterInit /\ LifespanInit
  /\ solo \/ LifespanRests

ServerNext ==
  \/ /\ ClusterInit /\ LifespanRests
     /\ SupNext /\ UNCHANGED <<clusterVars, lifespanVars>>
  \/ /\ AllServe
     /\ ClusterNext /\ UNCHANGED <<supVars, lifespanVars>>
  \/ /\ parent = "solo" /\ child[Watched] = "lifespans"
     /\ LifespanNext /\ UNCHANGED <<supVars, clusterVars>>

ServerSpec ==
  /\ ServerInit
  /\ [][ServerNext]_<<supVars, clusterVars, lifespanVars>>
  /\ SupFairness /\ ClusterFairness
=============================================================================
