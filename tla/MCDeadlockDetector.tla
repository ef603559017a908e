-------------------------- MODULE MCDeadlockDetector --------------------------
(***************************************************************************)
(* One run for the deadlock detector in three sizes: three mutexes that    *)
(* are locked, tried and destroyed, with a node for each ("graph"); four   *)
(* that are only locked, enough for two threads to close a loop between a  *)
(* look for it and the edge ("cycle"); and three with so few nodes that    *)
(* the graph is flushed while fast paths read it ("flush").                *)
(***************************************************************************)
EXTENDS Naturals, FiniteSets, TLC

CONSTANTS Threads, Mutexes, None

(* Threads and mutexes are interchangeable.                                 *)
Symmetry == Permutations(Threads) \union Permutations(Mutexes)

VARIABLES
  part, writer, readers, order, id, epoch, available, recycled, g, data, tls, hook, reports,
  looked, missed

ddVars == <<writer, readers, order, id, epoch, available, recycled, g, data, tls, hook, reports,
            looked, missed>>

Graph == INSTANCE DeadlockDetector WITH
  Size <- 3, Modes <- {"write", "try"}, PathSize <- 5, MaxLoopSize <- 5,
  Transient <- Mutexes, MaxAlive <- 3, MaxHeld <- 3, MaxWaits <- 6, MaxEpoch <- 1

Cycle == INSTANCE DeadlockDetector WITH
  Size <- 4, Modes <- {"write"}, PathSize <- 5, MaxLoopSize <- 5,
  Transient <- {}, MaxAlive <- 4, MaxHeld <- 2, MaxWaits <- 4, MaxEpoch <- 1

Flush == INSTANCE DeadlockDetector WITH
  Size <- 2, Modes <- {"write", "read"}, PathSize <- 5, MaxLoopSize <- 5,
  Transient <- Mutexes, MaxAlive <- 3, MaxHeld <- 2, MaxWaits <- 2, MaxEpoch <- 2

MCInit ==
  \/ part = "graph" /\ Graph!Init
  \/ part = "cycle" /\ Cycle!Init
  \/ part = "flush" /\ Flush!Init

MCNext ==
  \/ part = "graph" /\ Graph!Next /\ UNCHANGED part
  \/ part = "cycle" /\ Cycle!Next /\ UNCHANGED part
  \/ part = "flush" /\ Flush!Next /\ UNCHANGED part

MCSpec == MCInit /\ [][MCNext]_<<part, ddVars>>

(* Every edge stands for a wait that happened while both mutexes lived,     *)
(* also after nodes were recycled, the graph was flushed and fast paths     *)
(* read it meanwhile; and until it is flushed every wait has left its edge. *)
EdgesHappened ==
  CASE part = "graph" -> Graph!EdgesHappened /\ Graph!WaitsAreEdges /\ Graph!NoCheckFails
    [] part = "cycle" -> Cycle!EdgesHappened /\ Cycle!WaitsAreEdges /\ Cycle!NoCheckFails
    [] part = "flush" -> Flush!EdgesHappened /\ Flush!WaitsAreEdges /\ Flush!NoCheckFails

(* "Returns true if there is a cycle in the graph after this lock event"    *)
(* (onLockBefore) holds but for one case: until the graph is flushed, a     *)
(* loop of edges that nobody reported was closed by an edge that its thread *)
(* added after another had added one since the look for loops.  The case    *)
(* does occur: with read locks on two mutexes ("flush"), and with exclusive *)
(* locks on four ("cycle": m2 -> m3 and m4 -> m1 are known, one thread adds *)
(* m1 -> m2, another m3 -> m4, both having looked before).                  *)
CyclesAreReported ==
  CASE part = "graph" -> Graph!CyclesAreReported
    [] part = "cycle" -> Cycle!CyclesAreReported
    [] part = "flush" -> Flush!CyclesAreReported
===============================================================================
