------------------------------ MODULE MCSupport ------------------------------
(***************************************************************************)
(* One run for what the tools take from llvm's Support library and lld's   *)
(* Core: llvm::ThreadPool ("pool"), lld's executor with its task groups    *)
(* ("group"), lock files ("lock") and ManagedStatic ("static").  They      *)
(* share nothing.  A behaviour chooses one of them at the start (part) and *)
(* the others stay as they were initialised; fairness holds for the chosen *)
(* one alone.                                                              *)
(*                                                                         *)
(* The tasks of lld's executor form a tree.  Mixed: main spawns x1 and x2; *)
(* as in parallel_sort x1 spawns x3 into a group and x3 spawns x4 into the *)
(* same, and as in a parallel_for_each called from the tasks of another    *)
(* (OutputELFWriter and AtomSection::write) x1 syncs that group.  Nested:  *)
(* x1 and x2 both sync a group of their own, with one task in each.        *)
(***************************************************************************)
EXTENDS ThreadPool

CONSTANTS
  Parts,    (* the parts that a run checks *)
  Main, GroupThreads, LatchModulus,                            (* see LldTaskGroup *)
  GroupTasks, TreeGroups, TreeGroupOf, TreeSpawnedBy, TreeOwnerOf, TreeFutures,
  LockHostOf, LockCrashes, LockTimeouts, LockOutputs,       (* see LockFileManager *)
  StaticCount, StaticsMade                                    (* see ManagedStatic *)

(* The two trees of the runs.                                               *)
FourTasks    == {"x1", "x2", "x3", "x4"}
MixedGroups  == {"g0", "g1"}
NestedGroups == {"g0", "g1", "g2"}

MixedGroupOf   == [t \in FourTasks |-> IF t \in {"x1", "x2"} THEN "g0" ELSE "g1"]
NestedGroupOf  == [MixedGroupOf EXCEPT !["x4"] = "g2"]
NestedSpawnedBy ==
  [t \in FourTasks |->
     CASE t \in {"x1", "x2"} -> Main
       [] t = "x3"           -> "x1"
       [] t = "x4"           -> "x2"]
MixedSpawnedBy == [NestedSpawnedBy EXCEPT !["x4"] = "x3"]

MixedOwnerOf  == [g \in MixedGroups |-> IF g = "g0" THEN Main ELSE "x1"]
NestedOwnerOf ==
  [g \in NestedGroups |-> IF g = "g2" THEN "x2" ELSE MixedOwnerOf[g]]

LockProcesses == {"p1", "p2", "p3"}
OneHost  == [p \in LockProcesses |-> "here"]
TwoHosts == [OneHost EXCEPT !["p1"] = "there"]

VARIABLES
  part,
  stack, stop, doneCount, worker, taken, count, at, spawning, hasValue,  (* LldTaskGroup *)
  lock, unique, output, step, owner, linking,                     (* LockFileManager *)
  Ptr, StaticList, holder, calls, made, alive, uses               (* ManagedStatic *)

gvars == <<stack, stop, doneCount, worker, taken, count, at, spawning, hasValue>>

G == INSTANCE LldTaskGroup WITH
       ThreadCount  <- GroupThreads,
       Tasks        <- GroupTasks,
       Groups       <- TreeGroups,
       GroupOf      <- TreeGroupOf,
       SpawnedBy    <- TreeSpawnedBy,
       OwnerOf      <- TreeOwnerOf,
       Futures      <- TreeFutures,
       task         <- taken,
       pc           <- at

lvars == <<lock, unique, output, step, owner, linking>>

F == INSTANCE LockFileManager WITH
       Processes      <- DOMAIN LockHostOf,
       HostOf         <- LockHostOf,
       OutputsAtStart <- LockOutputs,
       MaxCrashes     <- LockCrashes,
       Timeouts       <- LockTimeouts,
       pc             <- step

svars == <<Ptr, StaticList, holder, calls, made, alive, uses>>

M == INSTANCE ManagedStatic WITH
       Threads <- Clients, Nobody <- None, Count <- StaticCount, MaxMade <- StaticsMade

ASSUME PartsAssumption ==
  /\ G!ThreadCountAssumption /\ G!LatchAssumption /\ G!TreeAssumption
  /\ F!ProcessAssumption
  /\ M!StaticsAssumption

mcvars == <<part, vars, gvars, lvars, svars>>

MCInit ==
  /\ part \in Parts /\ Init /\ G!Init /\ F!Init /\ M!Init
  /\ part # "lock" => output = "none"

MCNext ==
  \/ part = "pool"   /\ Next   /\ UNCHANGED <<part, gvars, lvars, svars>>
  \/ part = "group"  /\ G!Next /\ UNCHANGED <<part, vars, lvars, svars>>
  \/ part = "lock"   /\ F!Next /\ UNCHANGED <<part, vars, gvars, svars>>
  \/ part = "static" /\ M!Next /\ UNCHANGED <<part, vars, gvars, lvars>>

(* The fairness of ThreadPool, of LldTaskGroup and of LockFileManager.      *)
MCFairness ==
  /\ \A w \in Workers : SF_vars(part = "pool" /\ WorkerStep(w))
  /\ \A c \in Clients : SF_vars(part = "pool" /\ ClientStep(c))
  /\ \A a \in Actors : WF_vars(part = "pool" /\ AsyncNotify(a))
  /\ WF_vars(part = "pool" /\ OwnerStep)
  /\ \A w \in G!GroupWorkers : WF_gvars(part = "group" /\ G!WorkerStep(w))
  /\ \A a \in G!Actors : WF_gvars(part = "group" /\ G!ActorStep(a))
  /\ WF_gvars(part = "group" /\ (G!Stop \/ G!Destroy))
  /\ \A p \in DOMAIN LockHostOf : /\ WF_lvars(part = "lock" /\ F!Step(p))
                                  /\ WF_lvars(part = "lock" /\ F!GiveUpOnHost(p))

MCSpec == MCInit /\ [][MCNext]_mcvars /\ MCFairness

(* Nobody waits for ever.  Every ThreadPool::wait() returns, no worker      *)
(* sleeps through a queued task, and the destructor ends with all run.  Every TaskGroup::sync() and every  *)
(* get() of a future returns, and when the executor is destroyed no worker  *)
(* is inside it any more.  Every process that wants a lock file gets to an  *)
(* end, whoever is killed and wherever.                                     *)
WaitersReturn ==
  /\ WaitReturns
  /\ DestructionEnds
  /\ []NobodyOversleeps
  /\ G!SyncReturns
  /\ []G!NobodyLeftInside
  /\ part = "lock" => F!EveryoneEnds

(* sync() returns only when every task of the group is finished, and each   *)
(* closure runs once, also when tasks spawn into the group they are in.     *)
GroupImplementsBarrier == G!ImplementsBarrier

(* Every caller of sync() or get() goes on in the end (Parallel.h:216-217). *)
SyncReturns == G!SyncReturns

(* A process that ends leaves neither its own file nor a link to it, and a  *)
(* client that was told the lock was released finds an output.              *)
LocksAreReleased == F!NothingLeftBehind /\ F!ReleasedMeansOutput

(* "only a single process can create that .lock file" and "is owned by this *)
(* instance" (LockFileManager.h): there is one owner at a time.             *)
OneOwner == F!OneOwner

(* A static has one object at a time; what an object's creator used is      *)
(* there as long as the object; a shutdown leaves nothing, also of what     *)
(* destructors made.                                                        *)
StaticsAreOrdered == [](M!OneObject /\ M!UsedAreThere) /\ M!NothingLeft
===============================================================================
