----------------------------- MODULE LldTaskGroup -----------------------------
(***************************************************************************)
(* lld's TaskGroup on its ThreadPoolExecutor, include/lld/Core/Parallel.h: *)
(* closures on a stack that detached worker threads empty, and a latch per *)
(* group that counts the closures not finished yet.  Callers wait on the   *)
(* latch, or for the Future that one closure sets.                         *)
(*                                                                         *)
(* The tasks form a tree below Main, the linker's main thread: whoever     *)
(* runs the code of a task or of Main spawns its children, perhaps reads   *)
(* their futures, and then syncs the group it owns, if it owns one.        *)
(* parallel_sort spawns all its tasks into one group that Main owns;       *)
(* parallel_for_each has a group of its own wherever it is called, and     *)
(* syncs it in ~TaskGroup.                                                 *)
(*                                                                         *)
(* Every operation of Latch and Future is one critical section.            *)
(***************************************************************************)
EXTENDS Integers, FiniteSets, Sequences, Functions

CONSTANTS
  ThreadCount,   (* the executor's argument, hardware_concurrency() *)
  LatchModulus,  (* 2^32 in the code: _count is a uint32_t *)
  Tasks,
  Groups,
  Main, None,
  GroupOf,       (* GroupOf[t]: the group task t is spawned into *)
  SpawnedBy,     (* SpawnedBy[t]: the task, or Main, whose code spawns t *)
  OwnerOf,       (* OwnerOf[g]: the task, or Main, that syncs group g *)
  Futures        (* the tasks whose result their parent reads *)

Actors == Tasks \cup {Main}

ThreadCountAssumption == ThreadCount \in Nat
LatchAssumption == LatchModulus \in Nat /\ LatchModulus > Cardinality(Tasks)
TreeAssumption ==
  /\ IsFiniteSet(Tasks) /\ {Main, None} \cap Tasks = {}
  /\ GroupOf \in [Tasks -> Groups]
  /\ SpawnedBy \in [Tasks -> Actors]
  /\ OwnerOf \in [Groups -> Actors]

(* The executor starts at least one worker: the thread that spawns the      *)
(* others calls work() itself.                                              *)
GroupWorkers == 1 .. (IF ThreadCount = 0 THEN 1 ELSE ThreadCount)

VARIABLES
  stack,     (* _workStack, the top first *)
  stop,      (* _stop *)
  doneCount, (* the count of the latch _done *)
  worker,    (* worker[w]: "lock", "asleep", "run", "dec" or "exited" *)
  task,      (* task[w]: what w runs *)
  count,     (* count[g]: the count of the group's latch *)
  pc,        (* pc[a]: where the code of a stands *)
  spawning,  (* spawning[a]: the child between _latch.inc() and notify_one() *)
  hasValue   (* the tasks whose future is set *)

vars == <<stack, stop, doneCount, worker, task, count, pc, spawning, hasValue>>

Owned(a)    == {g \in Groups : OwnerOf[g] = a}
Children(a) == {t \in Tasks : SpawnedBy[t] = a}

ActorPCs == {"absent", "queued", "code", "add", "notify", "get", "getting",
             "sync", "syncing", "dec", "finished", "stopping", "gone"}

Init ==
  /\ stack = <<>>
  /\ stop = FALSE
  /\ doneCount = ThreadCount
  /\ worker = [w \in GroupWorkers |-> "lock"]
  /\ task = [w \in GroupWorkers |-> None]
  /\ count = [g \in Groups |-> 0]
  /\ pc = [a \in Actors |-> IF a = Main THEN "code" ELSE "absent"]
  /\ spawning = [a \in Actors |-> None]
  /\ hasValue = {}

Less(n) == (n + LatchModulus - 1) % LatchModulus   (* --_count *)

Goto(a, from, to) ==
  /\ pc[a] = from
  /\ pc' = [pc EXCEPT ![a] = to]

-------------------------------------------------------------------------------
(* Mutant: the latch is incremented when the closure runs.                  *)
SpawnWithoutInc(a, t) ==
  /\ t \in Children(a)
  /\ pc[t] = "absent"
  /\ Goto(a, "code", "add")
  /\ spawning' = [spawning EXCEPT ![a] = t]
  /\ UNCHANGED <<stack, stop, doneCount, worker, task, count, hasValue>>

(* spawn(): _latch.inc() ...                                                *)
Spawn(a, t) ==
  /\ t \in Children(a)
  /\ pc[t] = "absent"
  /\ Goto(a, "code", "add")
  /\ count' = [count EXCEPT ![GroupOf[t]] = (@ + 1) % LatchModulus]
  /\ spawning' = [spawning EXCEPT ![a] = t]
  /\ UNCHANGED <<stack, stop, doneCount, worker, task, hasValue>>

(* ... and add(): push under the lock ...                                   *)
Add(a) ==
  /\ pc[a] = "add"
  /\ pc' = [pc EXCEPT ![a] = "notify", ![spawning[a]] = "queued"]
  /\ stack' = <<spawning[a]>> \o stack
  /\ spawning' = [spawning EXCEPT ![a] = None]
  /\ UNCHANGED <<stop, doneCount, worker, task, count, hasValue>>

(* ... and notify_one() without it.                                         *)
Notify(a) ==
  LET asleep == {w \in GroupWorkers : worker[w] = "asleep"} IN
  /\ Goto(a, "notify", "code")
  /\ IF asleep = {}
     THEN UNCHANGED worker
     ELSE \E w \in asleep : worker' = [worker EXCEPT ![w] = "lock"]
  /\ UNCHANGED <<stack, stop, doneCount, task, count, spawning, hasValue>>

(* Future::get() of a child's result, any number of times.                  *)
Get(a, t) ==
  /\ t \in Futures \cap Children(a)
  /\ pc[t] # "absent"
  /\ pc[a] = "code" \/ (pc[a] = "getting" /\ spawning[a] = t)
  /\ IF t \in hasValue
     THEN /\ pc[a] = "getting"
          /\ pc' = [pc EXCEPT ![a] = "code"]
          /\ spawning' = [spawning EXCEPT ![a] = None]
     ELSE /\ pc[a] = "code"
          /\ pc' = [pc EXCEPT ![a] = "getting"]
          /\ spawning' = [spawning EXCEPT ![a] = t]
  /\ UNCHANGED <<stack, stop, doneCount, worker, task, count, hasValue>>

(* The code of a ends, all children spawned: a task has set its future by   *)
(* then.  What is left is sync(), explicit or in ~TaskGroup, and for a task *)
(* the dec() of the group it belongs to.                                    *)
EndCode(a) ==
  /\ \A t \in Children(a) : pc[t] # "absent"
  /\ Goto(a, "code", IF Owned(a) # {} THEN "sync" ELSE "dec")
  /\ hasValue' = IF a \in Futures THEN hasValue \cup {a} ELSE hasValue
  /\ UNCHANGED <<stack, stop, doneCount, worker, task, count, spawning>>

(* Latch::sync(): the caller sleeps until dec() has brought the count to 0. *)
Sync(a) ==
  /\ pc[a] = "sync"
  /\ pc' = [pc EXCEPT ![a] = IF \E g \in Owned(a) : count[g] # 0 THEN "syncing"
                             ELSE IF a = Main THEN "finished" ELSE "dec"]
  /\ UNCHANGED <<stack, stop, doneCount, worker, task, count, spawning, hasValue>>

(* Latch::dec() at the end of a closure, with notify_all() at zero; the     *)
(* worker goes back to its loop.                                            *)
Dec(w) ==
  LET t == task[w]
      g == GroupOf[t]
      woken == {a \in Actors : a = OwnerOf[g] /\ pc[a] = "syncing" /\ Less(count[g]) = 0}
  IN
  /\ worker[w] = "run"
  /\ pc[t] = "dec"
  /\ count' = [count EXCEPT ![g] = Less(@)]
  /\ pc' = [a \in Actors |-> IF a = t THEN "finished"
                             ELSE IF a \in woken THEN "sync" ELSE pc[a]]
  /\ worker' = [worker EXCEPT ![w] = "lock"]
  /\ task' = [task EXCEPT ![w] = None]
  /\ UNCHANGED <<stack, stop, doneCount, spawning, hasValue>>

-------------------------------------------------------------------------------
(* work(): the predicate, and then exit, sleep, or take the top of the      *)
(* stack, all under the lock.                                               *)
Work(w) ==
  /\ worker[w] = "lock"
  /\ IF stop
     THEN /\ worker' = [worker EXCEPT ![w] = "dec"]
          /\ UNCHANGED <<stack, task, pc>>
     ELSE IF stack = <<>>
     THEN /\ worker' = [worker EXCEPT ![w] = "asleep"]
          /\ UNCHANGED <<stack, task, pc>>
     ELSE /\ worker' = [worker EXCEPT ![w] = "run"]
          /\ task' = [task EXCEPT ![w] = Head(stack)]
          /\ stack' = Tail(stack)
          /\ pc' = [pc EXCEPT ![Head(stack)] = "code"]
  /\ UNCHANGED <<stop, doneCount, count, spawning, hasValue>>

Spurious(w) ==
  /\ worker[w] = "asleep"
  /\ worker' = [worker EXCEPT ![w] = "lock"]
  /\ UNCHANGED <<stack, stop, doneCount, task, count, pc, spawning, hasValue>>

(* _done.dec(), the last that a worker does with the executor.              *)
WorkDone(w) ==
  /\ worker[w] = "dec"
  /\ worker' = [worker EXCEPT ![w] = "exited"]
  /\ doneCount' = Less(doneCount)
  /\ UNCHANGED <<stack, stop, task, count, pc, spawning, hasValue>>

(* ~ThreadPoolExecutor() at exit, and then ~Latch of _done.  notify_all     *)
(* comes with the change of _stop: a worker that looks in between sees      *)
(* _stop, and one that sleeps is woken.                                     *)
Stop ==
  /\ Goto(Main, "finished", "stopping")
  /\ stop' = TRUE
  /\ worker' = [w \in GroupWorkers |-> IF worker[w] = "asleep" THEN "lock" ELSE worker[w]]
  /\ UNCHANGED <<stack, doneCount, task, count, spawning, hasValue>>

Destroy ==
  /\ doneCount = 0
  /\ Goto(Main, "stopping", "gone")
  /\ UNCHANGED <<stack, stop, doneCount, worker, task, count, spawning, hasValue>>

-------------------------------------------------------------------------------
WorkerStep(w) == Work(w) \/ Dec(w) \/ WorkDone(w)

ActorStep(a) ==
  \/ \E t \in Tasks : Spawn(a, t)
  \/ Add(a) \/ Notify(a) \/ EndCode(a) \/ Sync(a)
  \/ \E t \in Tasks : pc[a] = "getting" /\ Get(a, t)

Next ==
  \/ \E w \in GroupWorkers : WorkerStep(w) \/ Spurious(w)
  \/ \E a \in Actors : ActorStep(a) \/ \E t \in Tasks : Get(a, t)
  \/ Stop \/ Destroy
  \/ pc[Main] = "gone" /\ UNCHANGED vars

Spec == Init /\ [][Next]_vars

(* Threads keep running, and a lock that is free is taken in the end.       *)
FairSpec ==
  /\ Spec
  /\ \A w \in GroupWorkers : WF_vars(WorkerStep(w))
  /\ \A a \in Actors : WF_vars(ActorStep(a))
  /\ WF_vars(Stop \/ Destroy)

-------------------------------------------------------------------------------
TypeOK ==
  /\ stack \in Seq(Tasks)
  /\ stop \in BOOLEAN
  /\ doneCount \in 0 .. LatchModulus - 1
  /\ worker \in [GroupWorkers -> {"lock", "asleep", "run", "dec", "exited"}]
  /\ task \in [GroupWorkers -> Tasks \cup {None}]
  /\ count \in [Groups -> 0 .. LatchModulus - 1]
  /\ pc \in [Actors -> ActorPCs]
  /\ spawning \in [Actors -> Tasks \cup {None}]
  /\ hasValue \subseteq Tasks

InFlight(g) ==
  {t \in Tasks : GroupOf[t] = g /\ \/ pc[t] \notin {"absent", "finished"}
                                   \/ \E a \in Actors : pc[a] = "add" /\ spawning[a] = t}

(* When the executor is destroyed every worker has left it for good.        *)
NobodyLeftInside == pc[Main] = "gone" => \A w \in GroupWorkers : worker[w] = "exited"

(* A caller of sync() goes on in the end, and so does a caller of get().    *)
SyncReturns ==
  \A a \in {OwnerOf[g] : g \in Groups} \cup {SpawnedBy[t] : t \in Futures} :
    pc[a] \in {"sync", "syncing", "getting"}
      ~> pc[a] \notin {"sync", "syncing", "getting"}

TB == INSTANCE TaskBarrier WITH
        Waiters <- {OwnerOf[g] : g \in Groups},
        CountedBy <- [a \in {OwnerOf[g] : g \in Groups} |->
                        {t \in Tasks : OwnerOf[GroupOf[t]] = a}],
        status <- [t \in Tasks |->
                     IF pc[t] = "finished" THEN "done"
                     ELSE IF t \in InFlight(GroupOf[t]) THEN "submitted" ELSE "new"],
        waiting <- {a \in Actors : pc[a] \in {"sync", "syncing"}}

(* sync() returns only when every task of the group is finished, and each   *)
(* closure runs once.                                                       *)
ImplementsBarrier == TB!Spec
===============================================================================
