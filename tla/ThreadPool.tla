------------------------------ MODULE ThreadPool ------------------------------
(***************************************************************************)
(* llvm::ThreadPool, lib/Support/ThreadPool.cpp, built with threads: a     *)
(* queue under one mutex, a count of busy workers that wait() reads under  *)
(* another one, and a condition variable for each.  wait() reads the queue *)
(* without the queue's mutex; the workers are written so that this works.  *)
(*                                                                         *)
(* Clients and running tasks may add tasks, except while somebody is in    *)
(* wait() ("It is an error to try to add new tasks while blocking on this  *)
(* call") and after the destructor has begun (an assertion).               *)
(***************************************************************************)
EXTENDS Integers, FiniteSets, Sequences, Functions

CONSTANTS
  Workers,    (* the pool's threads *)
  Clients,    (* the threads that use the pool *)
  Owner,      (* the client that destroys it, once the others are through *)
  Tasks,
  None

ASSUME OwnerAssumption == Owner \in Clients
ASSUME ActorsAssumption == Workers \cap Clients = {} /\ IsFiniteSet(Workers)
ASSUME NoneAssumption == None \notin Tasks \cup Workers \cup Clients

VARIABLES
  queue,       (* Tasks *)
  active,      (* ActiveThreads *)
  enable,      (* EnableFlag *)
  queueLock,   (* the worker or client that holds QueueLock, or None *)
  completionLock,
  pc,
  task,        (* task[w]: the task worker w has taken from the queue *)
  done         (* the tasks that have been run *)

vars == <<queue, active, enable, queueLock, completionLock, pc, task, done>>

Actors == Workers \cup Clients

Queued     == Range(queue)
Taken      == {task[w] : w \in Workers} \ {None}
Unfinished == Queued \cup Taken
Added      == Unfinished \cup done

WaitPCs == {"wait_lock", "wait_queue", "wait_active", "wait_sleep"}
Goto(a, from, to) ==
  /\ pc[a] = from
  /\ pc' = [pc EXCEPT ![a] = to]

Init ==
  /\ queue = <<>>
  /\ active = 0
  /\ enable = TRUE
  /\ queueLock = None
  /\ completionLock = None
  /\ pc = [a \in Actors |-> IF a \in Workers THEN "work_lock" ELSE "idle"]
  /\ task = [w \in Workers |-> None]
  /\ done = {}

-------------------------------------------------------------------------------
(* Mutant: the worker becomes active when it has popped, not before.        *)
WorkLockStaysInactive(w) ==
  /\ queueLock = None
  /\ IF enable /\ queue = <<>>
     THEN Goto(w, "work_lock", "work_sleep") /\ UNCHANGED queueLock
     ELSE IF queue = <<>>
     THEN Goto(w, "work_lock", "exited") /\ UNCHANGED queueLock
     ELSE Goto(w, "work_lock", "barrier") /\ queueLock' = w
  /\ UNCHANGED <<queue, active, enable, completionLock, task, done>>

(* A worker takes QueueLock and evaluates the predicate of the condition    *)
(* variable: it goes to sleep (and gives the lock up), exits, or says that  *)
(* it is active and keeps the lock.                                         *)
WorkLock(w) ==
  /\ queueLock = None
  /\ IF enable /\ queue = <<>>
     THEN Goto(w, "work_lock", "work_sleep") /\ UNCHANGED <<active, queueLock>>
     ELSE IF queue = <<>>
     THEN Goto(w, "work_lock", "exited") /\ UNCHANGED <<active, queueLock>>
     ELSE Goto(w, "work_lock", "barrier") /\ active' = active + 1 /\ queueLock' = w
  /\ UNCHANGED <<queue, enable, completionLock, task, done>>

(* It takes CompletionLock and gives it back at once.                       *)
WorkBarrier(w) ==
  /\ completionLock = None
  /\ Goto(w, "barrier", "pop")
  /\ UNCHANGED <<queue, active, enable, queueLock, completionLock, task, done>>

WorkPop(w) ==
  /\ Goto(w, "pop", "run")
  /\ task' = [task EXCEPT ![w] = Head(queue)]
  /\ queue' = Tail(queue)
  /\ queueLock' = None
  /\ UNCHANGED <<active, enable, completionLock, done>>

(* Task() returns.                                                          *)
WorkRun(w) ==
  /\ Goto(w, "run", "finish")
  /\ done' = done \cup {task[w]}
  /\ task' = [task EXCEPT ![w] = None]
  /\ UNCHANGED <<queue, active, enable, queueLock, completionLock>>

WorkFinish(w) ==
  /\ completionLock = None
  /\ Goto(w, "finish", "work_notify")
  /\ active' = active - 1
  /\ UNCHANGED <<queue, enable, queueLock, completionLock, task, done>>

(* Mutant: notify_all is left out.                                          *)
WorkNotifyNobody(w) ==
  /\ Goto(w, "work_notify", "work_lock")
  /\ UNCHANGED <<queue, active, enable, queueLock, completionLock, task, done>>

(* CompletionCondition.notify_all().                                        *)
WorkNotify(w) ==
  /\ pc[w] = "work_notify"
  /\ pc' = [a \in Actors |-> IF a = w THEN "work_lock"
                             ELSE IF pc[a] = "wait_sleep" THEN "wait_lock" ELSE pc[a]]
  /\ UNCHANGED <<queue, active, enable, queueLock, completionLock, task, done>>

-------------------------------------------------------------------------------
(* wait(): lock; the predicate reads the queue, then the count, and the     *)
(* lock is kept until it is true or the caller sleeps.                      *)
Wait(c) ==
  /\ Goto(c, "idle", "wait_lock")
  /\ UNCHANGED <<queue, active, enable, queueLock, completionLock, task, done>>

WaitLock(c) ==
  /\ completionLock = None
  /\ Goto(c, "wait_lock", "wait_queue")
  /\ completionLock' = c
  /\ UNCHANGED <<queue, active, enable, queueLock, task, done>>

WaitQueue(c) ==
  /\ IF queue = <<>>
     THEN Goto(c, "wait_queue", "wait_active") /\ UNCHANGED completionLock
     ELSE Goto(c, "wait_queue", "wait_sleep") /\ completionLock' = None
  /\ UNCHANGED <<queue, active, enable, queueLock, task, done>>

WaitActive(c) ==
  /\ Goto(c, "wait_active", IF active = 0 THEN "idle" ELSE "wait_sleep")
  /\ completionLock' = None
  /\ UNCHANGED <<queue, active, enable, queueLock, task, done>>

(* Condition variables may wake up by themselves.                           *)
Spurious(a) ==
  /\ \/ Goto(a, "wait_sleep", "wait_lock")
     \/ Goto(a, "work_sleep", "work_lock")
  /\ UNCHANGED <<queue, active, enable, queueLock, completionLock, task, done>>

-------------------------------------------------------------------------------
(* asyncImpl(), called by a client or from inside a running task.           *)
Async(a, t) ==
  /\ queueLock = None
  /\ t \notin Added
  /\ enable
  /\ \A c \in Clients : pc[c] \notin WaitPCs
  /\ Goto(a, "idle", "async_notify") \/ Goto(a, "run", "run_notify")
  /\ queue' = Append(queue, t)
  /\ UNCHANGED <<active, enable, queueLock, completionLock, task, done>>

(* QueueCondition.notify_one(), on the way back from async().               *)
AsyncNotify(a) ==
  LET back == IF a \in Workers THEN "run" ELSE "idle"
      asleep == {w \in Workers : pc[w] = "work_sleep"}
  IN
  /\ pc[a] \in {"async_notify", "run_notify"}
  /\ IF asleep = {}
     THEN pc' = [pc EXCEPT ![a] = back]
     ELSE \E w \in asleep : pc' = [pc EXCEPT ![a] = back, ![w] = "work_lock"]
  /\ UNCHANGED <<queue, active, enable, queueLock, completionLock, task, done>>

(* The other clients drop their references.                                 *)
Leave(c) ==
  /\ c # Owner
  /\ Goto(c, "idle", "gone")
  /\ UNCHANGED <<queue, active, enable, queueLock, completionLock, task, done>>

(* ~ThreadPool().                                                           *)
Destroy ==
  /\ queueLock = None
  /\ \A c \in Clients \ {Owner} : pc[c] = "gone"
  /\ Goto(Owner, "idle", "destroy_notify")
  /\ enable' = FALSE
  /\ UNCHANGED <<queue, active, queueLock, completionLock, task, done>>

DestroyNotify ==
  /\ pc[Owner] = "destroy_notify"
  /\ pc' = [a \in Actors |-> IF a = Owner THEN "join"
                             ELSE IF pc[a] = "work_sleep" THEN "work_lock" ELSE pc[a]]
  /\ UNCHANGED <<queue, active, enable, queueLock, completionLock, task, done>>

DestroyJoin ==
  /\ \A w \in Workers : pc[w] = "exited"
  /\ Goto(Owner, "join", "gone")
  /\ UNCHANGED <<queue, active, enable, queueLock, completionLock, task, done>>

-------------------------------------------------------------------------------
WorkerStep(w) ==
  \/ WorkLock(w) \/ WorkBarrier(w) \/ WorkPop(w) \/ WorkRun(w)
  \/ WorkFinish(w) \/ WorkNotify(w)

(* What a client does once it is inside a call.                             *)
ClientStep(c) == WaitLock(c) \/ WaitQueue(c) \/ WaitActive(c)

OwnerStep == DestroyNotify \/ DestroyJoin

Terminated == \A a \in Actors : pc[a] \in {"exited", "gone"}

Next ==
  \/ \E w \in Workers : WorkerStep(w)
  \/ \E c \in Clients : Wait(c) \/ ClientStep(c) \/ Leave(c)
  \/ \E a \in Actors : Spurious(a) \/ AsyncNotify(a) \/ \E t \in Tasks : Async(a, t)
  \/ Destroy \/ OwnerStep
  \/ Terminated /\ UNCHANGED vars

Spec == Init /\ [][Next]_vars

(* Tasks return, threads keep running, and whoever wants a mutex that is    *)
(* free again and again gets it at last (strong fairness), though others    *)
(* wake up spuriously and take it in between.                               *)
FairSpec ==
  /\ Spec
  /\ \A w \in Workers : SF_vars(WorkerStep(w))
  /\ \A c \in Clients : SF_vars(ClientStep(c))
  /\ \A a \in Actors : WF_vars(AsyncNotify(a))
  /\ WF_vars(OwnerStep)

-------------------------------------------------------------------------------
(* While a task is queued, some worker is awake or a notification is on its *)
(* way; once the pool is off, every sleeping worker is about to be told.    *)
(* async() and the destructor notify after they have given QueueLock back.  *)
NobodyOversleeps ==
  LET asleep == {w \in Workers : pc[w] = "work_sleep"} IN
  /\ queue # <<>> /\ asleep = Workers => \E c \in Clients : pc[c] = "async_notify"
  /\ ~enable /\ asleep # {} => pc[Owner] = "destroy_notify"

(* Every wait() returns.                                                    *)
WaitReturns ==
  \A c \in Clients : pc[c] \in WaitPCs ~> pc[c] \notin WaitPCs

(* "The pool will wait for all the threads to complete" (ThreadPool.h): the *)
(* destructor ends, and by then every task has been run, also the ones that *)
(* were still in the queue when it began.                                   *)
DestructionEnds == pc[Owner] = "destroy_notify" ~> pc[Owner] = "gone" /\ Unfinished = {}

TB == INSTANCE TaskBarrier WITH
        Waiters <- Clients,
        CountedBy <- [c \in Clients |-> Tasks],
        status <- [t \in Tasks |-> IF t \in Unfinished THEN "submitted"
                                   ELSE IF t \in done THEN "done" ELSE "new"],
        waiting <- {c \in Clients : pc[c] \in WaitPCs}

(* A task is run once, and wait() returns only when no task that was added  *)
(* is unfinished.                                                           *)
ImplementsBarrier == TB!Spec
===============================================================================
