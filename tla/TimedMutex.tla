------------------------------ MODULE TimedMutex ------------------------------
(***************************************************************************)
(* timed_mutex and recursive_timed_mutex of libc++: a count or a flag      *)
(* under a mutex, and a condition variable for those who wait.  What is    *)
(* done under the mutex is one step.  timed_mutex notifies under it,       *)
(* recursive_timed_mutex after it.  A try_lock() that fails changes        *)
(* nothing and has no action.                                              *)
(***************************************************************************)
EXTENDS Integers

CONSTANTS Threads, NoThread,
          Recursive,   (* recursive_timed_mutex, else timed_mutex             *)
          MaxCount     (* numeric_limits<size_t>::max()                       *)

TimedMutexAssumption ==
  /\ NoThread \notin Threads
  /\ Recursive \in BOOLEAN
  /\ MaxCount \in Nat \ {0}

VARIABLES
  count, id,   (* __count_ and __id_; __locked_ is a count of 0 or 1          *)
  pc,          (* "out"; "lock", "until": ready to take the mutex; "lockWait",*)
               (* "untilWait": asleep; "notify": after unlock()'s section     *)
  late,        (* whose deadline has passed                                   *)
  depth,       (* ghost: what each thread holds                               *)
  alive        (* the destructor has not run                                  *)

vars == <<count, id, pc, late, depth, alive>>

Init ==
  /\ count = 0 /\ id = NoThread
  /\ pc = [t \in Threads |-> "out"] /\ late = [t \in Threads |-> FALSE]
  /\ depth = [t \in Threads |-> 0] /\ alive = TRUE

Goto(t, l) == pc' = [pc EXCEPT ![t] = l]
Asleep(t) == pc[t] \in {"lockWait", "untilWait"}
Awake(l) == IF l = "lockWait" THEN "lock" ELSE "until"

Take(t) ==
  /\ count' = count + 1
  /\ id' = IF Recursive THEN t ELSE id
  /\ depth' = [depth EXCEPT ![t] = @ + 1]

(* lock() and try_lock_until() are called; what a thread does with a          *)
(* timed_mutex it holds already is undefined.                                 *)
Call(t) ==
  /\ alive /\ pc[t] = "out" /\ (Recursive \/ depth[t] = 0)
  /\ \E l \in {"lock", "until"} : Goto(t, l)
  /\ late' = [late EXCEPT ![t] = FALSE]
  /\ UNCHANGED <<count, id, depth, alive>>

Deadline(t) ==
  /\ pc[t] \in {"until", "untilWait"} /\ ~late[t]
  /\ late' = [late EXCEPT ![t] = TRUE]
  /\ UNCHANGED <<count, id, pc, depth, alive>>

(* The branch of an owner that locks again; at the limit lock() throws and    *)
(* try_lock_until() returns false.                                            *)
Again(t) ==
  /\ pc[t] \in {"lock", "until"} /\ id = t
  /\ IF count = MaxCount THEN UNCHANGED <<count, id, depth>> ELSE Take(t)
  /\ Goto(t, "out")
  /\ UNCHANGED <<late, alive>>

LockLoop(t) ==
  /\ pc[t] = "lock" /\ id # t
  /\ IF count # 0
       THEN Goto(t, "lockWait") /\ UNCHANGED <<count, id, depth>>
       ELSE Goto(t, "out") /\ Take(t)
  /\ UNCHANGED <<late, alive>>

GiveUpMutant(t) ==
  /\ pc[t] = "until" /\ id # t
  /\ \/ ~late[t] /\ count # 0 /\ Goto(t, "untilWait") /\ UNCHANGED <<count, id, depth>>
     \/ late[t] /\ Goto(t, "out") /\ UNCHANGED <<count, id, depth>>
     \/ ~late[t] /\ count = 0 /\ Goto(t, "out") /\ Take(t)
  /\ UNCHANGED <<late, alive>>

(* try_lock_until(): a thread that comes too late still looks at the lock.    *)
UntilLoop(t) ==
  /\ pc[t] = "until" /\ id # t
  /\ \/ ~late[t] /\ count # 0 /\ Goto(t, "untilWait") /\ UNCHANGED <<count, id, depth>>
     \/ late[t] /\ count # 0 /\ Goto(t, "out") /\ UNCHANGED <<count, id, depth>>
     \/ count = 0 /\ Goto(t, "out") /\ Take(t)
  /\ UNCHANGED <<late, alive>>

(* pthread_cond_wait and pthread_cond_timedwait return without a notification *)
(* now and then, the second one at its deadline.                              *)
Return(t) ==
  /\ Asleep(t) /\ Goto(t, Awake(pc[t]))
  /\ UNCHANGED <<count, id, late, depth, alive>>

TryLock(t) ==
  /\ alive /\ pc[t] = "out" /\ count < MaxCount
  /\ count = 0 \/ id = t
  /\ Take(t)
  /\ UNCHANGED <<pc, late, alive>>

(* __cv_.notify_one(), with unlock()'s thread t going to l.                   *)
NotifyOne(t, l) ==
  IF \E u \in Threads : Asleep(u)
  THEN \E u \in Threads :
         Asleep(u) /\ pc' = [pc EXCEPT ![t] = l, ![u] = Awake(pc[u])]
  ELSE Goto(t, l)

Unlock(t) ==
  /\ pc[t] = "out" /\ depth[t] > 0
  /\ count' = count - 1
  /\ id' = IF count = 1 THEN NoThread ELSE id
  /\ depth' = [depth EXCEPT ![t] = @ - 1]
  /\ \/ count > 1 /\ UNCHANGED pc
     \/ count = 1 /\ Recursive /\ Goto(t, "notify")
     \/ count = 1 /\ ~Recursive /\ NotifyOne(t, "out")
  /\ UNCHANGED <<late, alive>>

Notify(t) ==
  /\ pc[t] = "notify" /\ NotifyOne(t, "out")
  /\ UNCHANGED <<count, id, late, depth, alive>>

(* The destructor takes and leaves the mutex.  A timed_mutex may be destroyed *)
(* by the next owner while unlock() returns; the caller of a recursive one    *)
(* has to know that unlock() has returned.                                    *)
Destroy(t) ==
  /\ alive /\ pc[t] = "out" /\ count = 0
  /\ \A u \in Threads : pc[u] = "out" \/ (~Recursive /\ pc[u] = "notify")
  /\ alive' = FALSE
  /\ UNCHANGED <<count, id, pc, late, depth>>

Done == ~alive /\ (\A t \in Threads : pc[t] = "out") /\ UNCHANGED vars

Next ==
  \/ \E t \in Threads :
       \/ Call(t) \/ Deadline(t) \/ Again(t) \/ LockLoop(t) \/ UntilLoop(t)
       \/ Return(t) \/ TryLock(t) \/ Unlock(t) \/ Notify(t) \/ Destroy(t)
  \/ Done

Spec == Init /\ [][Next]_vars

(* Time passes, calls run, and a wait ends at its deadline.                   *)
Fairness ==
  \A t \in Threads :
    /\ WF_vars(Deadline(t)) /\ WF_vars(late[t] /\ Return(t))
    /\ WF_vars(Again(t)) /\ WF_vars(LockLoop(t)) /\ WF_vars(UntilLoop(t))
    /\ WF_vars(Notify(t))

FairSpec == Spec /\ Fairness

-----------------------------------------------------------------------------
(* The lock has one owner, who holds it as often as the count says, and the   *)
(* recursive one knows who it is.                                             *)
OwnerHolds ==
  /\ \A t, u \in Threads : depth[t] > 0 /\ depth[u] > 0 => t = u
  /\ \A t \in Threads : depth[t] > 0 => depth[t] = count
  /\ count > 0 => \E t \in Threads : depth[t] > 0
  /\ Recursive => \A t \in Threads : id = t <=> depth[t] > 0

(* Nobody sleeps on a free lock unless somebody who will look at it, or will  *)
(* notify, is on the way: a notification that goes to a thread whose deadline *)
(* has passed is not lost.                                                    *)
NoLostWakeup ==
  count = 0 /\ (\E t \in Threads : Asleep(t)) =>
    \E t \in Threads : pc[t] \in {"lock", "until", "notify"}

(* unlock() has done with the mutex when the next owner may destroy it.       *)
UsedAlive == \A t \in Threads : pc[t] # "out" => alive

(* An attempt with a deadline ends.                                           *)
AttemptsEnd(t) == pc[t] \in {"until", "untilWait"} ~> pc[t] = "out"
=============================================================================
