------------------------------ MODULE TsanMutex ------------------------------
(***************************************************************************)
(* ThreadSanitizer's view of the program's own mutexes: the interceptors   *)
(* of pthread_mutex and pthread_rwlock call the hooks of tsan_rtl_mutex.cc *)
(* after a real lock and before a real unlock.  A hook works on the        *)
(* mutex's SyncVar, under the SyncVar's own lock, and so is one step; the  *)
(* real call is another, and other threads run in between.                 *)
(*                                                                         *)
(* Clocks are plain vectors, which TsanClock implements.  The program is   *)
(* correct: it unlocks what it holds and destroys what nobody uses.        *)
(***************************************************************************)
EXTENDS Naturals, FiniteSets

CONSTANTS Tids, NoTid,
          MaxTicks    (* bound on the epochs of a thread *)

MutexAssumption == NoTid \notin Tids /\ MaxTicks \in Nat

Kinds == {"mutex", "recursive", "rwlock"}

VARIABLES
  (* the real lock, and what POSIX orders                                     *)
  kind,      (* what the lock was initialized as, or "none"                   *)
  writer, depth, readers,
  released,  (* what happens before the next lock                             *)
  readReleased,   (* what happens before the next write lock as well          *)
  abandoned, (* its owner died                                                *)
  know,      (* know[t][u]: the last time of u that happens before t          *)
  (* the run-time                                                             *)
  pc,        (* pc[t]: where t is inside an interceptor                       *)
  epoch, clk,
  owner, recursion, broken, clock, readClock,   (* the SyncVar                *)
  misuses    (* number of reports                                             *)

real == <<kind, writer, depth, readers, released, readReleased, know, abandoned>>
sync == <<owner, recursion, broken, clock, readClock, misuses>>
vars == <<real, pc, epoch, clk, sync>>

Zero == [t \in Tids |-> 0]
Join(v, w) == [t \in Tids |-> IF v[t] >= w[t] THEN v[t] ELSE w[t]]

Init ==
  /\ kind \in Kinds
  /\ writer = NoTid /\ depth = 0 /\ readers = {}
  /\ released = Zero /\ readReleased = Zero
  /\ know = [t \in Tids |-> Zero] /\ abandoned = FALSE
  /\ pc = [t \in Tids |-> "idle"]
  /\ epoch = [t \in Tids |-> 0]
  /\ clk = [t \in Tids |-> Zero]
  /\ owner = NoTid /\ recursion = 0 /\ broken = FALSE
  /\ clock = Zero /\ readClock = Zero /\ misuses = 0

Goto(t, label) == pc' = [pc EXCEPT ![t] = label]

-----------------------------------------------------------------------------
(* The real functions.  Time passes in hooks only.                            *)
RealLock(t) ==
  /\ pc[t] = "idle" /\ kind # "none" /\ epoch[t] < MaxTicks
  /\ readers = {}
  /\ writer = NoTid \/ (writer = t /\ kind = "recursive")
  /\ writer' = t /\ depth' = depth + 1
  /\ know' = [know EXCEPT ![t] = Join(@, Join(released, readReleased))]
  /\ Goto(t, IF abandoned THEN "repair" ELSE "lock")
  /\ abandoned' = FALSE
  /\ UNCHANGED <<kind, readers, released, readReleased, epoch, clk, sync>>

(* A thread ends while it holds a robust mutex; the next to lock it is told.  *)
Die(t) ==
  /\ pc[t] = "idle" /\ writer = t /\ kind # "rwlock"
  /\ writer' = NoTid /\ depth' = 0 /\ abandoned' = TRUE
  /\ Goto(t, "dead")
  /\ UNCHANGED <<kind, readers, released, readReleased, know, epoch, clk, sync>>

RealReadLock(t) ==
  /\ pc[t] = "idle" /\ kind = "rwlock" /\ epoch[t] < MaxTicks
  /\ writer = NoTid /\ t \notin readers
  /\ readers' = readers \union {t}
  /\ know' = [know EXCEPT ![t] = Join(@, released)]
  /\ Goto(t, "readLock")
  /\ UNCHANGED <<abandoned, kind, writer, depth, released, readReleased, epoch, clk, sync>>

RealUnlock(t) ==
  /\ pc[t] \in {"realUnlock", "wait"} /\ writer = t
  /\ depth' = depth - 1
  /\ writer' = IF depth = 1 THEN NoTid ELSE t
  /\ released' = IF depth = 1 THEN [know[t] EXCEPT ![t] = epoch[t]] ELSE released
  /\ Goto(t, IF pc[t] = "wait" THEN "waiting" ELSE "idle")
  /\ UNCHANGED <<abandoned, kind, readers, readReleased, know, epoch, clk, sync>>

RealReadUnlock(t) ==
  /\ pc[t] = "realUnlock" /\ t \in readers
  /\ readers' = readers \ {t}
  /\ readReleased' = Join(readReleased, [know[t] EXCEPT ![t] = epoch[t]])
  /\ Goto(t, "idle")
  /\ UNCHANGED <<abandoned, kind, writer, depth, released, know, epoch, clk, sync>>

(* pthread_cond_wait returns with the mutex and, like a lock, may be told that *)
(* its owner died.                                                            *)
WakeUp(t) ==
  /\ pc[t] = "waiting" /\ writer = NoTid
  /\ writer' = t /\ depth' = 1 /\ abandoned' = FALSE
  /\ know' = [know EXCEPT ![t] = Join(@, released)]
  /\ Goto(t, IF abandoned THEN "repair" ELSE "lock")
  /\ UNCHANGED <<kind, readers, released, readReleased, epoch, clk, sync>>

Destroy(t) ==
  /\ pc[t] = "idle" /\ kind # "none" /\ writer = NoTid /\ readers = {} /\ ~abandoned
  /\ \A u \in Tids : pc[u] \in {"idle", "dead"}
  /\ \A u \in Tids \ {t} : know[t][u] >= released[u] /\ know[t][u] >= readReleased[u]
  /\ kind' = "none" /\ released' = Zero /\ readReleased' = Zero
  /\ Goto(t, "destroy")
  /\ UNCHANGED <<abandoned, writer, depth, readers, know, epoch, clk, sync>>

(* pthread_mutex_init, pthread_rwlock_init and their hook MutexCreate, which  *)
(* leaves clocks and owner of a SyncVar alone.                                *)
Create(t) ==
  /\ kind = "none" /\ pc[t] = "idle" /\ \A u \in Tids : pc[u] \in {"idle", "dead"}
  /\ kind' \in Kinds
  /\ UNCHANGED <<abandoned, writer, depth, readers, released, readReleased, know, pc, epoch, clk, sync>>

-----------------------------------------------------------------------------
(* AcquireImpl, ReleaseImpl and ReleaseStoreImpl.                             *)
Tick(t) == epoch' = [epoch EXCEPT ![t] = @ + 1]
Now(t) == [clk[t] EXCEPT ![t] = epoch[t] + 1]

Report(cond) ==
  /\ broken' = (broken \/ cond)
  /\ misuses' = IF cond /\ ~broken THEN misuses + 1 ELSE misuses

LockSkipsReadersMutant(t) ==
  /\ pc[t] = "lock"
  /\ Tick(t)
  /\ owner' = IF owner = NoTid THEN t ELSE owner
  /\ Report(owner \notin {NoTid, t})
  /\ clk' = [clk EXCEPT ![t] = IF recursion = 0 THEN Join(Now(t), clock) ELSE @]
  /\ recursion' = recursion + 1
  /\ Goto(t, "idle")
  /\ UNCHANGED <<real, clock, readClock>>

MutexLock(t) ==
  /\ pc[t] = "lock"
  /\ Tick(t)
  /\ owner' = IF owner = NoTid THEN t ELSE owner
  /\ Report(owner \notin {NoTid, t})
  /\ clk' = [clk EXCEPT ![t] =
               IF recursion = 0 THEN Join(Now(t), Join(clock, readClock)) ELSE @]
  /\ recursion' = recursion + 1
  /\ Goto(t, "idle")
  /\ UNCHANGED <<real, clock, readClock>>

(* EOWNERDEAD: the hook that forgets the owner runs before the one of lock.   *)
MutexRepair(t) ==
  /\ pc[t] = "repair"
  /\ owner' = NoTid /\ recursion' = 0
  /\ Goto(t, "lock")
  /\ UNCHANGED <<real, epoch, clk, broken, clock, readClock, misuses>>

(* pthread_mutex_unlock and pthread_cond_wait begin with the hook.            *)
MutexUnlock(t) ==
  /\ pc[t] = "idle" /\ writer = t /\ kind # "rwlock" /\ epoch[t] < MaxTicks
  /\ \E next \in {"realUnlock", "wait"} :
       /\ next = "wait" => depth = 1
       /\ Goto(t, next)
  /\ Tick(t)
  /\ LET bad == recursion = 0 \/ owner # t
         last == ~bad /\ recursion = 1
     IN  /\ Report(bad)
         /\ recursion' = IF bad THEN recursion ELSE recursion - 1
         /\ owner' = IF last THEN NoTid ELSE owner
         /\ clk' = [clk EXCEPT ![t] = IF last THEN Now(t) ELSE @]
         /\ clock' = IF last THEN Now(t) ELSE clock
  /\ UNCHANGED <<real, readClock>>

MutexReadLock(t) ==
  /\ pc[t] = "readLock"
  /\ Tick(t)
  /\ Report(owner # NoTid)
  /\ clk' = [clk EXCEPT ![t] = Join(Now(t), clock)]
  /\ Goto(t, "idle")
  /\ UNCHANGED <<real, owner, recursion, clock, readClock>>

(* pthread_rwlock_unlock: whether a reader or the writer leaves is told by    *)
(* the owner in the SyncVar.                                                  *)
MutexReadOrWriteUnlock(t) ==
  /\ pc[t] = "idle" /\ kind = "rwlock" /\ epoch[t] < MaxTicks
  /\ writer = t \/ t \in readers
  /\ \/ /\ owner = NoTid
        /\ readClock' = Join(readClock, Now(t))
        /\ Report(FALSE)
        /\ UNCHANGED <<owner, recursion, clock>>
     \/ /\ owner = t
        /\ recursion' = recursion - 1
        /\ owner' = IF recursion = 1 THEN NoTid ELSE t
        /\ clock' = IF recursion = 1 THEN Join(clock, Now(t)) ELSE clock
        /\ Report(FALSE)
        /\ UNCHANGED readClock
     \/ /\ owner \notin {NoTid, t}
        /\ Report(TRUE)
        /\ UNCHANGED <<owner, recursion, clock, readClock>>
  /\ IF owner \in {NoTid, t}
     THEN Tick(t) /\ clk' = [clk EXCEPT ![t] = Now(t)]
     ELSE UNCHANGED <<epoch, clk>>
  /\ Goto(t, "realUnlock")
  /\ UNCHANGED real

(* SyncVar::Reset; a mutex that is destroyed while locked is reported first.  *)
MutexDestroy(t) ==
  /\ pc[t] = "destroy"
  /\ misuses' = IF owner # NoTid /\ ~broken THEN misuses + 1 ELSE misuses
  /\ owner' = NoTid /\ recursion' = 0 /\ broken' = FALSE
  /\ clock' = Zero /\ readClock' = Zero
  /\ Goto(t, "idle")
  /\ UNCHANGED <<real, epoch, clk>>

Hook(t) ==
  \/ MutexLock(t) \/ MutexUnlock(t) \/ MutexReadLock(t)
  \/ MutexReadOrWriteUnlock(t) \/ MutexRepair(t) \/ MutexDestroy(t)

Next ==
  \E t \in Tids :
    \/ RealLock(t) \/ RealReadLock(t) \/ RealUnlock(t) \/ RealReadUnlock(t)
    \/ WakeUp(t) \/ Die(t) \/ Destroy(t) \/ Create(t)
    \/ Hook(t)

Spec == Init /\ [][Next]_vars

-----------------------------------------------------------------------------
(* A thread that is not about to run a hook knows of the others exactly what  *)
(* happens before it by the rules of POSIX: readers are ordered with writers  *)
(* and not with each other, whatever hooks of other threads run between a     *)
(* real call and its hook (MutexLock, MutexReadLock, MutexUnlock).            *)
OrderIsExact ==
  \A t, u \in Tids : (pc[t] \notin {"repair", "lock", "readLock"} /\ t # u) => clk[t][u] = know[t][u]

(* A correct program is never told that it misuses a mutex.                   *)
NoFalseMisuse == misuses = 0

(* Between interceptors the SyncVar says who has the lock and how often.      *)
OwnerIsHolder ==
  (~abandoned /\ \A t \in Tids : pc[t] \in {"idle", "waiting", "dead"})
    => owner = writer /\ recursion = depth
=============================================================================
