--------------------------- MODULE SanitizerRWMutex ---------------------------
(***************************************************************************)
(* The reader-writer spin mutex of the sanitizer run-times, class RWMutex  *)
(* of compiler-rt/lib/sanitizer_common/sanitizer_mutex.h.  One word holds  *)
(* the writer bit and the number of readers; every access to it is one     *)
(* step.  A reader announces itself first and then waits for the writer to *)
(* leave; a writer waits until the word is zero.                           *)
(***************************************************************************)
EXTENDS Integers, FiniteSets

CONSTANT Threads

(* state_ is a u32 and a reader adds 2 to it: the code needs fewer than     *)
(* 2^31 threads and checks it nowhere.  The model has finitely many threads *)
(* and TypeOK bounds the word by their number.                              *)
ASSUME ThreadsFinite == IsFiniteSet(Threads)

VARIABLES
  state,  (* state_ *)
  pc      (* where each thread stands in the mutex's methods *)

vars == <<state, pc>>

kUnlocked  == 0
kWriteLock == 1
kReadLock  == 2

PCs == {"idle", "LockSlow", "LockCas", "writing", "ReadLockSlow", "reading"}

WriteLocked == state % 2 = 1

Goto(t, from, to) ==
  /\ pc[t] = from
  /\ pc' = [pc EXCEPT ![t] = to]

Init ==
  /\ state = kUnlocked
  /\ pc = [t \in Threads |-> "idle"]

-------------------------------------------------------------------------------
(* Lock(): one strong compare-and-swap, then LockSlow.                      *)
LockFast(t) ==
  /\ state = kUnlocked
  /\ Goto(t, "idle", "writing")
  /\ state' = kWriteLock

LockContended(t) ==
  /\ state # kUnlocked
  /\ Goto(t, "idle", "LockSlow")
  /\ UNCHANGED state

(* LockSlow(): look at the word, and only when it is free try to swap it.   *)
LockSlowLoad(t) ==
  /\ state = kUnlocked
  /\ Goto(t, "LockSlow", "LockCas")
  /\ UNCHANGED state

LockSlowCas(t) ==
  /\ state = kUnlocked
  /\ Goto(t, "LockCas", "writing")
  /\ state' = kWriteLock

(* The word changed since the load, or the weak swap failed spuriously.     *)
LockSlowCasFails(t) ==
  /\ Goto(t, "LockCas", "LockSlow")
  /\ UNCHANGED state

(* Mutant: the writer leaves with a store and forgets the waiting readers.  *)
UnlockStores(t) ==
  /\ Goto(t, "writing", "idle")
  /\ state' = kUnlocked

Unlock(t) ==
  /\ Goto(t, "writing", "idle")
  /\ state' = state - kWriteLock

(* Mutant: the reader does not look at the writer bit it fetched.           *)
ReadLockIgnoresWriter(t) ==
  /\ Goto(t, "idle", "reading")
  /\ state' = state + kReadLock

(* ReadLock(): the reader is counted whether or not a writer is inside.     *)
ReadLock(t) ==
  /\ Goto(t, "idle", IF WriteLocked THEN "ReadLockSlow" ELSE "reading")
  /\ state' = state + kReadLock

(* Mutant: the reader spins until the word is zero, which its own count     *)
(* excludes.                                                                *)
ReadLockSlowWantsZero(t) ==
  /\ Goto(t, "ReadLockSlow", IF state = kUnlocked THEN "reading" ELSE "ReadLockSlow")
  /\ UNCHANGED state

ReadLockSlow(t) ==
  /\ ~WriteLocked
  /\ Goto(t, "ReadLockSlow", "reading")
  /\ UNCHANGED state

ReadUnlock(t) ==
  /\ Goto(t, "reading", "idle")
  /\ state' = state - kReadLock

Next ==
  \E t \in Threads :
    \/ LockFast(t) \/ LockContended(t)
    \/ LockSlowLoad(t) \/ LockSlowCas(t) \/ LockSlowCasFails(t)
    \/ Unlock(t)
    \/ ReadLock(t) \/ ReadLockSlow(t) \/ ReadUnlock(t)

(* A spinning thread keeps running, and a holder leaves its section.        *)
Fairness ==
  \A t \in Threads :
    /\ WF_vars(ReadLockSlow(t))
    /\ WF_vars(Unlock(t))
    /\ WF_vars(ReadUnlock(t))

Spec == Init /\ [][Next]_vars
FairSpec == Spec /\ Fairness

-------------------------------------------------------------------------------
Writers == {t \in Threads : pc[t] = "writing"}
Readers == {t \in Threads : pc[t] = "reading"}
Counted == {t \in Threads : pc[t] \in {"ReadLockSlow", "reading"}}

TypeOK ==
  /\ state \in 0 .. 2 * Cardinality(Threads) + 1
  /\ pc \in [Threads -> PCs]

(* The word says exactly who is inside or has announced itself.  This is    *)
(* what the DCHECKs of Unlock and ReadUnlock sample: the writer bit is set  *)
(* when a writer leaves, clear with a positive count when a reader leaves.  *)
WordCountsHolders ==
  state = kReadLock * Cardinality(Counted) + kWriteLock * Cardinality(Writers)

(* Exclusive and shared ownership never overlap.                            *)
Exclusion ==
  /\ \A t, u \in Writers : t = u
  /\ Writers # {} => Readers = {}

(* A writer never overtakes a reader that has announced itself: while some  *)
(* reader is counted and waiting, no thread becomes a writer.               *)
ReaderNotOvertaken ==
  [][(\E t \in Threads : pc[t] = "ReadLockSlow") => Writers' \subseteq Writers]_vars

(* Hence a waiting reader gets in, however many writers keep arriving.      *)
ReaderGetsIn ==
  \A t \in Threads : pc[t] = "ReadLockSlow" ~> pc[t] = "reading"

(* How a thread that stands at p holds the lock.                            *)
Mode(p) == IF p = "writing" THEN "write"
           ELSE IF p = "reading" THEN "read" ELSE "none"

RW == INSTANCE ReadersWriterLock WITH mode <- [t \in Threads |-> Mode(pc[t])]

(* The word implements the abstract reader-writer lock.                     *)
ImplementsRWLock == RW!Spec
===============================================================================
