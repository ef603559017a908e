------------------------ MODULE SanitizerBlockingMutex ------------------------
(***************************************************************************)
(* The blocking mutex of the sanitizer run-times on Linux, BlockingMutex   *)
(* of compiler-rt/lib/sanitizer_common/sanitizer_linux.cc: one word and    *)
(* the futex system call.  A locker overwrites the word with MtxLocked     *)
(* even when it said MtxSleeping, so for a moment nothing in the word says *)
(* that threads are asleep; the protocol must make up for it.              *)
(***************************************************************************)
EXTENDS Integers, FiniteSets

CONSTANT Threads

VARIABLES
  m,   (* the futex word *)
  pc   (* where each thread stands in Lock and Unlock, or in the kernel *)

vars == <<m, pc>>

MtxUnlocked == 0
MtxLocked   == 1
MtxSleeping == 2

PCs == {"idle", "contend", "futex_wait", "asleep", "holding", "futex_wake"}

Asleep  == {t \in Threads : pc[t] = "asleep"}
Holders == {t \in Threads : pc[t] = "holding"}

Goto(t, from, to) ==
  /\ pc[t] = from
  /\ pc' = [pc EXCEPT ![t] = to]

Init ==
  /\ m = MtxUnlocked
  /\ pc = [t \in Threads |-> "idle"]

-------------------------------------------------------------------------------
(* Lock(): the first exchange.                                              *)
Lock(t) ==
  /\ Goto(t, "idle", IF m = MtxUnlocked THEN "holding" ELSE "contend")
  /\ m' = MtxLocked

(* Mutant: the loop takes any word that does not say MtxSleeping for free.  *)
LockLoopMistakesLocked(t) ==
  /\ Goto(t, "contend", IF m # MtxSleeping THEN "holding" ELSE "futex_wait")
  /\ m' = MtxSleeping

(* The loop condition of Lock(): exchange again, with MtxSleeping.          *)
LockLoop(t) ==
  /\ Goto(t, "contend", IF m = MtxUnlocked THEN "holding" ELSE "futex_wait")
  /\ m' = MtxSleeping

(* FUTEX_WAIT: the kernel compares the word with MtxSleeping and puts the   *)
(* thread to sleep in one step, or returns at once.                         *)
FutexWait(t) ==
  /\ Goto(t, "futex_wait", IF m = MtxSleeping THEN "asleep" ELSE "contend")
  /\ UNCHANGED m

(* The wait ends by itself (a signal, a spurious wake-up).                  *)
FutexInterrupted(t) ==
  /\ Goto(t, "asleep", "contend")
  /\ UNCHANGED m

(* Mutant: the wake-up is made when the word said MtxLocked.                *)
UnlockWakesWhenLocked(t) ==
  /\ Goto(t, "holding", IF m = MtxLocked THEN "futex_wake" ELSE "idle")
  /\ m' = MtxUnlocked

Unlock(t) ==
  /\ Goto(t, "holding", IF m = MtxSleeping THEN "futex_wake" ELSE "idle")
  /\ m' = MtxUnlocked

(* FUTEX_WAKE with count 1: one sleeper if there is any, and the kernel     *)
(* chooses it.                                                              *)
FutexWake(t) ==
  /\ pc[t] = "futex_wake"
  /\ IF Asleep = {}
     THEN pc' = [pc EXCEPT ![t] = "idle"]
     ELSE \E s \in Asleep : pc' = [pc EXCEPT ![t] = "idle", ![s] = "contend"]
  /\ UNCHANGED m

Next ==
  \E t \in Threads :
    \/ Lock(t) \/ LockLoop(t) \/ FutexWait(t) \/ FutexInterrupted(t)
    \/ Unlock(t) \/ FutexWake(t)

(* A thread inside Lock or Unlock keeps running, and a holder leaves.  No   *)
(* fairness on Lock (nobody must lock) nor on the kernel's interruptions.   *)
Fairness ==
  \A t \in Threads :
    WF_vars(LockLoop(t) \/ FutexWait(t) \/ Unlock(t) \/ FutexWake(t))

Spec == Init /\ [][Next]_vars
FairSpec == Spec /\ Fairness

-------------------------------------------------------------------------------
TypeOK ==
  /\ m \in {MtxUnlocked, MtxLocked, MtxSleeping}
  /\ pc \in [Threads -> PCs]

(* At most one holder, and the word is free exactly when there is none: the *)
(* CHECK_NE(v, MtxUnlocked) of Unlock and CheckLocked cannot fire.          *)
WordTellsHolder ==
  /\ \A t, u \in Holders : t = u
  /\ m = MtxUnlocked <=> Holders = {}

(* Whenever a thread sleeps and the word does not say so, some awake thread *)
(* is about to write MtxSleeping or to make the wake-up call: no interleaving*)
(* of Lock, Unlock and the system calls forgets a sleeper.                  *)
NoSleeperForgotten ==
  Asleep # {} /\ m # MtxSleeping =>
    \E t \in Threads : pc[t] \in {"contend", "futex_wake"}

(* A mutex that is free while threads sleep on it is taken again.           *)
FreeMutexIsTaken == m = MtxUnlocked /\ Asleep # {} ~> Holders # {}

(* How a thread that stands at p holds the lock.                            *)
Mode(p) == IF p = "holding" THEN "write" ELSE "none"

RW == INSTANCE ReadersWriterLock WITH mode <- [t \in Threads |-> Mode(pc[t])]

(* The word and the futex implement the abstract lock, write mode only.     *)
ImplementsLock == RW!Spec
===============================================================================
