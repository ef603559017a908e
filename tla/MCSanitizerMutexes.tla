-------------------------- MODULE MCSanitizerMutexes --------------------------
(***************************************************************************)
(* One run for the two locks of sanitizer_common.  A behaviour chooses at  *)
(* its start which lock the threads use (part) and never changes it; the   *)
(* other lock stays as it was initialised.  Every fairness condition holds *)
(* for the lock in use alone, so that the idle one excludes no behaviour.  *)
(***************************************************************************)
EXTENDS SanitizerRWMutex

VARIABLES
  part,  (* "rw" or "blocking" *)
  m,     (* the futex word of the BlockingMutex *)
  at     (* its pc *)

B == INSTANCE SanitizerBlockingMutex WITH pc <- at

mcvars == <<part, state, pc, m, at>>

MCInit == part \in {"rw", "blocking"} /\ Init /\ B!Init

MCNext ==
  \/ part = "rw" /\ Next /\ UNCHANGED <<part, m, at>>
  \/ part = "blocking" /\ B!Next /\ UNCHANGED <<part, state, pc>>

(* The fairness of SanitizerRWMutex and of SanitizerBlockingMutex.          *)
MCFairness ==
  \A t \in Threads :
    /\ WF_vars(part = "rw" /\ ReadLockSlow(t))
    /\ WF_vars(part = "rw" /\ Unlock(t))
    /\ WF_vars(part = "rw" /\ ReadUnlock(t))
    /\ WF_<<m, at>>(part = "blocking" /\ \/ B!LockLoop(t) \/ B!FutexWait(t)
                                         \/ B!Unlock(t) \/ B!FutexWake(t))

MCSpec == MCInit /\ [][MCNext]_mcvars /\ MCFairness

(* A reader that announced itself gets in although writers keep coming, and *)
(* a BlockingMutex that is free while threads sleep on it is taken again.   *)
WaitersGetIn == ReaderGetsIn /\ B!FreeMutexIsTaken

(* No interleaving of Lock, Unlock and the system calls forgets a sleeper.  *)
NoSleeperForgotten == B!NoSleeperForgotten

(* The futex word implements the abstract lock, in write mode only.         *)
ImplementsLock == B!ImplementsLock
===============================================================================
