----------------------------- MODULE SharedMutex ------------------------------
(***************************************************************************)
(* libc++'s shared_mutex and shared_timed_mutex: a word with a bit for the *)
(* writer that has entered and the number of readers, under a mutex, with  *)
(* two gates to sleep at.  A writer takes the bit at the first gate, which *)
(* keeps new readers out, and waits at the second for the readers to leave.*)
(*                                                                         *)
(* A call runs under the mutex until it returns or sleeps, and so does a   *)
(* thread that wakes up: each is one step.                                 *)
(***************************************************************************)
EXTENDS Integers, FiniteSets

CONSTANTS
  Threads,
  MaxReaders,   (* __n_readers_, 2^31 - 1 in the code *)
  Timed         (* bound: whether waits may time out, those of try_lock_until() *)

ASSUME SharedMutexAssumption ==
  IsFiniteSet(Threads) /\ MaxReaders \in Nat \ {0} /\ Timed \in BOOLEAN

VARIABLES
  entered,  (* __state_ & __write_entered_ *)
  readers,  (* __state_ & __n_readers_ *)
  pc,       (* pc[t]: "idle", "wantWrite", "wantRead", "entered", "writing", "reading" *)
  asleep    (* the threads that wait at a gate: __gate2_ if pc is "entered", or __gate1_ *)

vars == <<entered, readers, pc, asleep>>

Init ==
  /\ entered = FALSE
  /\ readers = 0
  /\ pc = [t \in Threads |-> "idle"]
  /\ asleep = {}

Goto(t, to) == pc' = [pc EXCEPT ![t] = to]

AtGate1 == {t \in asleep : pc[t] \in {"wantWrite", "wantRead"}}
AtGate2 == {t \in asleep : pc[t] = "entered"}

-------------------------------------------------------------------------------
Call(t, want) ==
  /\ pc[t] = "idle"
  /\ Goto(t, want)
  /\ UNCHANGED <<entered, readers, asleep>>

(* Mutant: the second gate is passed with a reader inside.                  *)
LockAmongReaders(t) ==
  /\ pc[t] = "wantWrite" /\ t \notin asleep
  /\ IF entered
     THEN /\ asleep' = asleep \cup {t}
          /\ UNCHANGED <<entered, pc>>
     ELSE /\ entered' = TRUE
          /\ Goto(t, "writing")
          /\ UNCHANGED asleep
  /\ UNCHANGED readers

(* lock(), to the first gate and maybe on to the second.                    *)
Lock(t) ==
  /\ pc[t] = "wantWrite" /\ t \notin asleep
  /\ IF entered
     THEN /\ asleep' = asleep \cup {t}
          /\ UNCHANGED <<entered, pc>>
     ELSE /\ entered' = TRUE
          /\ Goto(t, IF readers = 0 THEN "writing" ELSE "entered")
          /\ asleep' = IF readers = 0 THEN asleep ELSE asleep \cup {t}
  /\ UNCHANGED readers

LockGate2(t) ==
  /\ pc[t] = "entered" /\ t \notin asleep
  /\ IF readers # 0
     THEN asleep' = asleep \cup {t} /\ UNCHANGED pc
     ELSE Goto(t, "writing") /\ UNCHANGED asleep
  /\ UNCHANGED <<entered, readers>>

TryLock(t) ==
  /\ pc[t] = "idle"
  /\ ~entered /\ readers = 0
  /\ entered' = TRUE
  /\ Goto(t, "writing")
  /\ UNCHANGED <<readers, asleep>>

(* Mutant: one of the threads at the gate is told.                          *)
UnlockTellsOne(t) ==
  /\ pc[t] = "writing"
  /\ entered' = FALSE /\ readers' = 0
  /\ Goto(t, "idle")
  /\ IF AtGate1 = {} THEN UNCHANGED asleep
     ELSE \E u \in AtGate1 : asleep' = asleep \ {u}

Unlock(t) ==
  /\ pc[t] = "writing"
  /\ entered' = FALSE /\ readers' = 0
  /\ Goto(t, "idle")
  /\ asleep' = asleep \ AtGate1

(* lock_shared().                                                           *)
LockShared(t) ==
  /\ pc[t] = "wantRead" /\ t \notin asleep
  /\ IF entered \/ readers = MaxReaders
     THEN asleep' = asleep \cup {t} /\ UNCHANGED <<readers, pc>>
     ELSE /\ readers' = readers + 1
          /\ Goto(t, "reading")
          /\ UNCHANGED asleep
  /\ UNCHANGED entered

TryLockShared(t) ==
  /\ pc[t] = "idle"
  /\ ~entered /\ readers # MaxReaders
  /\ readers' = readers + 1
  /\ Goto(t, "reading")
  /\ UNCHANGED <<entered, asleep>>

(* unlock_shared() wakes the writer at the second gate when the last reader *)
(* leaves, or one thread at the first when the number of readers leaves its *)
(* limit.                                                                   *)
UnlockShared(t) ==
  /\ pc[t] = "reading"
  /\ readers' = readers - 1
  /\ Goto(t, "idle")
  /\ UNCHANGED entered
  /\ LET told == IF entered THEN IF readers' = 0 THEN AtGate2 ELSE {}
                 ELSE IF readers' = MaxReaders - 1 THEN AtGate1 ELSE {}
     IN  IF told = {} THEN UNCHANGED asleep
         ELSE \E u \in told : asleep' = asleep \ {u}

Spurious(t) ==
  /\ t \in asleep
  /\ asleep' = asleep \ {t}
  /\ UNCHANGED <<entered, readers, pc>>

-------------------------------------------------------------------------------
(* try_lock_until() and try_lock_shared_until() return false if what they   *)
(* wait for is not there when the time is up.                               *)
GiveUpGate1(t) ==
  /\ Timed
  /\ \/ pc[t] = "wantWrite" /\ entered
     \/ pc[t] = "wantRead" /\ (entered \/ readers = MaxReaders)
  /\ Goto(t, "idle")
  /\ asleep' = asleep \ {t}
  /\ UNCHANGED <<entered, readers>>

(* At the second gate the writer gives back its bit, and tells all whom it  *)
(* kept out.                                                                *)
GiveUpGate2(t) ==
  /\ Timed
  /\ pc[t] = "entered" /\ readers # 0
  /\ entered' = FALSE
  /\ Goto(t, "idle")
  /\ asleep' = (asleep \ {t}) \ AtGate1
  /\ UNCHANGED readers

-------------------------------------------------------------------------------
Step(t) == Lock(t) \/ LockGate2(t) \/ LockShared(t) \/ Unlock(t) \/ UnlockShared(t)

Next ==
  \E t \in Threads :
    \/ Call(t, "wantWrite") \/ Call(t, "wantRead")
    \/ TryLock(t) \/ TryLockShared(t)
    \/ Step(t) \/ Spurious(t)
    \/ GiveUpGate1(t) \/ GiveUpGate2(t)

Spec == Init /\ [][Next]_vars

(* A thread that is awake keeps running, the mutex is given to it in the    *)
(* end, and who holds the lock lets it go.                                  *)
FairSpec == Spec /\ \A t \in Threads : WF_vars(Step(t))

-------------------------------------------------------------------------------
PCs == {"idle", "wantWrite", "wantRead", "entered", "writing", "reading"}
At(p) == {t \in Threads : pc[t] = p}

TypeOK ==
  /\ entered \in BOOLEAN
  /\ readers \in 0 .. MaxReaders
  /\ pc \in [Threads -> PCs]
  /\ asleep \subseteq At("wantWrite") \cup At("wantRead") \cup At("entered")

(* The word says who is inside: one writer has its bit, from the first gate *)
(* to unlock(), and every reader is counted.                                *)
WordCounts ==
  /\ readers = Cardinality(At("reading"))
  /\ entered <=> At("entered") \cup At("writing") # {}
  /\ \A t, u \in At("entered") \cup At("writing") : t = u

(* A thread that sleeps has somebody to wake it: at the first gate a writer *)
(* that has entered, or as many readers as there can be; at the second a    *)
(* reader.  (When more threads than one sleep at the limit of readers the   *)
(* first gate can do worse: unlock_shared() wakes one thread when their     *)
(* number leaves the limit and none when it falls further.)                 *)
NoLostWakeup ==
  /\ AtGate1 # {} => entered \/ readers = MaxReaders
  /\ AtGate2 # {} => readers # 0

(* A writer that has entered writes in the end, unless its time is up: new  *)
(* readers do not keep it waiting.                                          *)
EnteredWriterMovesOn(t) == pc[t] = "entered" ~> pc[t] # "entered"

Mode(p) == IF p = "writing" THEN "write" ELSE IF p = "reading" THEN "read" ELSE "none"

RW == INSTANCE ReadersWriterLock WITH mode <- [t \in Threads |-> Mode(pc[t])]

(* A writer alone, or readers together.                                     *)
ImplementsRWLock == RW!Spec
===============================================================================
