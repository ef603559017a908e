------------------------ MODULE SanitizerMutexesProofs ------------------------
(***************************************************************************)
(* Proofs about the two locks of sanitizer_common, for every finite set of *)
(* threads, and that they hold in the run of both (MCSanitizerMutexes).    *)
(*                                                                         *)
(* SanitizerRWMutex: the word is the sum of what the threads inside and    *)
(* the announced readers put into it; that equation makes exclusion        *)
(* inductive.  SanitizerBlockingMutex (B): its three invariants together   *)
(* are inductive.                                                          *)
(***************************************************************************)
EXTENDS MCSanitizerMutexes, FiniteSetTheorems, TLAPS

Typed == state \in Nat /\ pc \in [Threads -> PCs]

IInv == Typed /\ WordCountsHolders /\ Exclusion

(* Both sets the word counts are finite, so their cardinalities are         *)
(* natural numbers.                                                         *)
LEMMA CountsAreNat ==
  /\ IsFiniteSet(Counted) /\ Cardinality(Counted) \in Nat
  /\ IsFiniteSet(Writers) /\ Cardinality(Writers) \in Nat
<1>1. Counted \subseteq Threads /\ Writers \subseteq Threads
  BY DEF Counted, Writers
<1> QED  BY <1>1, ThreadsFinite, FS_Subset, FS_CardinalityType

(* At most one writer: the cardinality of Writers is 0 or 1.                *)
LEMMA OneWriter ==
  ASSUME Exclusion
  PROVE  Cardinality(Writers) = IF Writers = {} THEN 0 ELSE 1
<1>1. CASE Writers = {}
  BY <1>1, FS_EmptySet
<1>2. CASE Writers # {}
  <2>1. PICK w \in Writers : TRUE
    BY <1>2
  <2>2. Writers = {w}
    BY <2>1 DEF Exclusion
  <2> QED  BY <1>2, <2>2, FS_Singleton
<1> QED  BY <1>1, <1>2

(* What the word tells a thread that looks at it.                           *)
LEMMA WordTells ==
  ASSUME IInv
  PROVE  /\ state = kUnlocked => Counted = {} /\ Writers = {}
         /\ ~WriteLocked <=> Writers = {}
<1> DEFINE C == Cardinality(Counted)
           W == Cardinality(Writers)
<1>1. C \in Nat /\ W \in Nat /\ (W = IF Writers = {} THEN 0 ELSE 1)
  BY CountsAreNat, OneWriter DEF IInv
<1>2. state = 2 * C + W
  BY <1>1 DEF IInv, WordCountsHolders, kReadLock, kWriteLock
<1>3. Counted = {} <=> C = 0
  BY CountsAreNat, FS_EmptySet
<1> HIDE DEF C, W
<1>4. state = 0 => C = 0 /\ W = 0
  BY <1>1, <1>2
<1>5. state % 2 = W
  BY <1>1, <1>2
<1> QED  BY <1>1, <1>3, <1>4, <1>5 DEF kUnlocked, WriteLocked

(* The effect of one thread's move on the two sets.                         *)
LEMMA MoveEffect ==
  ASSUME Typed, NEW t \in Threads, NEW from, NEW to, Goto(t, from, to)
  PROVE  /\ Counted' = IF to \in {"ReadLockSlow", "reading"}
                         THEN Counted \cup {t} ELSE Counted \ {t}
         /\ Writers' = IF to = "writing" THEN Writers \cup {t} ELSE Writers \ {t}
         /\ Readers' = IF to = "reading" THEN Readers \cup {t} ELSE Readers \ {t}
         /\ t \in Counted <=> from \in {"ReadLockSlow", "reading"}
         /\ t \in Writers <=> from = "writing"
         /\ t \in Readers <=> from = "reading"
BY DEF Typed, Goto, Counted, Writers, Readers

(* Moves change the cardinalities by one where the thread enters or leaves. *)
LEMMA MoveCounts ==
  ASSUME NEW t,
         NEW S, IsFiniteSet(S)
  PROVE  /\ t \notin S => Cardinality(S \cup {t}) = Cardinality(S) + 1
         /\ t \in S => Cardinality(S \ {t}) = Cardinality(S) - 1
         /\ t \notin S => S \ {t} = S
         /\ t \in S => S \cup {t} = S
BY FS_AddElement, FS_RemoveElement

LEMMA Initially == Init => IInv
<1> SUFFICES ASSUME Init PROVE IInv
  OBVIOUS
<1>1. Counted = {} /\ Writers = {}
  BY DEF Init, Counted, Writers
<1>2. WordCountsHolders
  BY <1>1, FS_EmptySet DEF Init, WordCountsHolders, kUnlocked, kReadLock, kWriteLock
<1> QED  BY <1>1, <1>2 DEF Init, IInv, Typed, PCs, Exclusion, kUnlocked

LEMMA Inductive == IInv /\ [Next]_vars => IInv'
<1> SUFFICES ASSUME IInv, [Next]_vars PROVE IInv'
  OBVIOUS
<1> USE DEF kUnlocked, kReadLock, kWriteLock
<1>a. Typed /\ WordCountsHolders /\ Exclusion
  BY DEF IInv
<1>b. /\ Cardinality(Counted) \in Nat
      /\ Cardinality(Writers) \in Nat
      /\ IsFiniteSet(Counted)
      /\ IsFiniteSet(Writers)
  BY CountsAreNat
<1>1. CASE UNCHANGED vars
  BY <1>1, <1>a DEF vars, IInv, Typed, WordCountsHolders, Exclusion, Counted, Writers, Readers
<1>2. ASSUME NEW t \in Threads, LockFast(t) \/ LockSlowCas(t)
      PROVE  IInv'
  <2>1. PICK from \in {"idle", "LockCas"} : Goto(t, from, "writing") /\ state = 0 /\ state' = 1
    BY <1>2 DEF LockFast, LockSlowCas
  <2>2. Counted = {} /\ Writers = {} /\ Readers = {}
    BY <2>1, WordTells DEF Counted, Readers
  <2>3. Counted' = {} /\ Writers' = {t} /\ Readers' = {}
    BY <1>a, <2>1, <2>2, MoveEffect
  <2>4. Typed'
    BY <1>a, <2>1 DEF Typed, Goto, PCs
  <2>5. WordCountsHolders'
    BY <2>1, <2>3, FS_EmptySet, FS_Singleton DEF WordCountsHolders
  <2> QED  BY <2>3, <2>4, <2>5 DEF IInv, Exclusion
<1>3. ASSUME NEW t \in Threads,
             LockContended(t) \/ LockSlowLoad(t) \/ LockSlowCasFails(t)
      PROVE  IInv'
  <2>1. PICK from \in {"idle", "LockSlow", "LockCas"}, to \in {"LockSlow", "LockCas"} :
          Goto(t, from, to) /\ state' = state
    BY <1>3 DEF LockContended, LockSlowLoad, LockSlowCasFails
  <2>2. Counted' = Counted /\ Writers' = Writers /\ Readers' = Readers
    BY <1>a, <2>1, MoveEffect
  <2>3. Typed'
    BY <1>a, <2>1 DEF Typed, Goto, PCs
  <2> QED  BY <1>a, <2>1, <2>2, <2>3 DEF IInv, Exclusion, WordCountsHolders
<1>4. ASSUME NEW t \in Threads, Unlock(t)
      PROVE  IInv'
  <2>1. Goto(t, "writing", "idle") /\ state' = state - 1
    BY <1>4 DEF Unlock
  <2>2. t \in Writers /\ t \notin Counted /\ t \notin Readers
    BY <1>a, <2>1, MoveEffect
  <2>3. Counted' = Counted /\ Writers' = Writers \ {t} /\ Readers' = Readers
    BY <1>a, <2>1, <2>2, MoveEffect
  <2>4. Cardinality(Writers') = Cardinality(Writers) - 1
    BY <1>b, <2>2, <2>3, MoveCounts
  <2>5. WordCountsHolders'
    BY <1>a, <1>b, <2>1, <2>3, <2>4 DEF WordCountsHolders, Typed
  <2>6. Cardinality(Writers) >= 1
    BY <1>a, <2>2, OneWriter
  <2>7. Typed'
    BY <1>a, <1>b, <2>1, <2>6 DEF Typed, Goto, PCs, WordCountsHolders
  <2> QED  BY <1>a, <2>3, <2>5, <2>7 DEF IInv, Exclusion
<1>5. ASSUME NEW t \in Threads, ReadLock(t)
      PROVE  IInv'
  <2>1. PICK to \in {"ReadLockSlow", "reading"} :
          /\ Goto(t, "idle", to) /\ state' = state + 2
          /\ to = "reading" => ~WriteLocked
    BY <1>5 DEF ReadLock
  <2>2. t \notin Counted /\ t \notin Writers
    BY <1>a, <2>1, MoveEffect
  <2>3. Counted' = Counted \cup {t} /\ Writers' = Writers
    BY <1>a, <2>1, <2>2, MoveEffect
  <2>4. Cardinality(Counted') = Cardinality(Counted) + 1
    BY <1>b, <2>2, <2>3, MoveCounts
  <2>5. WordCountsHolders'
    BY <1>a, <1>b, <2>1, <2>3, <2>4 DEF WordCountsHolders, Typed
  <2>6. Typed'
    BY <1>a, <2>1 DEF Typed, Goto, PCs
  <2>7. Writers # {} => Readers' = {}
    BY <1>a, <2>1, MoveEffect, WordTells DEF Exclusion
  <2> QED  BY <1>a, <2>3, <2>5, <2>6, <2>7 DEF IInv, Exclusion
<1>6. ASSUME NEW t \in Threads, ReadLockSlow(t)
      PROVE  IInv'
  <2>1. Goto(t, "ReadLockSlow", "reading") /\ state' = state /\ Writers = {}
    BY <1>6, WordTells DEF ReadLockSlow
  <2>2. Counted' = Counted /\ Writers' = Writers
    BY <1>a, <2>1, MoveEffect
  <2>3. Typed'
    BY <1>a, <2>1 DEF Typed, Goto, PCs
  <2> QED  BY <1>a, <2>1, <2>2, <2>3 DEF IInv, Exclusion, WordCountsHolders
<1>7. ASSUME NEW t \in Threads, ReadUnlock(t)
      PROVE  IInv'
  <2>1. Goto(t, "reading", "idle") /\ state' = state - 2
    BY <1>7 DEF ReadUnlock
  <2>2. t \in Counted /\ t \notin Writers
    BY <1>a, <2>1, MoveEffect
  <2>3. /\ Counted' = Counted \ {t} /\ Writers' = Writers
        /\ Readers' = Readers \ {t}
    BY <1>a, <2>1, <2>2, MoveEffect
  <2>4. Cardinality(Counted') = Cardinality(Counted) - 1
    BY <1>b, <2>2, <2>3, MoveCounts
  <2>5. WordCountsHolders'
    BY <1>a, <1>b, <2>1, <2>3, <2>4 DEF WordCountsHolders, Typed
  <2>6. Cardinality(Counted) >= 1
    BY <1>b, <2>2, FS_EmptySet
  <2>7. Typed'
    BY <1>a, <1>b, <2>1, <2>6 DEF Typed, Goto, PCs, WordCountsHolders
  <2> QED  BY <1>a, <2>3, <2>5, <2>7 DEF IInv, Exclusion
<1> QED  BY <1>1, <1>2, <1>3, <1>4, <1>5, <1>6, <1>7 DEF Next

LEMMA Invariance == Spec => []IInv
BY Initially, Inductive, PTL DEF Spec

-------------------------------------------------------------------------------
(* The word never leaves the range its readers and writer account for.      *)
THEOREM TypeCorrect == Spec => []TypeOK
<1>1. ASSUME IInv PROVE TypeOK
  <2> DEFINE C == Cardinality(Counted)
             W == Cardinality(Writers)
             N == Cardinality(Threads)
  <2>1. C \in Nat /\ W \in 0 .. 1 /\ state = 2 * C + W
    BY <1>1, CountsAreNat, OneWriter DEF IInv, WordCountsHolders, kReadLock, kWriteLock
  <2>2. C <= N /\ N \in Nat
    BY ThreadsFinite, FS_Subset, FS_CardinalityType DEF Counted
  <2> HIDE DEF C, W, N
  <2>3. state \in 0 .. 2 * N + 1
    BY <2>1, <2>2
  <2> QED  BY <1>1, <2>3 DEF TypeOK, IInv, Typed, N
<1> QED  BY <1>1, Invariance, PTL

(* The word always says who is inside or has announced itself, so the       *)
(* DCHECKs of Unlock and ReadUnlock never fire.                             *)
THEOREM WordIsCount == Spec => []WordCountsHolders
<1>1. IInv => WordCountsHolders
  BY DEF IInv
<1> QED  BY <1>1, Invariance, PTL

(* A writer is alone inside, whatever the number of threads.                *)
THEOREM MutualExclusion == Spec => []Exclusion
<1>1. IInv => Exclusion
  BY DEF IInv
<1> QED  BY <1>1, Invariance, PTL

(* No writer enters while a reader that announced itself waits.             *)
THEOREM NoOvertaking == Spec => ReaderNotOvertaken
<1>1. ASSUME IInv, [Next]_vars, NEW r \in Threads, pc[r] = "ReadLockSlow"
      PROVE  Writers' \subseteq Writers
  <2>1. state # kUnlocked
    BY <1>1, WordTells DEF Counted
  <2>2. CASE UNCHANGED vars
    BY <2>2 DEF vars, Writers
  <2>3. ASSUME NEW t \in Threads, NEW from, NEW to, Goto(t, from, to), to # "writing"
        PROVE  Writers' \subseteq Writers
    BY <1>1, <2>3 DEF IInv, Typed, Goto, Writers
  <2>4. CASE Next
    <3>1. PICK t \in Threads, from \in PCs, to \in PCs \ {"writing"} : Goto(t, from, to)
      BY <2>1, <2>4 DEF Next, LockFast, LockContended, LockSlowLoad, LockSlowCas,
         LockSlowCasFails, Unlock, ReadLock, ReadLockSlow, ReadUnlock, PCs
    <3> QED  BY <2>3, <3>1
  <2> QED  BY <1>1, <2>2, <2>4
<1>2. IInv /\ [Next]_vars =>
        [(\E t \in Threads : pc[t] = "ReadLockSlow") => Writers' \subseteq Writers]_vars
  BY <1>1
<1> QED  BY <1>2, Invariance, PTL DEF Spec, ReaderNotOvertaken

(* Every step of the word is a step or a stutter of the abstract lock.      *)
THEOREM Refinement == Spec => ImplementsRWLock
<1> DEFINE modes == [t \in Threads |-> Mode(pc[t])]
<1>1. Init => RW!Init
  BY DEF Init, RW!Init, Mode
<1>2. ASSUME Typed, NEW t \in Threads, NEW from \in PCs, NEW to \in PCs, Goto(t, from, to)
      PROVE  modes' = [modes EXCEPT ![t] = Mode(to)]
  BY <1>2 DEF Typed, Goto
<1>3. ASSUME IInv, Next PROVE [RW!Next]_modes
  <2>0. Typed
    BY <1>3 DEF IInv
  <2>1. ASSUME NEW t \in Threads, LockFast(t) \/ LockSlowCas(t)
        PROVE  RW!AcquireWrite(t)
    <3>1. PICK from \in PCs : Goto(t, from, "writing") /\ state = kUnlocked
      BY <2>1 DEF LockFast, LockSlowCas, PCs
    <3>2. \A u \in Threads : pc[u] # "writing" /\ pc[u] # "reading"
      BY <1>3, <3>1, WordTells DEF Counted, Writers
    <3>3. modes' = [modes EXCEPT ![t] = "write"]
      BY <1>2, <2>0, <3>1 DEF PCs, Mode
    <3> QED  BY <3>2, <3>3 DEF RW!AcquireWrite, Mode
  <2>2. ASSUME NEW t \in Threads, NEW from \in PCs, Goto(t, from, "reading"),
               from # "reading", from # "writing", ~WriteLocked
        PROVE  RW!AcquireRead(t)
    <3>1. \A u \in Threads : pc[u] # "writing"
      BY <1>3, <2>2, WordTells DEF Writers
    <3>2. modes' = [modes EXCEPT ![t] = "read"]
      BY <1>2, <2>0, <2>2 DEF PCs, Mode
    <3> QED  BY <2>2, <3>1, <3>2 DEF RW!AcquireRead, Goto, Mode
  <2>3. ASSUME NEW t \in Threads, Unlock(t) \/ ReadUnlock(t)
        PROVE  RW!Release(t)
    <3>1. PICK from \in PCs : from \in {"writing", "reading"} /\ Goto(t, from, "idle")
      BY <2>3 DEF Unlock, ReadUnlock, PCs
    <3>2. modes' = [modes EXCEPT ![t] = Mode("idle")]
      BY <1>2, <2>0, <3>1 DEF PCs
    <3> QED  BY <3>1, <3>2 DEF RW!Release, Goto, Mode
  <2>4. ASSUME NEW t \in Threads, NEW from \in PCs \ {"reading", "writing"},
               NEW to \in PCs \ {"reading", "writing"}, Goto(t, from, to)
        PROVE  modes' = modes
    BY <2>0, <2>4 DEF Typed, Goto, PCs, Mode
  <2>5. PICK t \in Threads :
          \/ LockFast(t) \/ LockSlowCas(t)
          \/ \E from \in {"idle", "ReadLockSlow"} : Goto(t, from, "reading") /\ ~WriteLocked
          \/ Unlock(t) \/ ReadUnlock(t)
          \/ \E from, to \in PCs \ {"reading", "writing"} : Goto(t, from, to)
    BY <1>3 DEF Next, LockContended, LockSlowLoad, LockSlowCasFails, ReadLock,
       ReadLockSlow, PCs
  <2> QED  BY <2>1, <2>2, <2>3, <2>4, <2>5 DEF RW!Next, PCs
<1>4. UNCHANGED vars => UNCHANGED modes
  BY DEF vars
<1>5. IInv /\ [Next]_vars => [RW!Next]_modes
  BY <1>3, <1>4
<1> QED  BY <1>1, <1>5, Invariance, PTL DEF Spec, ImplementsRWLock, RW!Spec

-------------------------------------------------------------------------------
BInv == B!TypeOK /\ B!WordTellsHolder /\ B!NoSleeperForgotten

LEMMA BInitially == B!Init => BInv
BY DEF B!Init, BInv, B!TypeOK, B!WordTellsHolder, B!NoSleeperForgotten, B!Holders, B!Asleep,
   B!PCs, B!MtxUnlocked, B!MtxLocked, B!MtxSleeping

LEMMA BInductive == BInv /\ [B!Next]_(B!vars) => BInv'
<1> SUFFICES ASSUME BInv, [B!Next]_(B!vars) PROVE BInv'
  OBVIOUS
<1> USE DEF BInv, B!TypeOK, B!PCs, B!MtxUnlocked, B!MtxLocked, B!MtxSleeping
<1>1. CASE UNCHANGED B!vars
  BY <1>1 DEF B!vars, B!WordTellsHolder, B!NoSleeperForgotten, B!Holders, B!Asleep
<1>2. ASSUME NEW t \in Threads, B!Lock(t) \/ B!LockLoop(t)
      PROVE  BInv'
  <2>1. PICK from \in {"idle", "contend"}, to \in {"holding", "contend", "futex_wait"} :
          /\ B!Goto(t, from, to)
          /\ from = "contend" => m' = B!MtxSleeping
          /\ from = "idle" => m' = B!MtxLocked /\ to # "futex_wait"
          /\ to = "holding" <=> m = B!MtxUnlocked
    BY <1>2 DEF B!Lock, B!LockLoop
  <2>2. B!TypeOK'
    BY <2>1 DEF B!Goto
  <2>3. B!WordTellsHolder'
    BY <2>1 DEF B!Goto, B!WordTellsHolder, B!Holders
  <2>4. B!Asleep' = B!Asleep
    BY <2>1 DEF B!Goto, B!Asleep
  <2>5. B!NoSleeperForgotten'
    <3>1. CASE m' = B!MtxSleeping
      BY <3>1 DEF B!NoSleeperForgotten
    <3>2. CASE m' # B!MtxSleeping /\ to = "contend"
      BY <2>1, <3>2 DEF B!NoSleeperForgotten, B!Goto
    <3>3. CASE m' # B!MtxSleeping /\ to = "holding"
      BY <2>1, <2>4, <3>3 DEF B!NoSleeperForgotten, B!Goto
    <3> QED  BY <2>1, <3>1, <3>2, <3>3
  <2> QED  BY <2>2, <2>3, <2>5
<1>3. ASSUME NEW t \in Threads, B!FutexWait(t) \/ B!FutexInterrupted(t)
      PROVE  BInv'
  <2>1. PICK from \in {"futex_wait", "asleep"}, to \in {"asleep", "contend"} :
          B!Goto(t, from, to) /\ m' = m /\ (to = "asleep" => m = B!MtxSleeping)
    BY <1>3 DEF B!FutexWait, B!FutexInterrupted
  <2>2. B!TypeOK'
    BY <2>1 DEF B!Goto
  <2>3. B!Holders' = B!Holders
    BY <2>1 DEF B!Goto, B!Holders
  <2>4. B!WordTellsHolder'
    BY <2>1, <2>3 DEF B!WordTellsHolder
  <2>5. B!NoSleeperForgotten'
    BY <2>1 DEF B!Goto, B!NoSleeperForgotten
  <2> QED  BY <2>2, <2>4, <2>5
<1>4. ASSUME NEW t \in Threads, B!Unlock(t)
      PROVE  BInv'
  <2>1. PICK to \in {"idle", "futex_wake"} :
          B!Goto(t, "holding", to) /\ m' = B!MtxUnlocked /\ (to = "futex_wake" <=> m = B!MtxSleeping)
    BY <1>4 DEF B!Unlock
  <2>2. B!TypeOK'
    BY <2>1 DEF B!Goto
  <2>3. B!Holders' = {}
    BY <2>1 DEF B!Goto, B!Holders, B!WordTellsHolder
  <2>4. B!Asleep' = B!Asleep
    BY <2>1 DEF B!Goto, B!Asleep
  <2>5. B!NoSleeperForgotten'
    BY <2>1, <2>4 DEF B!Goto, B!NoSleeperForgotten
  <2> QED  BY <2>1, <2>2, <2>3, <2>5 DEF B!WordTellsHolder
<1>5. ASSUME NEW t \in Threads, B!FutexWake(t)
      PROVE  BInv'
  <2>1. m' = m /\ at[t] = "futex_wake"
    BY <1>5 DEF B!FutexWake
  <2>2. B!TypeOK' /\ B!Holders' = B!Holders
    BY <1>5 DEF B!FutexWake, B!Holders, B!Asleep
  <2>3. B!WordTellsHolder'
    BY <2>1, <2>2 DEF B!WordTellsHolder
  <2>4. CASE B!Asleep = {}
    <3>1. at' = [at EXCEPT ![t] = "idle"]
      BY <1>5, <2>4 DEF B!FutexWake
    <3>2. B!Asleep' = {}
      BY <2>4, <3>1 DEF B!Asleep
    <3>3. B!NoSleeperForgotten'
      BY <3>2 DEF B!NoSleeperForgotten
    <3> QED  BY <2>2, <2>3, <3>3
  <2>5. CASE B!Asleep # {}
    <3>1. PICK s \in B!Asleep : at' = [at EXCEPT ![t] = "idle", ![s] = "contend"]
      BY <1>5, <2>5 DEF B!FutexWake
    <3>2. s \in Threads /\ at'[s] = "contend"
      BY <3>1 DEF B!Asleep
    <3>3. B!NoSleeperForgotten'
      BY <3>2 DEF B!NoSleeperForgotten
    <3> QED  BY <2>2, <2>3, <3>3
  <2> QED  BY <2>2, <2>3, <2>4, <2>5
<1> QED  BY <1>1, <1>2, <1>3, <1>4, <1>5 DEF B!Next

LEMMA BInvariance == B!Spec => []BInv
BY BInitially, BInductive, PTL DEF B!Spec

-------------------------------------------------------------------------------
(* The word holds one of its three values.                                  *)
THEOREM BlockingTypeCorrect == B!Spec => []B!TypeOK
<1>1. BInv => B!TypeOK
  BY DEF BInv
<1> QED  BY <1>1, BInvariance, PTL

(* One holder at most, and the word is free exactly when there is none.     *)
THEOREM BlockingMutualExclusion == B!Spec => []B!WordTellsHolder
<1>1. BInv => B!WordTellsHolder
  BY DEF BInv
<1> QED  BY <1>1, BInvariance, PTL

(* No sleeper is forgotten, however many threads contend.                   *)
THEOREM NoLostWakeup == B!Spec => []B!NoSleeperForgotten
<1>1. BInv => B!NoSleeperForgotten
  BY DEF BInv
<1> QED  BY <1>1, BInvariance, PTL

(* Every step is a step or a stutter of the abstract lock.                  *)
THEOREM BlockingRefinement == B!Spec => B!ImplementsLock
<1> DEFINE mode == [t \in Threads |-> B!Mode(at[t])]
<1>1. B!Init => B!RW!Init
  BY DEF B!Init, B!RW!Init, B!Mode
<1>2. ASSUME BInv, B!Next PROVE [B!RW!Next]_mode
  <2>1. B!TypeOK
    BY <1>2 DEF BInv
  <2>2. ASSUME NEW t \in Threads, B!Lock(t) \/ B!LockLoop(t) PROVE B!RW!AcquireWrite(t) \/ mode' = mode
    <3>1. CASE m = B!MtxUnlocked
      <4>1. \A u \in Threads : at[u] # "holding"
        BY <1>2, <3>1 DEF BInv, B!WordTellsHolder, B!Holders
      <4>2. mode' = [mode EXCEPT ![t] = "write"]
        BY <2>1, <2>2, <3>1 DEF B!Lock, B!LockLoop, B!Goto, B!TypeOK, B!Mode
      <4> QED  BY <4>1, <4>2 DEF B!RW!AcquireWrite, B!Mode
    <3>2. CASE m # B!MtxUnlocked
      BY <2>1, <2>2, <3>2 DEF B!Lock, B!LockLoop, B!Goto, B!TypeOK, B!Mode
    <3> QED  BY <3>1, <3>2
  <2>3. ASSUME NEW t \in Threads, B!FutexWait(t) \/ B!FutexInterrupted(t) \/ B!FutexWake(t)
        PROVE  mode' = mode
    BY <2>1, <2>3 DEF B!FutexWait, B!FutexInterrupted, B!FutexWake, B!Goto, B!TypeOK, B!Mode, B!Asleep
  <2>4. ASSUME NEW t \in Threads, B!Unlock(t) PROVE B!RW!Release(t)
    <3>1. at[t] = "holding" /\ mode' = [mode EXCEPT ![t] = "none"]
      BY <2>1, <2>4 DEF B!Unlock, B!Goto, B!TypeOK, B!Mode
    <3> QED  BY <3>1 DEF B!RW!Release, B!Mode
  <2> QED  BY <1>2, <2>2, <2>3, <2>4 DEF B!Next, B!RW!Next
<1>3. UNCHANGED B!vars => UNCHANGED mode
  BY DEF B!vars
<1>4. BInv /\ [B!Next]_(B!vars) => [B!RW!Next]_mode
  BY <1>2, <1>3
<1> QED  BY <1>1, <1>4, BInvariance, PTL DEF B!Spec, B!ImplementsLock, B!RW!Spec

-------------------------------------------------------------------------------
(* In the run of both locks each is used, or left alone, as its module says. *)
LEMMA Parts == MCSpec => Spec /\ B!Spec
<1>1. MCInit => Init /\ B!Init
  BY DEF MCInit
<1>2. [MCNext]_mcvars => [Next]_vars /\ [B!Next]_(B!vars)
  BY DEF MCNext, mcvars, vars, B!vars
<1> QED  BY <1>1, <1>2, PTL DEF MCSpec, Spec, B!Spec

(* No sleeper of a BlockingMutex is forgotten, in the run.                  *)
THEOREM RunForgetsNobody == MCSpec => []NoSleeperForgotten
<1>1. B!NoSleeperForgotten => NoSleeperForgotten
  BY DEF NoSleeperForgotten
<1> QED  BY <1>1, Parts, NoLostWakeup, PTL

(* Both locks implement the abstract one, in the run.                       *)
THEOREM RunImplementsLocks == MCSpec => ImplementsRWLock /\ ImplementsLock
<1>1. B!ImplementsLock <=> ImplementsLock
  BY DEF ImplementsLock
<1> QED  BY <1>1, Parts, Refinement, BlockingRefinement, PTL
===============================================================================
