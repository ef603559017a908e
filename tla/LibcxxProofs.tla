----------------------------- MODULE LibcxxProofs ------------------------------
(***************************************************************************)
(* Proofs about the run of libc++ and libc++abi: for every set of threads, *)
(* every number of flags and guards and every limit of readers.  Each part *)
(* has an inductive invariant of its own: SharedMutex (IInv), CxaGuard     *)
(* (GInv), CallOnce (FInv), SharedPtr (PInv), TimedMutex (TInv) and        *)
(* SharedState (SInv).  The last section puts them together: a behaviour   *)
(* of the run is a behaviour of each module, or stays as it was there.     *)
(***************************************************************************)
EXTENDS MCLibcxx, FiniteSetTheorems, SequenceTheorems, TLAPS

-------------------------------------------------------------------------------
(* SharedMutex.  The word counts who is inside, and a writer past the second   *)
(* gate has no readers with it.  Where the limit is out of reach no wakeup is  *)
(* lost.                                                                       *)
Writer == At("entered") \cup At("writing")

WriterAlone == At("writing") # {} => readers = 0

IInv == TypeOK /\ WordCounts /\ WriterAlone

(* What the word tells: the set of readers is finite, and empty iff the     *)
(* count is zero.                                                           *)
LEMMA ReadersCounted ==
  ASSUME IInv
  PROVE  /\ IsFiniteSet(At("reading"))
         /\ readers = Cardinality(At("reading"))
         /\ readers = 0 <=> At("reading") = {}
<1>1. IsFiniteSet(At("reading"))
  <2>1. At("reading") \in SUBSET Threads
    BY DEF At
  <2> QED  BY <2>1, FS_Subset, SharedMutexAssumption
<1>2. readers = Cardinality(At("reading"))
  BY DEF IInv, WordCounts
<1> QED  BY <1>1, <1>2, FS_EmptySet

(* The effect of one thread's move on who is inside.                        *)
LEMMA MoveEffect ==
  ASSUME IInv, NEW t \in Threads, NEW to \in PCs, Goto(t, to)
  PROVE  /\ pc' \in [Threads -> PCs]
         /\ Writer' = IF to \in {"entered", "writing"} THEN Writer \cup {t} ELSE Writer \ {t}
         /\ At("writing")' = IF to = "writing" THEN At("writing") \cup {t} ELSE At("writing") \ {t}
         /\ Cardinality(At("reading")') =
              IF pc[t] = "reading"
              THEN IF to = "reading" THEN readers ELSE readers - 1
              ELSE IF to = "reading" THEN readers + 1 ELSE readers
<1>1. pc \in [Threads -> PCs]
  BY DEF IInv, TypeOK
<1>2. /\ Writer' = IF to \in {"entered", "writing"} THEN Writer \cup {t} ELSE Writer \ {t}
      /\ At("writing")' = IF to = "writing" THEN At("writing") \cup {t} ELSE At("writing") \ {t}
  BY <1>1 DEF Writer, At, Goto
<1>3. /\ At("reading")' = IF to = "reading" THEN At("reading") \cup {t} ELSE At("reading") \ {t}
      /\ t \in At("reading") <=> pc[t] = "reading"
  BY <1>1 DEF At, Goto
<1>4. readers \in Nat
  BY SharedMutexAssumption DEF IInv, TypeOK
<1>5. Cardinality(At("reading")') =
              IF pc[t] = "reading"
              THEN IF to = "reading" THEN readers ELSE readers - 1
              ELSE IF to = "reading" THEN readers + 1 ELSE readers
  BY <1>3, <1>4, ReadersCounted, FS_AddElement, FS_RemoveElement
<1> QED  BY <1>1, <1>2, <1>5 DEF Goto

(* Sleepers are threads that are on their way in.                           *)
LEMMA AsleepTyped ==
  ASSUME IInv, NEW t \in Threads, NEW to \in PCs, Goto(t, to),
         asleep' \subseteq asleep \cup {t},
         t \in asleep' => to \in {"wantWrite", "wantRead", "entered"}
  PROVE  asleep' \subseteq At("wantWrite")' \cup At("wantRead")' \cup At("entered")'
BY DEF IInv, TypeOK, At, Goto, PCs

LEMMA Initially == Init => IInv
<1> SUFFICES ASSUME Init PROVE IInv
  OBVIOUS
<1>1. /\ At("reading") = {} /\ At("writing") = {} /\ At("entered") = {}
  BY DEF Init, At
<1>2. readers \in 0 .. MaxReaders
  <2>1. MaxReaders \in Nat
    BY SharedMutexAssumption
  <2> QED  BY <2>1 DEF Init
<1>4. entered \in BOOLEAN /\ pc \in [Threads -> PCs] /\ asleep = {}
  BY DEF Init, PCs
<1>5. TypeOK
  BY <1>2, <1>4 DEF TypeOK
<1>3. WordCounts
  BY <1>1, FS_EmptySet DEF Init, WordCounts
<1> QED  BY <1>1, <1>5, <1>3 DEF IInv, WriterAlone

LEMMA Inductive == IInv /\ [Next]_vars => IInv'
<1> SUFFICES ASSUME IInv, [Next]_vars PROVE IInv'
  OBVIOUS
<1>a. /\ entered \in BOOLEAN /\ readers \in 0 .. MaxReaders /\ readers \in Nat
      /\ MaxReaders \in Nat /\ pc \in [Threads -> PCs]
      /\ asleep \subseteq At("wantWrite") \cup At("wantRead") \cup At("entered")
      /\ readers = Cardinality(At("reading"))
      /\ entered <=> Writer # {}
      /\ \A t, u \in Writer : t = u
      /\ At("writing") # {} => readers = 0
      /\ \A t \in Threads : t \in Writer <=> pc[t] \in {"entered", "writing"}
      /\ Writer \subseteq Threads /\ At("writing") \subseteq Writer
  BY SharedMutexAssumption DEF IInv, TypeOK, WordCounts, WriterAlone, Writer, At
(* What is left to show for a move of one thread, once its effect is known. *)
<1>b. ASSUME NEW t \in Threads, NEW to \in PCs, Goto(t, to),
             entered' \in BOOLEAN, readers' \in 0 .. MaxReaders,
             asleep' \subseteq asleep \cup {t},
             t \in asleep' => to \in {"wantWrite", "wantRead", "entered"},
             readers' = Cardinality(At("reading")'),
             entered' <=> Writer' # {},
             \A u, v \in Writer' : u = v,
             At("writing")' # {} => readers' = 0
      PROVE  IInv'
  <2>1. asleep' \subseteq At("wantWrite")' \cup At("wantRead")' \cup At("entered")'
    BY <1>b, AsleepTyped
  <2>2. pc' \in [Threads -> PCs]
    BY <1>b, MoveEffect
  <2>3. TypeOK'
    BY <1>b, <2>1, <2>2 DEF TypeOK
  <2>4. WordCounts'
    BY <1>b DEF WordCounts, Writer
  <2> QED  BY <1>b, <2>3, <2>4 DEF IInv, WriterAlone
<1>c. ASSUME pc' = pc, entered' = entered, readers' = readers,
             asleep' \subseteq asleep \cup At("wantWrite") \cup At("wantRead") \cup At("entered")
      PROVE  IInv'
  BY <1>a, <1>c DEF IInv, TypeOK, WordCounts, WriterAlone, Writer, At
<1>1. CASE UNCHANGED vars
  BY <1>1, <1>a, <1>c DEF vars
<1>2. ASSUME NEW t \in Threads, NEW want \in {"wantWrite", "wantRead"}, Call(t, want)
      PROVE  IInv'
  <2>1. Goto(t, want) /\ want \in PCs /\ pc[t] = "idle"
    BY <1>2 DEF Call, PCs
  <2>2. Writer' = Writer /\ At("writing")' \subseteq At("writing")
        /\ Cardinality(At("reading")') = readers
    BY <1>a, <2>1, MoveEffect
  <2> QED  BY <1>2, <1>a, <1>b, <2>1, <2>2 DEF Call
<1>3. ASSUME NEW t \in Threads, Lock(t) PROVE IInv'
  <2>1. CASE entered
    BY <1>3, <1>c, <2>1 DEF Lock, At
  <2>2. CASE ~entered
    <3>1. PICK to \in {"writing", "entered"} :
            /\ Goto(t, to) /\ entered' = TRUE /\ readers' = readers
            /\ asleep' \subseteq asleep \cup {t}
            /\ t \in asleep' => to = "entered"
            /\ to = "writing" => readers = 0
            /\ pc[t] = "wantWrite"
      BY <1>3, <2>2 DEF Lock
    <3>2. Writer' = {t} /\ Cardinality(At("reading")') = readers
          /\ (At("writing")' # {} => to = "writing")
      BY <1>a, <2>2, <3>1, MoveEffect DEF PCs
    <3> QED  BY <1>a, <1>b, <3>1, <3>2 DEF PCs
  <2> QED  BY <1>a, <2>1, <2>2
<1>4. ASSUME NEW t \in Threads, LockGate2(t) PROVE IInv'
  <2>1. CASE readers # 0
    BY <1>4, <1>c, <2>1 DEF LockGate2, At
  <2>2. CASE readers = 0
    <3>1. /\ Goto(t, "writing") /\ pc[t] = "entered" /\ t \notin asleep
          /\ UNCHANGED <<entered, readers, asleep>>
      BY <1>4, <2>2 DEF LockGate2
    <3>2. t \in Writer
      BY <1>a, <3>1
    <3>3. Writer' = Writer \cup {t} /\ Cardinality(At("reading")') = readers
      BY <3>1, MoveEffect DEF PCs
    <3>4. Writer' = Writer
      BY <3>2, <3>3
    <3> QED  BY <1>a, <1>b, <2>2, <3>1, <3>3, <3>4 DEF PCs
  <2> QED  BY <2>1, <2>2
<1>5. ASSUME NEW t \in Threads, TryLock(t) PROVE IInv'
  <2>1. Goto(t, "writing") /\ pc[t] = "idle" /\ ~entered /\ readers = 0
        /\ t \notin asleep /\ entered' = TRUE /\ UNCHANGED <<readers, asleep>>
    BY <1>5, <1>a DEF TryLock, At
  <2>2. Writer' = {t} /\ Cardinality(At("reading")') = readers
    BY <1>a, <2>1, MoveEffect DEF PCs
  <2> QED  BY <1>a, <1>b, <2>1, <2>2 DEF PCs
<1>6. ASSUME NEW t \in Threads, Unlock(t) PROVE IInv'
  <2>1. Goto(t, "idle") /\ pc[t] = "writing" /\ entered' = FALSE /\ readers' = 0
        /\ t \notin asleep /\ asleep' \subseteq asleep
    BY <1>6, <1>a DEF Unlock, At
  <2>2. t \in At("writing") /\ readers = 0
    BY <1>a, <2>1 DEF At
  <2>3. Writer' = {} /\ Cardinality(At("reading")') = 0 /\ At("writing")' = {}
    BY <1>a, <2>1, <2>2, MoveEffect DEF PCs
  <2>4. readers' \in 0 .. MaxReaders
    BY <1>a, <2>1, SMT
  <2>5. entered' \in BOOLEAN
    BY <2>1
  <2> QED  BY <1>b, <2>1, <2>3, <2>4, <2>5 DEF PCs
<1>7. ASSUME NEW t \in Threads, LockShared(t) \/ TryLockShared(t) PROVE IInv'
  <2>1. CASE pc' = pc
    <3>1. LockShared(t) /\ pc[t] = "wantRead" /\ (entered \/ readers = MaxReaders)
      BY <1>7, <1>a, <2>1 DEF LockShared, TryLockShared, Goto
    <3> QED  BY <1>c, <2>1, <3>1 DEF LockShared, At
  <2>2. CASE pc' # pc
    <3>1. /\ Goto(t, "reading") /\ pc[t] \in {"wantRead", "idle"} /\ ~entered
          /\ readers # MaxReaders /\ readers' = readers + 1
          /\ t \notin asleep /\ UNCHANGED <<entered, asleep>>
      BY <1>7, <1>a, <2>2 DEF LockShared, TryLockShared, At
    <3>2. Writer' = {} /\ Cardinality(At("reading")') = readers + 1 /\ At("writing")' = {}
      BY <1>a, <3>1, MoveEffect DEF PCs
    <3>3. readers' \in 0 .. MaxReaders
      BY <1>a, <3>1
    <3> QED  BY <1>a, <1>b, <3>1, <3>2, <3>3 DEF PCs
  <2> QED  BY <2>1, <2>2
<1>8. ASSUME NEW t \in Threads, UnlockShared(t) PROVE IInv'
  <2>1. /\ Goto(t, "idle") /\ pc[t] = "reading" /\ readers' = readers - 1
        /\ entered' = entered /\ t \notin asleep /\ asleep' \subseteq asleep
    <3>1. asleep' \subseteq asleep
      BY <1>8 DEF UnlockShared
    <3> QED  BY <1>8, <1>a, <3>1 DEF UnlockShared, At
  <2>2. readers # 0
    <3>1. t \in At("reading")
      BY <2>1 DEF At
    <3> QED  BY <3>1, ReadersCounted
  <2>3. Writer' = Writer /\ Cardinality(At("reading")') = readers - 1 /\ At("writing")' = {}
    BY <1>a, <2>1, <2>2, MoveEffect DEF PCs
  <2>4. readers' \in 0 .. MaxReaders
    BY <1>a, <2>1, <2>2
  <2> QED  BY <1>a, <1>b, <2>1, <2>3, <2>4 DEF PCs
<1>9. ASSUME NEW t \in Threads, Spurious(t) PROVE IInv'
  BY <1>9, <1>c DEF Spurious
<1>10. ASSUME NEW t \in Threads, GiveUpGate1(t) PROVE IInv'
  <2>1. /\ Goto(t, "idle") /\ pc[t] \in {"wantWrite", "wantRead"}
        /\ asleep' = asleep \ {t} /\ UNCHANGED <<entered, readers>>
    BY <1>10 DEF GiveUpGate1
  <2>2. Writer' = Writer /\ Cardinality(At("reading")') = readers
        /\ At("writing")' \subseteq At("writing")
    BY <1>a, <2>1, MoveEffect DEF PCs
  <2> QED  BY <1>a, <1>b, <2>1, <2>2 DEF PCs
<1>11. ASSUME NEW t \in Threads, GiveUpGate2(t) PROVE IInv'
  <2>1. /\ Goto(t, "idle") /\ pc[t] = "entered" /\ entered' = FALSE /\ readers' = readers
        /\ asleep' \subseteq asleep \ {t}
    BY <1>11 DEF GiveUpGate2
  <2>2. Writer' = {} /\ Cardinality(At("reading")') = readers /\ At("writing")' = {}
    BY <1>a, <2>1, MoveEffect DEF PCs
  <2> QED  BY <1>a, <1>b, <2>1, <2>2 DEF PCs
<1> QED
  BY <1>1, <1>2, <1>3, <1>4, <1>5, <1>6, <1>7, <1>8, <1>9, <1>10, <1>11 DEF Next, Step

LEMMA Invariant == Spec => []IInv
BY Initially, Inductive, PTL DEF Spec

(* The variables keep their types: the count of readers never passes its    *)
(* limit into the writer's bit, and nobody sleeps who is not on the way in. *)
THEOREM TypeCorrect == Spec => []TypeOK
<1>1. IInv => TypeOK
  BY DEF IInv
<1> QED  BY <1>1, Invariant, PTL

(* The word counts who is inside.                                           *)
THEOREM WordIsExact == Spec => []WordCounts
<1>1. IInv => WordCounts
  BY DEF IInv
<1> QED  BY <1>1, Invariant, PTL

-------------------------------------------------------------------------------
(* Nobody wakes in vain and nobody is forgotten: where the limit of readers *)
(* is out of reach, a thread asleep at the first gate waits for a writer    *)
(* that has entered, and the writer asleep at the second for a reader.      *)
LEMMA WakeupsInductive ==
  ASSUME MaxReaders > Cardinality(Threads)
  PROVE  IInv /\ NoLostWakeup /\ [Next]_vars => NoLostWakeup'
<1> SUFFICES ASSUME IInv, NoLostWakeup, [Next]_vars PROVE NoLostWakeup'
  OBVIOUS
<1>w. /\ pc \in [Threads -> PCs] /\ asleep \subseteq Threads
      /\ readers \in Nat
      /\ \A u \in asleep : pc[u] \in {"wantWrite", "wantRead"} => entered \/ readers = MaxReaders
      /\ \A u \in asleep : pc[u] = "entered" => readers # 0
      /\ \A u \in asleep : pc[u] \in {"wantWrite", "wantRead", "entered"}
      /\ \A u \in Threads : pc[u] \in {"entered", "writing"} => entered
      /\ \A u, v \in Threads : /\ pc[u] \in {"entered", "writing"}
                              /\ pc[v] \in {"entered", "writing"} => u = v
  BY SharedMutexAssumption
     DEF IInv, TypeOK, WordCounts, NoLostWakeup, AtGate1, AtGate2, At
<1>b. readers # MaxReaders
  <2>1. At("reading") \in SUBSET Threads
    BY DEF At
  <2>2. /\ Cardinality(At("reading")) <= Cardinality(Threads)
        /\ Cardinality(Threads) \in Nat
    BY <2>1, FS_Subset, FS_CardinalityType, SharedMutexAssumption
  <2> QED  BY <2>2, <1>w, ReadersCounted, SharedMutexAssumption
<1>a. /\ pc \in [Threads -> PCs] /\ asleep \subseteq Threads
      /\ readers \in Nat
      /\ \A u \in asleep : pc[u] \in {"wantWrite", "wantRead"} => entered
      /\ \A u \in asleep : pc[u] = "entered" => readers # 0
      /\ \A u \in asleep : pc[u] \in {"wantWrite", "wantRead", "entered"}
      /\ \A u \in Threads : pc[u] \in {"entered", "writing"} => entered
      /\ \A u, v \in Threads : /\ pc[u] \in {"entered", "writing"}
                              /\ pc[v] \in {"entered", "writing"} => u = v
  BY <1>w, <1>b
<1>c. SUFFICES /\ \A u \in asleep' : pc'[u] \in {"wantWrite", "wantRead"} => entered'
               /\ \A u \in asleep' : pc'[u] = "entered" => readers' # 0
  BY DEF NoLostWakeup, AtGate1, AtGate2
<1>1. CASE UNCHANGED vars
  BY <1>1, <1>a DEF vars
<1>2. ASSUME NEW t \in Threads, NEW want \in {"wantWrite", "wantRead"}, Call(t, want)
      PROVE  /\ \A u \in asleep' : pc'[u] \in {"wantWrite", "wantRead"} => entered'
             /\ \A u \in asleep' : pc'[u] = "entered" => readers' # 0
  BY <1>2, <1>a DEF Call, Goto
<1>3. ASSUME NEW t \in Threads, Lock(t)
      PROVE  /\ \A u \in asleep' : pc'[u] \in {"wantWrite", "wantRead"} => entered'
             /\ \A u \in asleep' : pc'[u] = "entered" => readers' # 0
  <2>1. CASE entered
    BY <1>3, <2>1, <1>a DEF Lock
  <2>2. CASE ~entered
    BY <1>3, <2>2, <1>a DEF Lock, Goto
  <2> QED  BY <2>1, <2>2
<1>4. ASSUME NEW t \in Threads, LockGate2(t) \/ TryLock(t) \/ LockShared(t) \/ TryLockShared(t)
      PROVE  /\ \A u \in asleep' : pc'[u] \in {"wantWrite", "wantRead"} => entered'
             /\ \A u \in asleep' : pc'[u] = "entered" => readers' # 0
  BY <1>4, <1>a, <1>b DEF LockGate2, TryLock, LockShared, TryLockShared, Goto
<1>5. ASSUME NEW t \in Threads, Unlock(t) \/ GiveUpGate2(t)
      PROVE  /\ \A u \in asleep' : pc'[u] \in {"wantWrite", "wantRead"} => entered'
             /\ \A u \in asleep' : pc'[u] = "entered" => readers' # 0
  BY <1>5, <1>a DEF Unlock, GiveUpGate2, Goto, AtGate1
<1>6. ASSUME NEW t \in Threads, UnlockShared(t)
      PROVE  /\ \A u \in asleep' : pc'[u] \in {"wantWrite", "wantRead"} => entered'
             /\ \A u \in asleep' : pc'[u] = "entered" => readers' # 0
  <2>1. pc' = [pc EXCEPT ![t] = "idle"] /\ entered' = entered /\ asleep' \subseteq asleep
    BY <1>6 DEF UnlockShared, Goto
  <2>2. CASE AtGate2 = {} \/ readers' # 0
    BY <2>1, <2>2, <1>a DEF AtGate2
  <2>3. CASE AtGate2 # {} /\ readers' = 0
    <3>1. PICK u \in AtGate2 : asleep' = asleep \ {u}
      <4>1. entered
        BY <1>a, <2>3 DEF AtGate2
      <4> QED  BY <1>6, <2>3, <4>1 DEF UnlockShared
    <3> QED  BY <2>1, <3>1, <1>a DEF AtGate2
  <2> QED  BY <2>2, <2>3
<1>7. ASSUME NEW t \in Threads, Spurious(t) \/ GiveUpGate1(t)
      PROVE  /\ \A u \in asleep' : pc'[u] \in {"wantWrite", "wantRead"} => entered'
             /\ \A u \in asleep' : pc'[u] = "entered" => readers' # 0
  BY <1>7, <1>a DEF Spurious, GiveUpGate1, Goto
<1> QED
  BY <1>1, <1>2, <1>3, <1>4, <1>5, <1>6, <1>7 DEF Next, Step

(* Below the limit of readers no sleeping thread is forgotten.              *)
THEOREM WakeupsReach ==
  ASSUME MaxReaders > Cardinality(Threads)
  PROVE  Spec => []NoLostWakeup
<1>1. Init => NoLostWakeup
  BY DEF Init, NoLostWakeup, AtGate1, AtGate2
<1> QED  BY <1>1, Invariant, WakeupsInductive, PTL DEF Spec

-------------------------------------------------------------------------------
(* Every step is a step or a stutter of the abstract lock: a writer gets    *)
(* past its last gate only when nobody is inside.                           *)
THEOREM Refinement == Spec => ImplementsRWLock
<1> DEFINE m == [t \in Threads |-> Mode(pc[t])]
<1>1. Init => RW!Init
  BY DEF Init, RW!Init, Mode
<1>2. ASSUME IInv, Next PROVE [RW!Next]_m
  <2>0. pc \in [Threads -> PCs]
    BY <1>2 DEF IInv, TypeOK
  <2>1. ASSUME NEW t \in Threads, NEW to \in PCs, Goto(t, to)
        PROVE  m' = [m EXCEPT ![t] = Mode(to)]
    BY <2>0, <2>1 DEF Goto
  <2>2. ASSUME NEW t \in Threads, Goto(t, "writing"), readers = 0,
               pc[t] = "entered" \/ ~entered
        PROVE  RW!AcquireWrite(t)
    <3>1. \A u \in Threads : pc[u] # "writing" /\ pc[u] # "reading"
      BY <1>2, <2>2, ReadersCounted DEF IInv, WordCounts, At
    <3>2. m' = [m EXCEPT ![t] = "write"]
      BY <2>1, <2>2 DEF PCs, Mode
    <3> QED  BY <3>1, <3>2 DEF RW!AcquireWrite, Mode
  <2>3. ASSUME NEW t \in Threads, Goto(t, "reading"), ~entered,
               pc[t] \in {"idle", "wantRead"}
        PROVE  RW!AcquireRead(t)
    <3>1. \A u \in Threads : pc[u] # "writing"
      BY <1>2, <2>3 DEF IInv, WordCounts, At
    <3>2. m' = [m EXCEPT ![t] = "read"]
      BY <2>1, <2>3 DEF PCs, Mode
    <3> QED  BY <2>3, <3>1, <3>2 DEF RW!AcquireRead, Mode
  <2>4. ASSUME NEW t \in Threads, Goto(t, "idle"), pc[t] \in {"writing", "reading"}
        PROVE  RW!Release(t)
    <3>1. m' = [m EXCEPT ![t] = "none"]
      BY <2>1, <2>4 DEF PCs, Mode
    <3> QED  BY <2>4, <3>1 DEF RW!Release, Mode
  <2>5. ASSUME NEW t \in Threads, NEW to \in PCs \ {"writing", "reading"}, Goto(t, to),
               pc[t] \notin {"writing", "reading"}
        PROVE  m' = m
    <3>1. m' = [m EXCEPT ![t] = "none"]
      BY <2>1, <2>5 DEF Mode
    <3> QED  BY <2>0, <2>5, <3>1 DEF Mode
  <2>6. PICK t \in Threads :
          \/ Goto(t, "writing") /\ readers = 0 /\ (pc[t] = "entered" \/ ~entered)
          \/ Goto(t, "reading") /\ ~entered /\ pc[t] \in {"idle", "wantRead"}
          \/ Goto(t, "idle") /\ pc[t] \in {"writing", "reading"}
          \/ /\ pc[t] \notin {"writing", "reading"}
             /\ \E to \in PCs \ {"writing", "reading"} : Goto(t, to)
          \/ pc' = pc
    BY <1>2 DEF Next, Step, Call, Lock, LockGate2, TryLock, LockShared, TryLockShared,
       Unlock, UnlockShared, Spurious, GiveUpGate1, GiveUpGate2, PCs
  <2> QED  BY <2>2, <2>3, <2>4, <2>5, <2>6 DEF RW!Next, PCs
<1>3. UNCHANGED vars => UNCHANGED m
  BY DEF vars
<1>4. IInv /\ [Next]_vars => [RW!Next]_m
  BY <1>2, <1>3
<1> QED  BY <1>1, <1>4, Invariant, PTL DEF Spec, ImplementsRWLock, RW!Spec
-------------------------------------------------------------------------------
(* CxaGuard (Guard), for any set of threads and any number of guards.        *)
(* The guards that a thread runs initializers of are the locked ones, each   *)
(* by one thread; a guard that is set is known to the mutex.                  *)
GTyped ==
  /\ initialized \subseteq Guard!Guards /\ lock \subseteq Guard!Guards
  /\ cgPc \in [Callers -> {"out", "acquire", "wait", "init", "release", "abort",
                           "broadcast", "rethrow"}]
  /\ at \in [Callers -> {0} \union Guard!Guards]
  /\ inits \in [Callers -> SUBSET Guard!Guards]
  /\ sees \in [Callers -> SUBSET Guard!Guards] /\ mutSees \subseteq Guard!Guards
  /\ returned \in [Callers -> SUBSET Guard!Guards]
  /\ fast \in [Callers -> SUBSET Guard!Guards]

GExclusive ==
  /\ \A t \in Callers : \A g \in inits[t] : g \in lock /\ g \notin initialized
  /\ \A g \in lock : \E t \in Callers : g \in inits[t]
  /\ \A t, u \in Callers, g \in Guard!Guards : g \in inits[t] /\ g \in inits[u] => t = u

GPlaces ==
  \A t \in Callers :
    /\ cgPc[t] \in {"acquire", "wait"} => at[t] \in Guard!Guards
    /\ cgPc[t] \in {"release", "abort"} => at[t] \in inits[t]
    /\ cgPc[t] = "release" => at[t] \in sees[t]
    /\ cgPc[t] = "broadcast" => at[t] \in initialized /\ at[t] \in sees[t]

GSeen ==
  /\ initialized \subseteq mutSees
  /\ \A t \in Callers : returned[t] \subseteq initialized
  /\ Guard!CallersSeeTheObject

GInv == GTyped /\ GExclusive /\ GPlaces /\ GSeen

LEMMA GInitially == Guard!Init => GInv
BY DEF Guard!Init, GInv, GTyped, GExclusive, GPlaces, GSeen, Guard!CallersSeeTheObject

LEMMA GInductive == GInv /\ [Guard!Next]_(Guard!vars) => GInv'
<1> SUFFICES ASSUME GInv, [Guard!Next]_(Guard!vars) PROVE GInv'
  OBVIOUS
<1> USE DEF GInv, GTyped, Guard!Goto, Guard!Synchronize, Guard!Pass, Guard!Outer
<1>1. CASE UNCHANGED Guard!vars
  BY <1>1 DEF Guard!vars, GExclusive, GPlaces, GSeen, Guard!CallersSeeTheObject
<1>2. ASSUME NEW t \in Callers, NEW g \in Guard!Guards, Guard!Load(t, g)
      PROVE  GInv'
  <2>1. GTyped'
    BY <1>2 DEF Guard!Load
  <2>2. GExclusive' /\ GPlaces'
    BY <1>2 DEF Guard!Load, GExclusive, GPlaces
  <2>3. GSeen'
    BY <1>2 DEF Guard!Load, GSeen, Guard!CallersSeeTheObject
  <2> QED  BY <2>1, <2>2, <2>3
<1>3. ASSUME NEW t \in Callers, Guard!Acquire(t)
      PROVE  GInv'
  <2> at[t] \in Guard!Guards
    BY <1>3 DEF Guard!Acquire, GPlaces
  <2>1. GTyped'
    BY <1>3 DEF Guard!Acquire
  <2>2. GExclusive'
    BY <1>3 DEF Guard!Acquire, GExclusive
  <2>3. GPlaces'
    BY <1>3 DEF Guard!Acquire, GPlaces, GExclusive
  <2>4. GSeen'
    BY <1>3 DEF Guard!Acquire, GSeen, Guard!CallersSeeTheObject
  <2> QED  BY <2>1, <2>2, <2>3, <2>4
<1>4. ASSUME NEW t \in Callers, Guard!WakeUp(t)
      PROVE  GInv'
  BY <1>4 DEF Guard!WakeUp, GExclusive, GPlaces, GSeen, Guard!CallersSeeTheObject
<1>5. ASSUME NEW t \in Callers, Guard!InitReturns(t) \/ Guard!InitThrows(t)
      PROVE  GInv'
  <2>1. PICK g \in Guard!Guards :
          /\ g \in inits[t] /\ at' = [at EXCEPT ![t] = g]
          /\ \A u \in Callers : sees[u] \subseteq sees'[u]
          /\ sees' \in [Callers -> SUBSET Guard!Guards]
          /\ \/ cgPc' = [cgPc EXCEPT ![t] = "release"] /\ g \in sees'[t]
             \/ cgPc' = [cgPc EXCEPT ![t] = "abort"]
    BY <1>5 DEF Guard!InitReturns, Guard!InitThrows, Guard!Innermost
  <2>2. UNCHANGED <<initialized, lock, inits, mutSees, returned, fast>> /\ cgPc[t] = "init"
    BY <1>5 DEF Guard!InitReturns, Guard!InitThrows
  <2>3. GTyped' /\ GExclusive'
    BY <2>1, <2>2 DEF GExclusive
  <2>4. GPlaces' /\ GSeen'
    BY <2>1, <2>2 DEF GPlaces, GSeen, Guard!CallersSeeTheObject
  <2> QED  BY <2>3, <2>4
<1>6. ASSUME NEW t \in Callers, Guard!Release(t) \/ Guard!Abort(t)
      PROVE  GInv'
  <2>1. at[t] \in inits[t] /\ at[t] \in Guard!Guards
    BY <1>6 DEF Guard!Release, Guard!Abort, GPlaces
  <2>2. GTyped'
    BY <1>6, <2>1 DEF Guard!Release, Guard!Abort
  <2>3. GExclusive'
    BY <1>6, <2>1 DEF Guard!Release, Guard!Abort, GExclusive
  <2>4. GPlaces'
    BY <1>6, <2>1 DEF Guard!Release, Guard!Abort, GPlaces, GExclusive
  <2>5. GSeen'
    BY <1>6, <2>1 DEF Guard!Release, Guard!Abort, GSeen, GPlaces, Guard!CallersSeeTheObject
  <2> QED  BY <2>2, <2>3, <2>4, <2>5
<1>7. ASSUME NEW t \in Callers, Guard!Broadcast(t)
      PROVE  GInv'
  <2>1. GTyped'
    BY <1>7 DEF Guard!Broadcast, Guard!WakeAll, GPlaces
  <2>2. GExclusive'
    BY <1>7 DEF Guard!Broadcast, GExclusive
  <2>3. GPlaces'
    BY <1>7 DEF Guard!Broadcast, Guard!WakeAll, GPlaces
  <2>4. GSeen'
    BY <1>7 DEF Guard!Broadcast, GSeen, GPlaces, Guard!CallersSeeTheObject
  <2> QED  BY <2>1, <2>2, <2>3, <2>4
<1> QED  BY <1>1, <1>2, <1>3, <1>4, <1>5, <1>6, <1>7 DEF Guard!Next, Guard!Step

LEMMA GInvariance == Guard!Spec => []GInv
BY GInitially, GInductive, PTL DEF Guard!Spec

(* What the thread of a guard's initializer is, for the abstract call_once(). *)
LEMMA RunnerIs ==
  ASSUME GInv, NEW g \in Guard!Guards
  PROVE  /\ \A t \in Callers : g \in inits[t] => Guard!Runner(g) = t
         /\ g \notin lock => Guard!Runner(g) = Nothing
BY DEF GInv, GTyped, GExclusive, Guard!Runner

(* Every step of the guards is a step or a stutter of the abstract call_once().*)
LEMMA GRefines ==
  ASSUME GInv, GInv', Guard!Next
  PROVE  Guard!O!Next \/ UNCHANGED <<[g \in Guard!Guards |-> Guard!Runner(g)], initialized, returned>>
<1> DEFINE runner == [g \in Guard!Guards |-> Guard!Runner(g)]
<1>0. GTyped /\ GTyped'
  BY DEF GInv
<1>1. \A g \in Guard!Guards : (\A t \in Callers : g \in inits'[t] <=> g \in inits[t])
                                => runner'[g] = runner[g]
  BY DEF Guard!Runner
<1>2. UNCHANGED inits => UNCHANGED runner
  BY DEF Guard!Runner
<1>3. ASSUME NEW t \in Callers, NEW g \in Guard!Guards, Guard!Load(t, g)
      PROVE  Guard!O!Return(t, g) \/ UNCHANGED <<runner, initialized, returned>>
  BY <1>2, <1>3 DEF Guard!Load, Guard!O!Return, Guard!Pass
<1>4. ASSUME NEW t \in Callers, Guard!Acquire(t)
      PROVE  \/ Guard!O!Return(t, at[t]) \/ Guard!O!Run(t, at[t])
             \/ UNCHANGED <<runner, initialized, returned>>
  <2>1. at[t] \in Guard!Guards
    BY <1>4 DEF Guard!Acquire, GInv, GPlaces
  <2>2. CASE at[t] \in initialized \/ at[t] \in lock
    BY <1>2, <1>4, <2>2 DEF Guard!Acquire, Guard!O!Return, Guard!Pass, GInv, GExclusive
  <2>3. CASE at[t] \notin initialized /\ at[t] \notin lock
    <3>1. /\ inits' = [inits EXCEPT ![t] = @ \union {at[t]}]
          /\ UNCHANGED <<initialized, returned>>
      BY <1>4, <2>3 DEF Guard!Acquire
    <3>2. runner[at[t]] = Nothing
      BY <2>1, <2>3, RunnerIs
    <3>3. runner'[at[t]] = t
      <4>1. at[t] \in inits'[t]
        BY <1>0, <3>1 DEF GTyped
      <4>2. \A u \in Callers : at[t] \in inits'[u] => u = t
        BY <1>0, <2>1, <4>1 DEF GInv, GExclusive
      <4> QED  BY <2>1, <4>1, <4>2 DEF Guard!Runner
    <3>4. \A g \in Guard!Guards \ {at[t]} : runner'[g] = runner[g]
      BY <1>0, <1>1, <3>1 DEF GTyped
    <3>5. runner' = [runner EXCEPT ![at[t]] = t]
      BY <2>1, <3>3, <3>4
    <3> QED  BY <2>3, <3>1, <3>2, <3>5 DEF Guard!O!Run
  <2> QED  BY <2>2, <2>3
<1>5. ASSUME NEW t \in Callers, Guard!Release(t) \/ Guard!Abort(t)
      PROVE  Guard!O!Finish(t, at[t]) \/ Guard!O!Throw(t, at[t])
  <2>1. at[t] \in inits[t] /\ at[t] \in Guard!Guards
    BY <1>0, <1>5 DEF Guard!Release, Guard!Abort, GInv, GPlaces, GTyped
  <2>2. inits' = [inits EXCEPT ![t] = @ \ {at[t]}] /\ UNCHANGED returned
    BY <1>5 DEF Guard!Release, Guard!Abort
  <2>3. runner[at[t]] = t
    BY <2>1, RunnerIs
  <2>4. runner'[at[t]] = Nothing
    BY <1>0, <2>1, <2>2 DEF Guard!Runner, GInv, GExclusive, GTyped
  <2>5. \A g \in Guard!Guards \ {at[t]} : runner'[g] = runner[g]
    BY <1>0, <1>1, <2>2 DEF GTyped
  <2>6. runner' = [runner EXCEPT ![at[t]] = Nothing]
    BY <2>1, <2>4, <2>5
  <2>7. UNCHANGED initialized \/ initialized' = initialized \union {at[t]}
    BY <1>5 DEF Guard!Release, Guard!Abort
  <2> QED  BY <2>2, <2>3, <2>6, <2>7 DEF Guard!O!Finish, Guard!O!Throw
<1>6. ASSUME NEW t \in Callers, Guard!Broadcast(t)
      PROVE  \/ \E g \in Guard!Guards : Guard!O!Return(t, g)
             \/ UNCHANGED <<runner, initialized, returned>>
  <2>1. CASE cgPc[t] = "broadcast"
    <3>1. at[t] \in Guard!Guards /\ at[t] \in initialized
      BY <1>0, <2>1 DEF GInv, GPlaces, GTyped
    <3> QED  BY <1>2, <1>6, <2>1, <3>1 DEF Guard!Broadcast, Guard!O!Return, Guard!Pass
  <2>2. CASE cgPc[t] # "broadcast"
    BY <1>2, <1>6, <2>2 DEF Guard!Broadcast
  <2> QED  BY <2>1, <2>2
<1>7. ASSUME NEW t \in Callers, Guard!WakeUp(t) \/ Guard!InitReturns(t) \/ Guard!InitThrows(t)
      PROVE  UNCHANGED <<runner, initialized, returned>>
  BY <1>2, <1>7 DEF Guard!WakeUp, Guard!InitReturns, Guard!InitThrows
<1>8. ASSUME NEW t \in Callers, Guard!Acquire(t) \/ Guard!Release(t) \/ Guard!Abort(t)
      PROVE  at[t] \in Guard!Guards
  BY <1>0, <1>8 DEF Guard!Acquire, Guard!Release, Guard!Abort, GInv, GPlaces, GTyped
<1> HIDE DEF runner
<1> QED
  BY <1>3, <1>4, <1>5, <1>6, <1>7, <1>8 DEF Guard!Next, Guard!Step, Guard!O!Next, runner

(* A call returns with the object in sight, for every run of the guards, and   *)
(* the guards implement the abstract call_once().                              *)
THEOREM GuardIsOnce == Guard!Spec => []Guard!CallersSeeTheObject /\ Guard!ImplementsOnce
<1> DEFINE runner == [g \in Guard!Guards |-> Guard!Runner(g)]
<1>1. Guard!Init => Guard!O!Init
  BY DEF Guard!Init, Guard!O!Init, Guard!Runner
<1>2. GInv /\ GInv' /\ [Guard!Next]_(Guard!vars) => [Guard!O!Next]_<<runner, initialized, returned>>
  <2>1. UNCHANGED Guard!vars => UNCHANGED <<runner, initialized, returned>>
    BY DEF Guard!vars, Guard!Runner
  <2> QED  BY <2>1, GRefines
<1>3. GInv => Guard!CallersSeeTheObject
  BY DEF GInv, GSeen
<1> QED  BY <1>1, <1>2, <1>3, GInvariance, PTL DEF Guard!Spec, Guard!ImplementsOnce, Guard!O!Spec
-------------------------------------------------------------------------------
(* CallOnce (Flag), for any set of threads and any number of flags.           *)
FTyped ==
  /\ flag \in [Flag!Flags -> {"unset", "running", "set"}]
  /\ mutKnows \subseteq Flag!Flags
  /\ onPc \in [Callers -> {"out", "lock", "check", "wait", "run", "store", "catch",
                           "broadcast", "rethrow"}]
  /\ cur \in [Callers -> {0} \union Flag!Flags] /\ below \in [Callers -> Seq(Flag!Flags)]
  /\ knows \in [Callers -> SUBSET Flag!Flags]
  /\ onReturned \in [Callers -> SUBSET Flag!Flags] /\ slow \in [Callers -> SUBSET Flag!Flags]

(* Functions nest in the order of their flags.                                *)
FNested ==
  \A p \in Callers :
    /\ onPc[p] = "out" <=> cur[p] = 0
    /\ \A i \in 1 .. Len(below[p]) : below[p][i] < cur[p]
    /\ \A i, j \in 1 .. Len(below[p]) : i < j => below[p][i] < below[p][j]

(* The mutex has one holder, who knows what it hands on.                       *)
FLocked ==
  \A p \in Callers : onPc[p] = "check" => mut = p /\ mutKnows \subseteq knows[p]

(* A flag is "running" while one thread runs a function of it.                 *)
FExclusive ==
  \A f \in Flag!Flags :
    /\ flag[f] = "running" <=> Flag!Running(f) # {}
    /\ \A p, q \in Flag!Running(f) : p = q

(* A flag that is set is known to the mutex, a call that returned found it set,*)
(* and one that went through the mutex knows of the function.                  *)
FSeen ==
  /\ \A f \in Flag!Flags : flag[f] = "set" => f \in mutKnows
  /\ \A f \in mutKnows : \E p \in Callers : f \in knows[p]
  /\ \A p \in Callers :
       /\ \A f \in onReturned[p] : flag[f] = "set"
       /\ slow[p] \subseteq knows[p]
       /\ onPc[p] = "store" => cur[p] \in knows[p]
       /\ onPc[p] = "broadcast" => flag[cur[p]] = "set" /\ cur[p] \in knows[p]

FInv == FTyped /\ FNested /\ FLocked /\ FExclusive /\ FSeen

LEMMA FlagsArePositive == Flag!Flags \subseteq Nat /\ 0 \notin Flag!Flags
BY PartsAssumption DEF Flag!OnceAssumption, Flag!Flags

(* The functions below one that is called, and below one that ends.            *)
LEMMA ElementsAppend ==
  ASSUME NEW S, NEW s \in Seq(S), NEW e \in S
  PROVE  Flag!Elements(Append(s, e)) = Flag!Elements(s) \union {e}
<1> DEFINE a == Append(s, e)
<1>1. Len(s) \in Nat /\ Len(a) = Len(s) + 1 /\ \A i \in 1 .. Len(s) : a[i] = s[i]
  OBVIOUS
<1>2. a[Len(s) + 1] = e
  OBVIOUS
<1> HIDE DEF a
<1>3. 1 .. Len(a) = (1 .. Len(s)) \union {Len(s) + 1}
  BY <1>1
<1> QED  BY <1>1, <1>2, <1>3 DEF Flag!Elements, a

LEMMA ElementsFront ==
  ASSUME NEW S, NEW s \in Seq(S), s # << >>, NEW r, r = SubSeq(s, 1, Len(s) - 1)
  PROVE  /\ Len(s) \in Nat \ {0} /\ s[Len(s)] \in S
         /\ r \in Seq(S) /\ Len(r) = Len(s) - 1 /\ \A i \in 1 .. Len(r) : r[i] = s[i]
         /\ Flag!Elements(s) = Flag!Elements(r) \union {s[Len(s)]}
<1>1. Len(s) \in Nat \ {0} /\ s[Len(s)] \in S
  OBVIOUS
<1>2. r \in Seq(S) /\ Len(r) = Len(s) - 1 /\ \A i \in 1 .. Len(r) : r[i] = s[i]
  <2>1. 1 \in Int /\ Len(s) - 1 \in Int /\ \A i \in 1 .. Len(s) - 1 : s[i] \in S
    BY <1>1
  <2>2. /\ r \in Seq(S) /\ Len(r) = IF 1 <= Len(s) - 1 THEN Len(s) - 1 - 1 + 1 ELSE 0
        /\ \A i \in 1 .. Len(s) - 1 - 1 + 1 : r[i] = s[1 + i - 1]
    BY <2>1, SubSeqProperties
  <2>3. Len(r) = Len(s) - 1
    <3>1. \A n \in Nat \ {0} : (IF 1 <= n - 1 THEN n - 1 - 1 + 1 ELSE 0) = n - 1
      OBVIOUS
    <3> QED  BY <1>1, <2>2, <3>1, Zenon
  <2>4. ASSUME NEW i \in 1 .. Len(r) PROVE r[i] = s[i]
    <3>1. i \in 1 .. Len(s) - 1 - 1 + 1 /\ 1 + i - 1 = i
      BY <1>1, <2>3
    <3>2. r[i] = s[1 + i - 1]
      BY <2>2, <3>1
    <3> QED  BY <3>1, <3>2
  <2> QED  BY <2>2, <2>3, <2>4
<1>3. 1 .. Len(s) = (1 .. Len(r)) \union {Len(s)}
  BY <1>1, <1>2
<1> QED  BY <1>1, <1>2, <1>3 DEF Flag!Elements

(* Who goes back to an outer function was running it all the time.             *)
LEMMA PopKeepsRunning ==
  ASSUME FTyped, FNested, NEW p \in Callers, Flag!Pop(p),
         onPc[p] \in {"check", "broadcast", "rethrow"},
         onPc'[p] = Flag!Caller(p),
         \A q \in Callers \ {p} : onPc'[q] = onPc[q] \/ (onPc[q] = "wait" /\ onPc'[q] = "lock")
  PROVE  /\ \A f \in Flag!Flags : Flag!Running(f)' = Flag!Running(f)
         /\ cur' \in [Callers -> {0} \union Flag!Flags] /\ below' \in [Callers -> Seq(Flag!Flags)]
         /\ FNested'
<1> USE FlagsArePositive
<1>0. below[p] \in Seq(Flag!Flags) /\ cur[p] # 0
  BY DEF FTyped, FNested
<1>1. CASE below[p] = << >>
  <2>1. cur' = [cur EXCEPT ![p] = 0] /\ below' = below /\ onPc'[p] = "out"
    BY <1>1 DEF Flag!Pop, Flag!Outer, Flag!Caller, FTyped
  <2>2. \A f \in Flag!Flags : Flag!Running(f)' = Flag!Running(f)
    BY <2>1 DEF Flag!Running, FTyped
  <2>3. FNested'
    BY <1>1, <2>1 DEF FNested, FTyped
  <2> QED  BY <2>1, <2>2, <2>3 DEF FTyped
<1>2. CASE below[p] # << >>
  <2> DEFINE s == below[p]
             r == SubSeq(s, 1, Len(s) - 1)
  <2>1. /\ Len(s) \in Nat \ {0} /\ s[Len(s)] \in Flag!Flags
        /\ r \in Seq(Flag!Flags) /\ Len(r) = Len(s) - 1 /\ \A i \in 1 .. Len(r) : r[i] = s[i]
        /\ Flag!Elements(s) = Flag!Elements(r) \union {s[Len(s)]}
    BY <1>0, <1>2, ElementsFront
  <2>2. /\ cur' = [cur EXCEPT ![p] = s[Len(s)]]
        /\ below' = [below EXCEPT ![p] = r]
        /\ onPc'[p] = "run"
    BY <1>2 DEF Flag!Pop, Flag!Outer, Flag!Caller, FTyped
  <2> HIDE DEF r
  <2>3. below'[p] = r /\ cur'[p] = s[Len(s)] /\ \A q \in Callers \ {p} : below'[q] = below[q] /\ cur'[q] = cur[q]
    BY <2>2 DEF FTyped
  <2>4. ASSUME NEW f \in Flag!Flags PROVE Flag!Running(f)' = Flag!Running(f)
    <3>1. p \in Flag!Running(f) <=> f \in Flag!Elements(s)
      BY DEF Flag!Running
    <3>2. p \in Flag!Running(f)' <=> f \in Flag!Elements(r) \/ f = s[Len(s)]
      BY <2>2, <2>3 DEF Flag!Running
    <3>3. \A q \in Callers \ {p} : q \in Flag!Running(f)' <=> q \in Flag!Running(f)
      BY <2>3 DEF Flag!Running
    <3> QED  BY <2>1, <3>1, <3>2, <3>3 DEF Flag!Running
  <2>5. FNested'
    <3>1. cur'[p] # 0 /\ onPc'[p] # "out"
      BY <2>1, <2>2, <2>3
    <3>2. \A i \in 1 .. Len(r) : r[i] < s[Len(s)]
      BY <2>1 DEF FNested
    <3>3. \A i, j \in 1 .. Len(r) : i < j => r[i] < r[j]
      BY <2>1 DEF FNested
    <3> QED  BY <2>3, <3>1, <3>2, <3>3 DEF FNested
  <2> QED  BY <2>1, <2>2, <2>4, <2>5 DEF FTyped
<1> QED  BY <1>1, <1>2

(* Whoever calls from within a function still runs it.                        *)
LEMMA PushKeepsRunning ==
  ASSUME FTyped, FNested, NEW p \in Callers, NEW f \in Flag!Flags,
         onPc[p] \in {"out", "run"}, cur[p] < f,
         onPc' = [onPc EXCEPT ![p] = "lock"], cur' = [cur EXCEPT ![p] = f],
         below' = [below EXCEPT ![p] = IF cur[p] = 0 THEN @ ELSE Append(@, cur[p])]
  PROVE  /\ \A g \in Flag!Flags : Flag!Running(g)' = Flag!Running(g)
         /\ below' \in [Callers -> Seq(Flag!Flags)]
         /\ FNested'
<1> USE FlagsArePositive
<1>0. below[p] \in Seq(Flag!Flags) /\ cur[p] \in {0} \union Flag!Flags
  BY DEF FTyped
<1>1. CASE cur[p] = 0
  <2>1. below' = below /\ onPc[p] = "out"
    BY <1>1 DEF FTyped, FNested
  <2>2. Len(below[p]) \in Nat /\ \A i \in 1 .. Len(below[p]) : below[p][i] \in Flag!Flags
    BY <1>0
  <2>3. \A g \in Flag!Flags : Flag!Running(g)' = Flag!Running(g)
    BY <1>1, <2>1 DEF Flag!Running, FTyped
  <2>4. FNested'
    <3>1. below[p] = << >>
      <4>1. \A i \in 1 .. Len(below[p]) : below[p][i] < 0 /\ below[p][i] \in Nat
        BY <1>1, <2>2 DEF FNested
      <4>2. 1 .. Len(below[p]) = {}
        BY <4>1
      <4> QED  BY <1>0, <2>2, <4>2
    <3> QED  BY <2>1, <3>1 DEF FNested, FTyped
  <2> QED  BY <2>1, <2>3, <2>4 DEF FTyped
<1>2. CASE cur[p] # 0
  <2> DEFINE s == below[p]
             a == Append(s, cur[p])
  <2>1. /\ a \in Seq(Flag!Flags) /\ Len(s) \in Nat /\ Len(a) = Len(s) + 1
        /\ a[Len(s) + 1] = cur[p] /\ \A i \in 1 .. Len(s) : a[i] = s[i] /\ s[i] \in Flag!Flags
    BY <1>0, <1>2
  <2>2. Flag!Elements(a) = Flag!Elements(s) \union {cur[p]}
    BY <1>0, <1>2, ElementsAppend
  <2> HIDE DEF a
  <2>3. onPc[p] = "run" /\ cur[p] \in Flag!Flags
    BY <1>0, <1>2 DEF FNested
  <2>4. /\ below' = [below EXCEPT ![p] = a]
        /\ below'[p] = a /\ cur'[p] = f /\ onPc'[p] = "lock"
        /\ \A q \in Callers \ {p} : below'[q] = below[q] /\ cur'[q] = cur[q] /\ onPc'[q] = onPc[q]
    BY <1>2 DEF FTyped, a
  <2>5. ASSUME NEW g \in Flag!Flags PROVE Flag!Running(g)' = Flag!Running(g)
    <3>1. p \in Flag!Running(g) <=> g = cur[p] \/ g \in Flag!Elements(s)
      BY <2>3 DEF Flag!Running
    <3>2. p \in Flag!Running(g)' <=> g \in Flag!Elements(a)
      BY <2>4 DEF Flag!Running
    <3>3. \A q \in Callers \ {p} : q \in Flag!Running(g)' <=> q \in Flag!Running(g)
      BY <2>4 DEF Flag!Running
    <3> QED  BY <2>2, <3>1, <3>2, <3>3 DEF Flag!Running
  <2>6. FNested'
    <3>1. cur'[p] # 0 /\ onPc'[p] # "out"
      BY <2>4
    <3>2. ASSUME NEW i \in 1 .. Len(s) PROVE a[i] = s[i] /\ s[i] < cur[p] /\ s[i] \in Nat
      BY <2>1 DEF FNested
    <3>3. ASSUME NEW i \in 1 .. Len(a) PROVE a[i] < f
      <4>1. i \in 1 .. Len(s) \/ i = Len(s) + 1
        BY <2>1
      <4>2. cur[p] \in Nat /\ f \in Nat
        BY <2>3
      <4> QED  BY <2>1, <3>2, <4>1, <4>2
    <3>4. ASSUME NEW i \in 1 .. Len(a), NEW j \in 1 .. Len(a), i < j PROVE a[i] < a[j]
      <4>1. i \in 1 .. Len(s) /\ (j \in 1 .. Len(s) \/ j = Len(s) + 1)
        BY <2>1, <3>4
      <4>2. j \in 1 .. Len(s) => s[i] < s[j]
        BY <3>4, <4>1 DEF FNested
      <4> QED  BY <2>1, <3>2, <4>1, <4>2
    <3> QED  BY <2>4, <3>1, <3>3, <3>4 DEF FNested
  <2> QED  BY <2>1, <2>4, <2>5, <2>6 DEF FTyped
<1> QED  BY <1>1, <1>2

(* Where nothing is pushed or popped and pc does not cross "out" the functions *)
(* stay nested.                                                               *)
LEMMA FNestedStays ==
  ASSUME FNested, UNCHANGED <<cur, below>>,
         \A p \in Callers : onPc'[p] = "out" <=> onPc[p] = "out"
  PROVE  FNested'
BY DEF FNested

LEMMA FInitially == Flag!Init => FInv
<1> SUFFICES ASSUME Flag!Init PROVE FInv
  OBVIOUS
<1> USE FlagsArePositive DEF Flag!Init
<1>1. FTyped
  BY DEF FTyped
<1>2. FNested
  BY DEF FNested
<1>3. FLocked /\ FSeen
  BY DEF FLocked, FSeen
<1>4. FExclusive
  BY DEF FExclusive, Flag!Running, Flag!Elements
<1> QED  BY <1>1, <1>2, <1>3, <1>4 DEF FInv

(* The parts that speak of who runs what, for a step that changes no flag.     *)
LEMMA FExclusiveStays ==
  ASSUME FExclusive, UNCHANGED flag, \A f \in Flag!Flags : Flag!Running(f)' = Flag!Running(f)
  PROVE  FExclusive'
BY DEF FExclusive

LEMMA RunningStays ==
  ASSUME UNCHANGED <<cur, below>>,
         \A p \in Callers : onPc'[p] \in {"run", "store", "catch"}
                              <=> onPc[p] \in {"run", "store", "catch"}
  PROVE  \A f \in Flag!Flags : Flag!Running(f)' = Flag!Running(f)
BY DEF Flag!Running

(* A function that ends was the only one of its flag.                          *)
LEMMA EndsRunning ==
  ASSUME FTyped, FNested, FExclusive, NEW p \in Callers, onPc[p] \in {"run", "store", "catch"}
  PROVE  /\ cur[p] \in Flag!Flags /\ flag[cur[p]] = "running" /\ Flag!Running(cur[p]) = {p}
         /\ UNCHANGED <<cur, below>> /\ (\E l \in {"broadcast", "rethrow"} : onPc' = [onPc EXCEPT ![p] = l])
              => /\ Flag!Running(cur[p])' = {}
                 /\ \A f \in Flag!Flags \ {cur[p]} : Flag!Running(f)' = Flag!Running(f)
<1> USE FlagsArePositive
<1>1. cur[p] \in Flag!Flags
  <2>1. onPc[p] # "out"
    OBVIOUS
  <2>2. cur[p] # 0
    BY <2>1 DEF FNested
  <2>3. cur[p] \in {0} \union Flag!Flags
    BY DEF FTyped
  <2> QED  BY <2>2, <2>3
<1>2. p \in Flag!Running(cur[p])
  BY DEF Flag!Running
<1>3. flag[cur[p]] = "running" /\ Flag!Running(cur[p]) = {p}
  <2>1. flag[cur[p]] = "running" <=> Flag!Running(cur[p]) # {}
    BY <1>1 DEF FExclusive
  <2>2. \A q, r \in Flag!Running(cur[p]) : q = r
    BY <1>1 DEF FExclusive
  <2> QED  BY <1>2, <2>1, <2>2
<1>4. ASSUME UNCHANGED <<cur, below>>,
             NEW l \in {"broadcast", "rethrow"}, onPc' = [onPc EXCEPT ![p] = l]
      PROVE  /\ Flag!Running(cur[p])' = {}
             /\ \A f \in Flag!Flags \ {cur[p]} : Flag!Running(f)' = Flag!Running(f)
  <2>1. cur[p] \notin Flag!Elements(below[p])
    <3>1. \A i \in 1 .. Len(below[p]) : below[p][i] < cur[p]
      BY DEF FNested
    <3>2. ~(cur[p] < cur[p])
      <4>1. \A n \in Nat : ~(n < n)
        OBVIOUS
      <4> QED  BY <1>1, <4>1
    <3>3. \A i \in 1 .. Len(below[p]) : below[p][i] # cur[p]
      BY <3>1, <3>2, Zenon
    <3> QED  BY <3>3 DEF Flag!Elements
  <2>2. onPc'[p] = l /\ \A q \in Callers \ {p} : onPc'[q] = onPc[q]
    BY <1>4 DEF FTyped
  <2>3. \A q \in Callers \ {p} : q \notin Flag!Running(cur[p])'
    BY <1>3, <1>4, <2>2 DEF Flag!Running
  <2>4. p \notin Flag!Running(cur[p])'
    BY <1>4, <2>1, <2>2 DEF Flag!Running
  <2>5. Flag!Running(cur[p])' \subseteq Callers
    BY DEF Flag!Running
  <2>6. \A f \in Flag!Flags \ {cur[p]} : Flag!Running(f)' = Flag!Running(f)
    BY <1>4, <2>2 DEF Flag!Running
  <2> QED  BY <2>3, <2>4, <2>5, <2>6
<1> QED  BY <1>1, <1>3, <1>4

LEMMA FCallOnce ==
  ASSUME FInv, NEW p \in Callers, NEW f \in Flag!Flags, Flag!CallOnce(p, f)
  PROVE  FInv'
<1> USE FlagsArePositive DEF FInv
<1>1. CASE flag[f] = "set" /\ onReturned' = [onReturned EXCEPT ![p] = @ \union {f}]
           /\ UNCHANGED <<onPc, cur, below>>
  <2>1. UNCHANGED <<flag, mut, mutKnows, knows, slow>>
    BY DEF Flag!CallOnce, Flag!word
  <2>2. FTyped' /\ FNested' /\ FLocked' /\ FSeen'
    BY <1>1, <2>1 DEF FTyped, FNested, FLocked, FSeen
  <2>3. FExclusive'
    BY <1>1, <2>1, FExclusiveStays, RunningStays
  <2> QED  BY <2>2, <2>3
<1>2. CASE /\ Flag!Goto(p, "lock")
           /\ below' = [below EXCEPT ![p] = IF cur[p] = 0 THEN @ ELSE Append(@, cur[p])]
           /\ cur' = [cur EXCEPT ![p] = f]
           /\ UNCHANGED onReturned
  <2>1. UNCHANGED <<flag, mut, mutKnows, knows, slow>> /\ onPc[p] \in {"out", "run"} /\ cur[p] < f
    BY DEF Flag!CallOnce, Flag!word
  <2>2. onPc' = [onPc EXCEPT ![p] = "lock"]
    BY <1>2 DEF Flag!Goto
  <2>3. /\ \A g \in Flag!Flags : Flag!Running(g)' = Flag!Running(g)
        /\ below' \in [Callers -> Seq(Flag!Flags)]
        /\ FNested'
    BY <1>2, <2>1, <2>2, PushKeepsRunning
  <2>4. FTyped'
    BY <1>2, <2>1, <2>2, <2>3 DEF FTyped
  <2>5. FLocked' /\ FSeen'
    BY <1>2, <2>1, <2>2 DEF FLocked, FSeen, FTyped
  <2> QED  BY <2>1, <2>3, <2>4, <2>5, FExclusiveStays
<1> QED  BY <1>1, <1>2 DEF Flag!CallOnce

LEMMA FLock == ASSUME FInv, NEW p \in Callers, Flag!Lock(p) PROVE FInv'
<1> USE FlagsArePositive DEF FInv
<1>1. /\ onPc[p] = "lock" /\ onPc' = [onPc EXCEPT ![p] = "check"] /\ mut' = p
      /\ knows' = [knows EXCEPT ![p] = @ \union mutKnows] /\ mut = Nothing
      /\ UNCHANGED <<flag, mutKnows, cur, below, onReturned, slow>>
  BY DEF Flag!Lock, Flag!Goto
<1>2. FTyped' /\ FLocked'
  BY <1>1, PartsAssumption DEF FTyped, FLocked, Flag!OnceAssumption
<1>3. FNested'
  BY <1>1, FNestedStays DEF FTyped
<1>4. FExclusive'
  BY <1>1, FExclusiveStays, RunningStays DEF FTyped
<1>5. FSeen'
  BY <1>1 DEF FTyped, FSeen
<1> QED  BY <1>2, <1>3, <1>4, <1>5

LEMMA FCheck == ASSUME FInv, NEW p \in Callers, Flag!Check(p) PROVE FInv'
<1> USE FlagsArePositive DEF FInv
<1>1. /\ onPc[p] = "check" /\ mut' = Nothing /\ mutKnows' = mutKnows \union knows[p]
      /\ UNCHANGED knows /\ cur[p] \in Flag!Flags
      /\ mut = p /\ mutKnows \subseteq knows[p]
      /\ \A q \in Callers \ {p} : onPc[q] # "check"
  BY PartsAssumption DEF Flag!Check, Flag!Unlock, FTyped, FNested, FLocked, Flag!OnceAssumption
<1>2. CASE /\ flag[cur[p]] = "running" /\ Flag!Goto(p, "wait")
           /\ UNCHANGED <<flag, cur, below, onReturned, slow>>
  <2>1. onPc' = [onPc EXCEPT ![p] = "wait"]
    BY <1>2 DEF Flag!Goto
  <2>2. FTyped' /\ FLocked' /\ FSeen'
    BY <1>1, <1>2, <2>1 DEF FTyped, FLocked, FSeen
  <2>3. FNested'
    BY <1>1, <1>2, <2>1, FNestedStays DEF FTyped
  <2>4. FExclusive'
    BY <1>1, <1>2, <2>1, FExclusiveStays, RunningStays DEF FTyped
  <2> QED  BY <2>2, <2>3, <2>4
<1>3. CASE /\ flag[cur[p]] = "unset" /\ flag' = [flag EXCEPT ![cur[p]] = "running"]
           /\ Flag!Goto(p, "run") /\ UNCHANGED <<cur, below, onReturned, slow>>
  <2>1. onPc' = [onPc EXCEPT ![p] = "run"]
    BY <1>3 DEF Flag!Goto
  <2>2. FTyped' /\ FLocked' /\ FSeen'
    BY <1>1, <1>3, <2>1 DEF FTyped, FLocked, FSeen
  <2>3. FNested'
    BY <1>1, <1>3, <2>1, FNestedStays DEF FTyped
  <2>4. Flag!Running(cur[p]) = {}
    BY <1>1, <1>3 DEF FExclusive
  <2>5. Flag!Running(cur[p])' = {p}
    <3>1. \A q \in Callers \ {p} : q \notin Flag!Running(cur[p])'
      BY <1>3, <2>1, <2>4 DEF Flag!Running, FTyped
    <3>2. p \in Flag!Running(cur[p])' /\ Flag!Running(cur[p])' \subseteq Callers
      BY <1>3, <2>1 DEF Flag!Running, FTyped
    <3> QED  BY <3>1, <3>2
  <2>6. \A f \in Flag!Flags \ {cur[p]} : Flag!Running(f)' = Flag!Running(f)
    BY <1>1, <1>3, <2>1 DEF Flag!Running, FTyped
  <2>7. \A f \in Flag!Flags : flag'[f] = IF f = cur[p] THEN "running" ELSE flag[f]
    BY <1>3 DEF FTyped
  <2>8. FExclusive'
    BY <1>3, <2>5, <2>6, <2>7 DEF FExclusive
  <2> QED  BY <2>2, <2>3, <2>8
<1>4. CASE /\ flag[cur[p]] = "set"
           /\ onReturned' = [onReturned EXCEPT ![p] = @ \union {cur[p]}]
           /\ slow' = [slow EXCEPT ![p] = @ \union {cur[p]}]
           /\ Flag!Goto(p, Flag!Caller(p)) /\ Flag!Pop(p) /\ UNCHANGED flag
  <2>1. onPc' = [onPc EXCEPT ![p] = Flag!Caller(p)] /\ Flag!Caller(p) \in {"out", "run"}
    BY <1>4 DEF Flag!Goto, Flag!Caller
  <2>2. /\ \A f \in Flag!Flags : Flag!Running(f)' = Flag!Running(f)
        /\ cur' \in [Callers -> {0} \union Flag!Flags] /\ below' \in [Callers -> Seq(Flag!Flags)]
        /\ FNested'
    <3>1. /\ onPc'[p] = Flag!Caller(p)
          /\ \A q \in Callers \ {p} : onPc'[q] = onPc[q]
      BY <2>1 DEF FTyped
    <3>2. onPc[p] \in {"check", "broadcast", "rethrow"} /\ Flag!Pop(p)
      BY <1>1, <1>4
    <3> QED  BY <3>1, <3>2, PopKeepsRunning
  <2>3. FTyped'
    BY <1>1, <1>4, <2>1, <2>2 DEF FTyped
  <2>4. FLocked'
    BY <1>1, <2>1 DEF FLocked, FTyped
  <2>5. cur[p] \in knows[p]
    BY <1>1, <1>4 DEF FSeen
  <2>6. \A q \in Callers \ {p} : cur'[q] = cur[q] /\ onPc'[q] = onPc[q]
    BY <1>4, <2>1 DEF FTyped, Flag!Pop
  <2>7. FSeen'
    <3>1. \A f \in Flag!Flags : flag'[f] = "set" => f \in mutKnows'
      BY <1>1, <1>4 DEF FSeen
    <3>2. \A f \in mutKnows' : \E q \in Callers : f \in knows'[q]
      BY <1>1 DEF FSeen
    <3>3. \A q \in Callers :
            /\ \A f \in onReturned'[q] : flag'[f] = "set"
            /\ slow'[q] \subseteq knows'[q]
      BY <1>1, <1>4, <2>5 DEF FSeen, FTyped
    <3>4. \A q \in Callers : onPc'[q] \in {"store", "broadcast"} => q # p
      BY <2>1 DEF FTyped
    <3>5. \A q \in Callers :
            /\ onPc'[q] = "store" => cur'[q] \in knows'[q]
            /\ onPc'[q] = "broadcast" => flag'[cur'[q]] = "set" /\ cur'[q] \in knows'[q]
      BY <1>1, <1>4, <2>6, <3>4 DEF FSeen
    <3> QED  BY <3>1, <3>2, <3>3, <3>5 DEF FSeen
  <2> QED  BY <1>4, <2>2, <2>3, <2>4, <2>7, FExclusiveStays
<1> QED  BY <1>2, <1>3, <1>4 DEF Flag!Check

LEMMA FStore ==
  ASSUME FInv, NEW p \in Callers, Flag!Store(p)
  PROVE  /\ FInv' /\ flag[cur[p]] = "running" /\ Flag!Running(cur[p]) = {p}
         /\ Flag!Running(cur[p])' = {}
         /\ \A f \in Flag!Flags \ {cur[p]} : Flag!Running(f)' = Flag!Running(f)
<1> USE FlagsArePositive DEF FInv
<1>1. /\ onPc[p] = "store" /\ onPc' = [onPc EXCEPT ![p] = "broadcast"]
      /\ flag' = [flag EXCEPT ![cur[p]] = "set"]
      /\ knows' = [knows EXCEPT ![p] = @ \union mutKnows]
      /\ mutKnows' = mutKnows \union knows[p]
      /\ mut = Nothing /\ UNCHANGED <<mut, cur, below, onReturned, slow>>
  BY DEF Flag!Store, Flag!Goto
<1>2. /\ cur[p] \in Flag!Flags /\ flag[cur[p]] = "running" /\ Flag!Running(cur[p]) = {p}
      /\ Flag!Running(cur[p])' = {}
      /\ \A f \in Flag!Flags \ {cur[p]} : Flag!Running(f)' = Flag!Running(f)
  BY <1>1, EndsRunning
<1>3. FTyped'
  BY <1>1, <1>2 DEF FTyped
<1>4. FNested'
  BY <1>1, FNestedStays DEF FTyped
<1>5. FLocked'
  BY <1>1, PartsAssumption DEF FLocked, FTyped, Flag!OnceAssumption
<1>6. FExclusive'
  <2>1. flag'[cur[p]] # "running"
    BY <1>1, <1>2 DEF FTyped
  <2>2. \A f \in Flag!Flags \ {cur[p]} : flag'[f] = flag[f]
    BY <1>1 DEF FTyped
  <2>3. ASSUME NEW f \in Flag!Flags
        PROVE  /\ flag'[f] = "running" <=> Flag!Running(f)' # {}
               /\ \A q, r \in Flag!Running(f)' : q = r
    <3>1. CASE f = cur[p]
      BY <1>1, <1>2, <2>1, <3>1
    <3>2. CASE f # cur[p]
      <4>1. flag'[f] = flag[f] /\ Flag!Running(f)' = Flag!Running(f)
        BY <1>2, <2>2, <3>2
      <4>2. /\ flag[f] = "running" <=> Flag!Running(f) # {}
            /\ \A q, r \in Flag!Running(f) : q = r
        BY DEF FExclusive
      <4> QED  BY <4>1, <4>2
    <3> QED  BY <3>1, <3>2
  <2> QED  BY <2>3 DEF FExclusive
<1>7. FSeen'
  <2>1. \A f \in Flag!Flags : flag'[f] = IF f = cur[p] THEN "set" ELSE flag[f]
    BY <1>1 DEF FTyped
  <2>2. \A q \in Callers : knows'[q] = IF q = p THEN knows[q] \union mutKnows ELSE knows[q]
    BY <1>1 DEF FTyped
  <2>3. cur[p] \in knows[p]
    BY <1>1 DEF FSeen
  <2>4. \A f \in Flag!Flags : flag'[f] = "set" => f \in mutKnows'
    BY <1>1, <2>1, <2>3 DEF FSeen
  <2>5. \A f \in mutKnows' : \E q \in Callers : f \in knows'[q]
    BY <1>1, <2>2 DEF FSeen
  <2>6. \A q \in Callers : /\ \A f \in onReturned'[q] : flag'[f] = "set"
                           /\ slow'[q] \subseteq knows'[q]
    BY <1>1, <2>1, <2>2 DEF FSeen, FTyped
  <2>7. \A q \in Callers :
          /\ onPc'[q] = "store" => cur'[q] \in knows'[q]
          /\ onPc'[q] = "broadcast" => flag'[cur'[q]] = "set" /\ cur'[q] \in knows'[q]
    <3>1. ASSUME NEW q \in Callers PROVE onPc'[q] = IF q = p THEN "broadcast" ELSE onPc[q]
      BY <1>1 DEF FTyped
    <3>2. \A q \in Callers : onPc[q] = "broadcast" => cur[q] \in Flag!Flags
      BY DEF FTyped, FNested
    <3>3. \A q \in Callers : onPc[q] = "broadcast" => flag[cur[q]] = "set" /\ cur[q] \in knows[q]
      BY DEF FSeen
    <3>4. \A q \in Callers : onPc[q] = "store" => cur[q] \in knows[q]
      BY DEF FSeen
    <3>5. flag'[cur[p]] = "set" /\ cur[p] \in knows'[p]
      BY <1>2, <2>1, <2>2, <2>3
    <3>6. \A q \in Callers \ {p} : onPc[q] = "broadcast" => flag'[cur[q]] = "set"
      BY <2>1, <3>2, <3>3
    <3> QED  BY <1>1, <2>2, <3>1, <3>3, <3>4, <3>5, <3>6
  <2> QED  BY <2>4, <2>5, <2>6, <2>7 DEF FSeen
<1> QED  BY <1>2, <1>3, <1>4, <1>5, <1>6, <1>7

LEMMA FCatch ==
  ASSUME FInv, NEW p \in Callers, Flag!Catch(p)
  PROVE  /\ FInv' /\ flag[cur[p]] = "running" /\ Flag!Running(cur[p]) = {p}
         /\ Flag!Running(cur[p])' = {}
         /\ \A f \in Flag!Flags \ {cur[p]} : Flag!Running(f)' = Flag!Running(f)
<1> USE FlagsArePositive DEF FInv
<1>1. /\ onPc[p] = "catch" /\ onPc' = [onPc EXCEPT ![p] = "rethrow"]
      /\ flag' = [flag EXCEPT ![cur[p]] = "unset"]
      /\ knows' = [knows EXCEPT ![p] = @ \union mutKnows]
      /\ mutKnows' = mutKnows \union knows[p]
      /\ mut = Nothing /\ UNCHANGED <<mut, cur, below, onReturned, slow>>
  BY DEF Flag!Catch, Flag!Goto
<1>2. /\ cur[p] \in Flag!Flags /\ flag[cur[p]] = "running" /\ Flag!Running(cur[p]) = {p}
      /\ Flag!Running(cur[p])' = {}
      /\ \A f \in Flag!Flags \ {cur[p]} : Flag!Running(f)' = Flag!Running(f)
  BY <1>1, EndsRunning
<1>3. FTyped'
  BY <1>1, <1>2 DEF FTyped
<1>4. FNested'
  BY <1>1, FNestedStays DEF FTyped
<1>5. FLocked'
  BY <1>1, PartsAssumption DEF FLocked, FTyped, Flag!OnceAssumption
<1>6. FExclusive'
  <2>1. flag'[cur[p]] # "running"
    BY <1>1, <1>2 DEF FTyped
  <2>2. \A f \in Flag!Flags \ {cur[p]} : flag'[f] = flag[f]
    BY <1>1 DEF FTyped
  <2>3. ASSUME NEW f \in Flag!Flags
        PROVE  /\ flag'[f] = "running" <=> Flag!Running(f)' # {}
               /\ \A q, r \in Flag!Running(f)' : q = r
    <3>1. CASE f = cur[p]
      BY <1>1, <1>2, <2>1, <3>1
    <3>2. CASE f # cur[p]
      <4>1. flag'[f] = flag[f] /\ Flag!Running(f)' = Flag!Running(f)
        BY <1>2, <2>2, <3>2
      <4>2. /\ flag[f] = "running" <=> Flag!Running(f) # {}
            /\ \A q, r \in Flag!Running(f) : q = r
        BY DEF FExclusive
      <4> QED  BY <4>1, <4>2
    <3> QED  BY <3>1, <3>2
  <2> QED  BY <2>3 DEF FExclusive
<1>7. FSeen'
  <2>1. \A f \in Flag!Flags : flag'[f] = IF f = cur[p] THEN "unset" ELSE flag[f]
    BY <1>1 DEF FTyped
  <2>2. \A q \in Callers : knows'[q] = IF q = p THEN knows[q] \union mutKnows ELSE knows[q]
    BY <1>1 DEF FTyped
  <2>4. \A f \in Flag!Flags : flag'[f] = "set" => f \in mutKnows'
    <3>1. \A f \in Flag!Flags : flag[f] = "set" => f \in mutKnows
      BY DEF FSeen
    <3>2. \A f \in Flag!Flags : flag'[f] = "set" => flag[f] = "set"
      BY <2>1
    <3> QED  BY <1>1, <3>1, <3>2
  <2>5. \A f \in mutKnows' : \E q \in Callers : f \in knows'[q]
    BY <1>1, <2>2 DEF FSeen
  <2>6. \A q \in Callers : /\ \A f \in onReturned'[q] : flag'[f] = "set"
                           /\ slow'[q] \subseteq knows'[q]
    BY <1>1, <1>2, <2>1, <2>2 DEF FSeen, FTyped
  <2>7. \A q \in Callers :
          /\ onPc'[q] = "store" => cur'[q] \in knows'[q]
          /\ onPc'[q] = "broadcast" => flag'[cur'[q]] = "set" /\ cur'[q] \in knows'[q]
    <3>1. ASSUME NEW q \in Callers PROVE onPc'[q] = IF q = p THEN "rethrow" ELSE onPc[q]
      BY <1>1 DEF FTyped
    <3>2. \A q \in Callers : onPc[q] = "broadcast" => cur[q] \in Flag!Flags
      BY DEF FTyped, FNested
    <3> QED  BY <1>1, <1>2, <2>1, <2>2, <3>1, <3>2 DEF FSeen
  <2> QED  BY <2>4, <2>5, <2>6, <2>7 DEF FSeen
<1> QED  BY <1>2, <1>3, <1>4, <1>5, <1>6, <1>7

(* The broadcast that ends a call of __call_once(), and the one before the     *)
(* exception goes on.                                                         *)
LEMMA FBroadcast ==
  ASSUME FInv, NEW p \in Callers, Flag!Broadcast(p) \/ Flag!Rethrow(p)
  PROVE  /\ FInv' /\ UNCHANGED flag
         /\ \A f \in Flag!Flags : Flag!Running(f)' = Flag!Running(f)
<1> USE FlagsArePositive DEF FInv
<1>1. /\ onPc[p] \in {"broadcast", "rethrow"} /\ onPc' = Flag!Woken(p) /\ Flag!Pop(p)
      /\ UNCHANGED <<flag, mut, mutKnows, knows>>
  BY DEF Flag!Broadcast, Flag!Rethrow, Flag!word
<1>2. /\ onPc'[p] = Flag!Caller(p) /\ onPc'[p] \in {"out", "run"}
      /\ \A q \in Callers \ {p} : \/ onPc'[q] = onPc[q]
                                  \/ onPc[q] = "wait" /\ onPc'[q] = "lock"
  BY <1>1 DEF Flag!Woken, Flag!Caller
<1>3. /\ \A f \in Flag!Flags : Flag!Running(f)' = Flag!Running(f)
      /\ cur' \in [Callers -> {0} \union Flag!Flags] /\ below' \in [Callers -> Seq(Flag!Flags)]
      /\ FNested'
  BY <1>1, <1>2, PopKeepsRunning
<1>4. \/ onPc[p] = "rethrow" /\ UNCHANGED <<onReturned, slow>>
      \/ /\ onPc[p] = "broadcast"
         /\ onReturned' = [onReturned EXCEPT ![p] = @ \union {cur[p]}]
         /\ slow' = [slow EXCEPT ![p] = @ \union {cur[p]}]
  BY DEF Flag!Broadcast, Flag!Rethrow
<1>5. cur[p] \in Flag!Flags
  <2>1. cur[p] # 0
    BY <1>1 DEF FNested
  <2> QED  BY <2>1 DEF FTyped
<1>6. FTyped'
  <2>1. onPc' \in [Callers -> {"out", "lock", "check", "wait", "run", "store", "catch",
                               "broadcast", "rethrow"}]
    BY <1>1 DEF Flag!Woken, Flag!Caller, FTyped
  <2>2. onReturned' \in [Callers -> SUBSET Flag!Flags] /\ slow' \in [Callers -> SUBSET Flag!Flags]
    <3>1. onReturned \in [Callers -> SUBSET Flag!Flags] /\ slow \in [Callers -> SUBSET Flag!Flags]
      BY DEF FTyped
    <3> QED  BY <1>4, <1>5, <3>1
  <2> QED  BY <1>1, <1>3, <2>1, <2>2 DEF FTyped
<1>7. FLocked'
  BY <1>1, <1>2 DEF FLocked
<1>8. FSeen'
  <2>1. \A q \in Callers \ {p} : cur'[q] = cur[q]
    BY <1>1 DEF Flag!Pop, FTyped
  <2>2. \A q \in Callers :
          /\ onPc'[q] = "store" => cur'[q] \in knows'[q]
          /\ onPc'[q] = "broadcast" => flag'[cur'[q]] = "set" /\ cur'[q] \in knows'[q]
    BY <1>1, <1>2, <2>1 DEF FSeen
  <2>3. \A q \in Callers : /\ \A f \in onReturned'[q] : flag'[f] = "set"
                           /\ slow'[q] \subseteq knows'[q]
    <3>1. \A q \in Callers : /\ \A f \in onReturned[q] : flag[f] = "set"
                             /\ slow[q] \subseteq knows[q]
      BY DEF FSeen
    <3>2. CASE UNCHANGED <<onReturned, slow>>
      BY <1>1, <3>1, <3>2
    <3>3. CASE ~UNCHANGED <<onReturned, slow>>
      <4>1. flag[cur[p]] = "set" /\ cur[p] \in knows[p]
        BY <1>4, <3>3 DEF FSeen
      <4>2. \A q \in Callers : /\ onReturned'[q] \subseteq onReturned[q] \union {cur[q]}
                               /\ slow'[q] \subseteq slow[q] \union {cur[q]}
                               /\ q # p => onReturned'[q] = onReturned[q] /\ slow'[q] = slow[q]
        BY <1>4, <3>3 DEF FTyped
      <4> QED  BY <1>1, <3>1, <4>1, <4>2
    <3> QED  BY <3>2, <3>3
  <2> QED  BY <1>1, <2>2, <2>3 DEF FSeen
<1> QED  BY <1>1, <1>3, <1>6, <1>7, <1>8, FExclusiveStays

LEMMA FLocal ==
  ASSUME FInv, NEW p \in Callers,
         Flag!WakeUp(p) \/ Flag!FunctionReturns(p) \/ Flag!FunctionThrows(p)
  PROVE  /\ FInv' /\ UNCHANGED <<flag, onReturned>>
         /\ \A f \in Flag!Flags : Flag!Running(f)' = Flag!Running(f)
<1> USE FlagsArePositive DEF FInv
<1>1. /\ UNCHANGED <<flag, mut, mutKnows, cur, below, onReturned, slow>>
      /\ \/ onPc[p] = "wait" /\ onPc' = [onPc EXCEPT ![p] = "lock"] /\ UNCHANGED knows
         \/ /\ onPc[p] = "run" /\ onPc' = [onPc EXCEPT ![p] = "store"]
            /\ knows' = [knows EXCEPT ![p] = @ \union {cur[p]}]
         \/ onPc[p] = "run" /\ onPc' = [onPc EXCEPT ![p] = "catch"] /\ UNCHANGED knows
  BY DEF Flag!WakeUp, Flag!FunctionReturns, Flag!FunctionThrows, Flag!Goto, Flag!word
<1>2. onPc[p] # "out" /\ cur[p] \in Flag!Flags
  <2>1. cur[p] # 0
    BY <1>1 DEF FNested
  <2> QED  BY <1>1, <2>1 DEF FTyped
<1>3. FTyped'
  <2>1. onPc' \in [Callers -> {"out", "lock", "check", "wait", "run", "store", "catch",
                               "broadcast", "rethrow"}]
    BY <1>1 DEF FTyped
  <2>2. knows' \in [Callers -> SUBSET Flag!Flags]
    <3>1. knows \in [Callers -> SUBSET Flag!Flags]
      BY DEF FTyped
    <3> QED  BY <1>1, <1>2, <3>1
  <2> QED  BY <1>1, <2>1, <2>2 DEF FTyped
<1>4. FNested'
  BY <1>1, FNestedStays DEF FTyped
<1>5. \A f \in Flag!Flags : Flag!Running(f)' = Flag!Running(f)
  BY <1>1, RunningStays DEF FTyped
<1>6. FLocked'
  BY <1>1 DEF FLocked, FTyped
<1>7. FSeen'
  <2>1. \A q \in Callers : /\ knows[q] \subseteq knows'[q]
                           /\ q # p => onPc'[q] = onPc[q]
    BY <1>1 DEF FTyped
  <2>2. onPc'[p] # "broadcast" /\ (onPc'[p] = "store" => cur[p] \in knows'[p])
    BY <1>1 DEF FTyped
  <2> QED  BY <1>1, <2>1, <2>2 DEF FSeen
<1> QED  BY <1>1, <1>3, <1>4, <1>5, <1>6, <1>7, FExclusiveStays

LEMMA FInductive == FInv /\ [Flag!Next]_(Flag!vars) => FInv'
<1> SUFFICES ASSUME FInv, [Flag!Next]_(Flag!vars) PROVE FInv'
  OBVIOUS
<1>1. CASE UNCHANGED Flag!vars
  BY <1>1 DEF Flag!vars, Flag!word, FInv, FTyped, FNested, FLocked, FExclusive, FSeen, Flag!Running
<1>2. ASSUME NEW p \in Callers, NEW f \in Flag!Flags, Flag!CallOnce(p, f) PROVE FInv'
  BY <1>2, FCallOnce
<1>3. ASSUME NEW p \in Callers, Flag!Step(p) PROVE FInv'
  BY <1>3, FLock, FCheck, FLocal, FStore, FCatch, FBroadcast DEF Flag!Step
<1>4. ASSUME NEW p \in Callers, Flag!WakeUp(p) \/ Flag!FunctionThrows(p) PROVE FInv'
  BY <1>4, FLocal
<1>5. CASE Flag!Stopped
  BY <1>1, <1>5 DEF Flag!Stopped
<1> QED  BY <1>1, <1>2, <1>3, <1>4, <1>5 DEF Flag!Next

LEMMA FInvariance == Flag!Spec => []FInv
BY FInitially, FInductive, PTL DEF Flag!Spec

(* What the thread of a running function is, for the abstract call_once().     *)
FRunner(f) == IF Flag!Running(f) = {} THEN Nothing ELSE CHOOSE p \in Flag!Running(f) : TRUE
FDone == {f \in Flag!Flags : flag[f] = "set" /\ \E p \in Callers : f \in knows[p]}

LEMMA FRunnerIs ==
  ASSUME NEW f \in Flag!Flags
  PROVE  /\ \A p \in Callers : Flag!Running(f) = {p} => FRunner(f) = p
         /\ Flag!Running(f) = {} => FRunner(f) = Nothing
BY DEF FRunner

(* A flag is done when it is set: whoever set it has seen the function return. *)
LEMMA FDoneIs == FInv => FDone = {f \in Flag!Flags : flag[f] = "set"}
BY DEF FInv, FSeen, FDone

(* Every step of call_once() is a step or a stutter of the abstract one.       *)
LEMMA FRefines ==
  ASSUME FInv, FInv', Flag!Next
  PROVE  Flag!O!Next \/ UNCHANGED <<[f \in Flag!Flags |-> FRunner(f)], FDone, onReturned>>
<1> USE FlagsArePositive
<1> DEFINE runner == [f \in Flag!Flags |-> FRunner(f)]
<1>0. FTyped /\ FTyped' /\ FNested
  BY DEF FInv
<1>1. ASSUME NEW f \in Flag!Flags, Flag!Running(f)' = Flag!Running(f)
      PROVE  runner'[f] = runner[f]
  BY <1>1 DEF FRunner
<1>2. (\A f \in Flag!Flags : Flag!Running(f)' = Flag!Running(f)) => runner' = runner
  BY <1>1
<1>3. UNCHANGED flag => UNCHANGED FDone
  <2>1. FDone = {f \in Flag!Flags : flag[f] = "set"}
    BY FDoneIs
  <2>2. FDone' = {f \in Flag!Flags : flag'[f] = "set"}
    BY DEF FInv, FSeen, FDone
  <2> QED  BY <2>1, <2>2
<1>4. \A p \in Callers : onPc[p] # "out" => cur[p] \in Flag!Flags
  BY <1>0 DEF FTyped, FNested
<1>5. ASSUME NEW p \in Callers, NEW f \in Flag!Flags, Flag!CallOnce(p, f)
      PROVE  Flag!O!Return(p, f) \/ UNCHANGED <<runner, FDone, onReturned>>
  <2>1. UNCHANGED flag
    BY <1>5 DEF Flag!CallOnce, Flag!word
  <2>2. CASE /\ flag[f] = "set" /\ onReturned' = [onReturned EXCEPT ![p] = @ \union {f}]
             /\ UNCHANGED <<onPc, cur, below>>
    <3>1. f \in FDone
      BY <2>2, FDoneIs
    <3>2. UNCHANGED runner
      BY <1>2, <2>2, RunningStays
    <3> QED  BY <1>3, <2>1, <2>2, <3>1, <3>2 DEF Flag!O!Return, FDone, FRunner
  <2>3. CASE /\ Flag!Goto(p, "lock") /\ UNCHANGED onReturned
             /\ below' = [below EXCEPT ![p] = IF cur[p] = 0 THEN @ ELSE Append(@, cur[p])]
             /\ cur' = [cur EXCEPT ![p] = f]
    <3>1. onPc[p] \in {"out", "run"} /\ cur[p] < f /\ onPc' = [onPc EXCEPT ![p] = "lock"]
      BY <1>5, <2>3 DEF Flag!CallOnce, Flag!Goto
    <3>2. UNCHANGED runner
      BY <1>0, <1>2, <2>3, <3>1, PushKeepsRunning
    <3> QED  BY <1>3, <2>1, <2>3, <3>2
  <2> QED  BY <1>5, <2>2, <2>3 DEF Flag!CallOnce
<1>6. ASSUME NEW p \in Callers, Flag!Check(p)
      PROVE  \/ Flag!O!Return(p, cur[p]) \/ Flag!O!Run(p, cur[p])
             \/ UNCHANGED <<runner, FDone, onReturned>>
  <2>1. onPc[p] = "check" /\ cur[p] \in Flag!Flags
    BY <1>4, <1>6 DEF Flag!Check
  <2>2. CASE /\ flag[cur[p]] = "running" /\ Flag!Goto(p, "wait")
             /\ UNCHANGED <<flag, cur, below, onReturned, slow>>
    <3>1. UNCHANGED runner
      BY <1>0, <1>2, <2>1, <2>2, RunningStays DEF Flag!Goto, FTyped
    <3> QED  BY <1>3, <2>2, <3>1
  <2>3. CASE /\ flag[cur[p]] = "unset" /\ flag' = [flag EXCEPT ![cur[p]] = "running"]
             /\ Flag!Goto(p, "run") /\ UNCHANGED <<cur, below, onReturned, slow>>
    <3>1. onPc' = [onPc EXCEPT ![p] = "run"]
      BY <2>3 DEF Flag!Goto
    <3>2. /\ \A f \in Flag!Flags \ {cur[p]} : flag'[f] = flag[f]
          /\ flag'[cur[p]] = "running"
      BY <2>1, <2>3, <1>0 DEF FTyped
    <3>3. FDone' = FDone /\ cur[p] \notin FDone
      <4>1. FDone' = {f \in Flag!Flags : flag'[f] = "set"}
        BY DEF FInv, FSeen, FDone
      <4> QED  BY <2>3, <3>2, <4>1, FDoneIs
    <3>4. Flag!Running(cur[p]) = {}
      BY <2>1, <2>3 DEF FInv, FExclusive
    <3>5. p \in Flag!Running(cur[p])'
      BY <1>0, <2>3, <3>1 DEF Flag!Running, FTyped
    <3>6. Flag!Running(cur[p])' = {p}
      BY <2>1, <2>3, <3>5 DEF FInv, FExclusive
    <3>7. runner[cur[p]] = Nothing /\ runner'[cur[p]] = p
      <4>1. FRunner(cur[p]) = Nothing
        BY <2>1, <3>4, FRunnerIs
      <4>2. FRunner(cur[p])' = p
        BY <3>6 DEF FRunner
      <4> QED  BY <2>1, <2>3, <4>1, <4>2
    <3>8. ASSUME NEW f \in Flag!Flags \ {cur[p]} PROVE runner'[f] = runner[f]
      <4>1. Flag!Running(f)' = Flag!Running(f)
        BY <1>0, <2>3, <3>1 DEF Flag!Running, FTyped
      <4> QED  BY <1>1, <4>1
    <3>9. runner' = [runner EXCEPT ![cur[p]] = p]
      BY <2>1, <3>7, <3>8
    <3> QED  BY <2>3, <3>3, <3>7, <3>9 DEF Flag!O!Run, FDone, FRunner
  <2>4. CASE /\ flag[cur[p]] = "set"
             /\ onReturned' = [onReturned EXCEPT ![p] = @ \union {cur[p]}]
             /\ Flag!Goto(p, Flag!Caller(p)) /\ Flag!Pop(p) /\ UNCHANGED flag
    <3>1. cur[p] \in FDone
      BY <2>1, <2>4, FDoneIs
    <3>2. onPc' = [onPc EXCEPT ![p] = Flag!Caller(p)]
      BY <2>4 DEF Flag!Goto
    <3>3. onPc'[p] = Flag!Caller(p) /\ \A q \in Callers \ {p} : onPc'[q] = onPc[q]
      BY <1>0, <3>2 DEF FTyped
    <3>4. UNCHANGED runner
      BY <1>0, <1>2, <2>1, <2>4, <3>3, PopKeepsRunning
    <3> QED  BY <1>3, <2>4, <3>1, <3>4 DEF Flag!O!Return, FDone, FRunner
  <2> QED  BY <1>6, <2>2, <2>3, <2>4 DEF Flag!Check
<1>7. ASSUME NEW p \in Callers, Flag!Store(p) \/ Flag!Catch(p)
      PROVE  Flag!O!Finish(p, cur[p]) \/ Flag!O!Throw(p, cur[p])
  <2>1. /\ cur[p] \in Flag!Flags /\ UNCHANGED <<cur, onReturned>>
        /\ \/ Flag!Store(p) /\ flag' = [flag EXCEPT ![cur[p]] = "set"]
           \/ Flag!Catch(p) /\ flag' = [flag EXCEPT ![cur[p]] = "unset"]
    BY <1>4, <1>7 DEF Flag!Store, Flag!Catch
  <2>2. /\ flag[cur[p]] = "running" /\ Flag!Running(cur[p]) = {p}
        /\ Flag!Running(cur[p])' = {}
        /\ \A f \in Flag!Flags \ {cur[p]} : Flag!Running(f)' = Flag!Running(f)
    BY <1>7, FStore, FCatch
  <2>3. runner[cur[p]] = p /\ runner'[cur[p]] = Nothing
    <3>1. FRunner(cur[p]) = p
      BY <2>1, <2>2, FRunnerIs
    <3>2. FRunner(cur[p])' = Nothing
      BY <2>2 DEF FRunner
    <3> QED  BY <2>1, <3>1, <3>2
  <2>4. \A f \in Flag!Flags \ {cur[p]} : runner'[f] = runner[f]
    BY <1>1, <2>2
  <2>5. runner' = [runner EXCEPT ![cur[p]] = Nothing]
    BY <2>1, <2>3, <2>4
  <2>6. FDone' = {f \in Flag!Flags : flag'[f] = "set"}
    BY DEF FInv, FSeen, FDone
  <2>7. CASE flag' = [flag EXCEPT ![cur[p]] = "set"]
    <3>1. \A f \in Flag!Flags : flag'[f] = "set" <=> flag[f] = "set" \/ f = cur[p]
      BY <1>0, <2>1, <2>7 DEF FTyped
    <3>2. FDone' = FDone \union {cur[p]}
      BY <2>1, <2>6, <3>1, FDoneIs
    <3> QED  BY <2>1, <2>3, <2>5, <3>2 DEF Flag!O!Finish, FDone, FRunner
  <2>8. CASE flag' = [flag EXCEPT ![cur[p]] = "unset"]
    <3>1. \A f \in Flag!Flags : flag'[f] = "set" <=> flag[f] = "set"
      BY <1>0, <2>1, <2>2, <2>8 DEF FTyped
    <3>2. FDone' = FDone
      BY <2>6, <3>1, FDoneIs
    <3> QED  BY <2>1, <2>3, <2>5, <3>2 DEF Flag!O!Throw, FDone, FRunner
  <2> QED  BY <2>1, <2>7, <2>8
<1>8. ASSUME NEW p \in Callers, Flag!Broadcast(p) \/ Flag!Rethrow(p)
      PROVE  Flag!O!Return(p, cur[p]) \/ UNCHANGED <<runner, FDone, onReturned>>
  <2>1. UNCHANGED <<flag, runner>>
    BY <1>2, <1>8, FBroadcast
  <2>2. CASE Flag!Broadcast(p)
    <3>1. flag[cur[p]] = "set" /\ cur[p] \in Flag!Flags
      BY <1>4, <2>2 DEF Flag!Broadcast, FInv, FSeen
    <3>2. cur[p] \in FDone
      BY <3>1, FDoneIs
    <3> QED  BY <1>3, <2>1, <2>2, <3>2 DEF Flag!Broadcast, Flag!O!Return, FDone, FRunner
  <2>3. CASE Flag!Rethrow(p)
    BY <1>3, <2>1, <2>3 DEF Flag!Rethrow
  <2> QED  BY <1>8, <2>2, <2>3
<1>9. ASSUME NEW p \in Callers,
             Flag!WakeUp(p) \/ Flag!FunctionReturns(p) \/ Flag!FunctionThrows(p)
      PROVE  UNCHANGED <<runner, FDone, onReturned>>
  BY <1>2, <1>3, <1>9, FLocal
<1>10. ASSUME NEW p \in Callers, Flag!Lock(p) PROVE UNCHANGED <<runner, FDone, onReturned>>
  <2>1. UNCHANGED <<flag, cur, below, onReturned>> /\ onPc[p] = "lock" /\ onPc' = [onPc EXCEPT ![p] = "check"]
    BY <1>10 DEF Flag!Lock, Flag!Goto
  <2> QED  BY <1>0, <1>2, <1>3, <2>1, RunningStays DEF FTyped
<1>11. CASE Flag!Stopped
  BY <1>2, <1>3, <1>11, RunningStays DEF Flag!Stopped, Flag!vars, Flag!word
<1>12. \A p \in Callers : Flag!Store(p) \/ Flag!Catch(p) \/ Flag!Broadcast(p) \/ Flag!Check(p)
                           => cur[p] \in Flag!Flags
  BY <1>4 DEF Flag!Store, Flag!Catch, Flag!Broadcast, Flag!Check
<1> HIDE DEF runner
<1>13. ASSUME NEW p \in Callers, Flag!Step(p)
       PROVE  Flag!O!Next \/ UNCHANGED <<runner, FDone, onReturned>>
  <2>1. CASE Flag!Check(p)
    BY <1>6, <1>12, <2>1 DEF Flag!O!Next
  <2>2. CASE Flag!Store(p) \/ Flag!Catch(p)
    <3>1. cur[p] \in Flag!Flags
      BY <1>12, <2>2
    <3>2. Flag!O!Finish(p, cur[p]) \/ Flag!O!Throw(p, cur[p])
      BY <1>7, <2>2
    <3>3. CASE Flag!O!Finish(p, cur[p])
      BY <3>1, <3>3 DEF Flag!O!Next, Flag!O!Finish
    <3>4. CASE Flag!O!Throw(p, cur[p])
      BY <3>1, <3>4 DEF Flag!O!Next
    <3> QED  BY <3>2, <3>3, <3>4
  <2>3. CASE Flag!Broadcast(p)
    BY <1>8, <1>12, <2>3 DEF Flag!O!Next
  <2>4. CASE Flag!Rethrow(p)
    <3>1. onPc[p] = "rethrow"
      BY <2>4 DEF Flag!Rethrow
    <3> QED  BY <1>4, <1>8, <2>4, <3>1 DEF Flag!O!Next
  <2> QED  BY <1>9, <1>10, <1>13, <2>1, <2>2, <2>3, <2>4 DEF Flag!Step
<1>14. Flag!O!Next \/ UNCHANGED <<runner, FDone, onReturned>>
  <2>1. ASSUME NEW p \in Callers, NEW f \in Flag!Flags, Flag!CallOnce(p, f)
        PROVE  Flag!O!Next \/ UNCHANGED <<runner, FDone, onReturned>>
    BY <1>5, <2>1, Zenon DEF Flag!O!Next
  <2>2. CASE Flag!Stopped
    BY <1>11, <2>2 DEF runner
  <2>3. CASE ~Flag!Stopped
    <3>1. PICK p \in Callers : (\E f \in Flag!Flags : Flag!CallOnce(p, f)) \/ Flag!Step(p)
                               \/ Flag!WakeUp(p) \/ Flag!FunctionThrows(p)
      BY <2>3 DEF Flag!Next
    <3> QED  BY <1>9, <1>13, <2>1, <3>1
  <2> QED  BY <2>2, <2>3
<1> QED  BY <1>14 DEF runner

(* A call through the mutex returns with the effects of the function in sight, *)
(* and call_once() implements Once.                                            *)
THEOREM OnceFlagIsOnce == Flag!Spec => []Flag!SlowCallsSynchronize /\ Flag!ImplementsOnce
<1> DEFINE runner == [f \in Flag!Flags |-> FRunner(f)]
<1>1. Flag!Init => Flag!O!Init
  BY DEF Flag!Init, Flag!O!Init, Flag!Running, Flag!Elements
<1>2. FInv /\ FInv' /\ [Flag!Next]_(Flag!vars) => [Flag!O!Next]_<<runner, FDone, onReturned>>
  <2>1. UNCHANGED Flag!vars => UNCHANGED <<runner, FDone, onReturned>>
    BY DEF Flag!vars, Flag!word, FRunner, FDone, Flag!Running
  <2> QED  BY <2>1, FRefines
<1>3. FInv => Flag!SlowCallsSynchronize
  BY DEF FInv, FSeen, Flag!SlowCallsSynchronize
<1> QED
  BY <1>1, <1>2, <1>3, FInvariance, PTL DEF Flag!Spec, Flag!ImplementsOnce, Flag!O!Spec, FRunner, FDone

-------------------------------------------------------------------------------
(* SharedPtr (Pointer), for any set of threads.                                *)
Closing == {t \in Callers : ptPc[t] \in {"onZero", "weak"}}

PTyped ==
  /\ strong \subseteq Callers /\ IsFiniteSet(strong)
  /\ weak \subseteq Callers /\ IsFiniteSet(weak)
  /\ ptPc \in [Callers -> {"out", "onZero", "weak", "loop"}]
  /\ shared_owners \in Int /\ shared_weak_owners \in Int

(* The counters are one less than what they count; all owners of the object,   *)
(* and the thread that destroys it, have one weak count together.              *)
PCounts ==
  /\ Cardinality(strong) = shared_owners + 1
  /\ Cardinality(weak) + (IF strong # {} \/ Closing # {} THEN 1 ELSE 0) = shared_weak_owners + 1

(* One thread destroys the object, after the last owner; lock() is for a       *)
(* thread that has a weak_ptr alone.                                           *)
PPlaces ==
  /\ \A t, u \in Closing : t = u
  /\ Closing # {} => strong = {}
  /\ \A t \in Callers : ptPc[t] = "loop" => t \in weak \ strong

PGone ==
  /\ destroyed = IF strong # {} \/ \E t \in Callers : ptPc[t] = "onZero" THEN 0 ELSE 1
  /\ freed = IF strong = {} /\ weak = {} /\ Closing = {} THEN 1 ELSE 0

PInv == PTyped /\ PCounts /\ PPlaces /\ PGone

(* A set that gets or loses an element, and its cardinality.                   *)
LEMMA OneMore ==
  ASSUME NEW S, IsFiniteSet(S), NEW x, x \notin S
  PROVE  IsFiniteSet(S \union {x}) /\ Cardinality(S \union {x}) = Cardinality(S) + 1
         /\ Cardinality(S) \in Nat
BY FS_AddElement, FS_CardinalityType

LEMMA OneLess ==
  ASSUME NEW S, IsFiniteSet(S), NEW x, x \in S
  PROVE  /\ IsFiniteSet(S \ {x}) /\ Cardinality(S \ {x}) = Cardinality(S) - 1
         /\ Cardinality(S) \in Nat /\ (S \ {x} = {} <=> Cardinality(S) = 1)
<1>1. IsFiniteSet(S \ {x}) /\ Cardinality(S \ {x}) = Cardinality(S) - 1 /\ Cardinality(S) \in Nat
  BY FS_RemoveElement, FS_CardinalityType
<1>2. S \ {x} = {} <=> Cardinality(S \ {x}) = 0
  BY <1>1, FS_EmptySet
<1> QED  BY <1>1, <1>2

LEMMA PInitially == Pointer!Init => PInv
<1> SUFFICES ASSUME Pointer!Init PROVE PInv
  OBVIOUS
<1>1. First \in Callers
  BY PartsAssumption DEF Pointer!SharedPtrAssumption
<1>2. /\ IsFiniteSet({First}) /\ Cardinality({First}) = 1
      /\ IsFiniteSet({}) /\ Cardinality({}) = 0
  BY FS_Singleton, FS_EmptySet
<1>3. Closing = {}
  BY DEF Closing, Pointer!Init
<1> QED  BY <1>1, <1>2, <1>3 DEF Pointer!Init, PInv, PTyped, PCounts, PPlaces, PGone

LEMMA PAdd ==
  ASSUME PInv, NEW t \in Callers, NEW u \in Callers, Pointer!AddShared(t, u) \/ Pointer!AddWeak(t, u)
  PROVE  PInv'
<1> USE DEF PInv
<1>1. CASE Pointer!AddShared(t, u)
  <2>1. /\ strong' = strong \union {u} /\ u \notin strong /\ shared_owners' = shared_owners + 1
        /\ ptPc[u] = "out" /\ strong # {}
        /\ UNCHANGED <<shared_weak_owners, weak, ptPc, destroyed, freed>>
    BY <1>1 DEF Pointer!AddShared
  <2>2. Closing' = Closing /\ Closing = {} /\ strong' # {}
    BY <2>1 DEF Closing, PPlaces
  <2>3. PTyped' /\ PCounts'
    BY <2>1, <2>2, OneMore DEF PTyped, PCounts
  <2>4. PPlaces' /\ PGone'
    BY <2>1, <2>2 DEF PPlaces, PGone
  <2> QED  BY <2>3, <2>4
<1>2. CASE Pointer!AddWeak(t, u)
  <2>1. /\ weak' = weak \union {u} /\ u \notin weak
        /\ shared_weak_owners' = shared_weak_owners + 1 /\ t \in strong \union weak
        /\ UNCHANGED <<shared_owners, strong, ptPc, destroyed, freed>>
    BY <1>2 DEF Pointer!AddWeak
  <2>2. Closing' = Closing
    BY <2>1 DEF Closing
  <2>3. PTyped' /\ PCounts'
    BY <2>1, <2>2, OneMore DEF PTyped, PCounts
  <2>4. PPlaces' /\ PGone'
    BY <2>1, <2>2 DEF PPlaces, PGone
  <2> QED  BY <2>3, <2>4
<1> QED  BY <1>1, <1>2

LEMMA PReleaseShared ==
  ASSUME PInv, NEW t \in Callers, Pointer!ReleaseShared(t) PROVE PInv'
<1> USE DEF PInv
<1>1. /\ ptPc[t] = "out" /\ t \in strong /\ strong' = strong \ {t}
      /\ shared_owners' = shared_owners - 1
      /\ ptPc' = [ptPc EXCEPT ![t] = IF shared_owners = 0 THEN "onZero" ELSE "out"]
      /\ UNCHANGED <<shared_weak_owners, weak, destroyed, freed>>
  BY DEF Pointer!ReleaseShared, Pointer!Goto
<1>2. /\ IsFiniteSet(strong') /\ Cardinality(strong') = Cardinality(strong) - 1
      /\ Cardinality(strong) \in Nat /\ (strong' = {} <=> shared_owners = 0)
  BY <1>1, OneLess DEF PTyped, PCounts
<1>3. Closing = {} /\ destroyed = 0 /\ freed = 0
  BY <1>1 DEF PPlaces, PGone
<1>4. PTyped'
  BY <1>1, <1>2 DEF PTyped
<1>5. CASE shared_owners = 0
  <2>1. ptPc' = [ptPc EXCEPT ![t] = "onZero"] /\ strong' = {}
    BY <1>1, <1>2, <1>5
  <2>2. Closing' = {t}
    BY <1>3, <2>1 DEF Closing, PTyped
  <2>3. ptPc'[t] = "onZero" /\ \A u \in Callers : ptPc'[u] = "loop" => ptPc[u] = "loop"
    BY <2>1 DEF PTyped
  <2> QED  BY <1>1, <1>2, <1>3, <1>4, <2>1, <2>2, <2>3 DEF PCounts, PPlaces, PGone
<1>6. CASE shared_owners # 0
  <2>1. ptPc' = ptPc /\ strong' # {}
    BY <1>1, <1>2, <1>6 DEF PTyped
  <2>2. Closing' = {}
    BY <1>3, <2>1 DEF Closing
  <2>3. PCounts'
    BY <1>1, <1>2, <2>1, <2>2 DEF PCounts, PTyped
  <2>4. PPlaces'
    BY <1>1, <2>1, <2>2 DEF PPlaces
  <2>5. PGone'
    BY <1>1, <1>3, <2>1, <2>2 DEF PGone
  <2> QED  BY <1>4, <2>3, <2>4, <2>5
<1> QED  BY <1>5, <1>6

LEMMA POnZero ==
  ASSUME PInv, NEW t \in Callers, Pointer!OnZeroShared(t) PROVE PInv'
<1> USE DEF PInv
<1>1. /\ ptPc[t] = "onZero" /\ destroyed' = destroyed + 1 /\ ptPc' = [ptPc EXCEPT ![t] = "weak"]
      /\ UNCHANGED <<shared_owners, shared_weak_owners, strong, weak, freed>>
  BY DEF Pointer!OnZeroShared, Pointer!Goto
<1>2. Closing = {t} /\ strong = {} /\ destroyed = 0
  BY <1>1 DEF Closing, PPlaces, PGone
<1>3. Closing' = {t} /\ \A u \in Callers : /\ ptPc'[u] # "onZero"
                                           /\ ptPc'[u] = "loop" => ptPc[u] = "loop"
  BY <1>1, <1>2 DEF Closing, PTyped
<1> QED  BY <1>1, <1>2, <1>3 DEF PTyped, PCounts, PPlaces, PGone

LEMMA PReleaseWeak ==
  ASSUME PInv, NEW t \in Callers, Pointer!ReleaseWeakOfShared(t) \/ Pointer!ReleaseWeak(t)
  PROVE  PInv'
<1> USE DEF PInv
<1>1. CASE Pointer!ReleaseWeakOfShared(t)
  <2>1. /\ ptPc[t] = "weak" /\ ptPc' = [ptPc EXCEPT ![t] = "out"]
        /\ shared_weak_owners' = shared_weak_owners - 1
        /\ freed' = IF shared_weak_owners = 0 THEN freed + 1 ELSE freed
        /\ UNCHANGED <<shared_owners, strong, weak, destroyed>>
    BY <1>1 DEF Pointer!ReleaseWeakOfShared, Pointer!Goto, Pointer!Decrement
  <2>2. Closing = {t} /\ strong = {} /\ freed = 0
    BY <2>1 DEF Closing, PPlaces, PGone
  <2>3. Closing' = {} /\ \A u \in Callers : /\ ptPc'[u] = "onZero" <=> ptPc[u] = "onZero"
                                            /\ ptPc'[u] = "loop" => ptPc[u] = "loop"
    BY <2>1, <2>2 DEF Closing, PTyped
  <2>4. weak = {} <=> Cardinality(weak) = 0
    BY FS_EmptySet DEF PTyped
  <2>5. Cardinality(weak) \in Nat /\ Cardinality(weak) = shared_weak_owners
    BY <2>2, FS_CardinalityType DEF PTyped, PCounts
  <2>6. PTyped' /\ PCounts'
    BY <2>1, <2>2, <2>3, <2>5 DEF PTyped, PCounts
  <2>7. PPlaces' /\ PGone'
    BY <2>1, <2>2, <2>3, <2>4, <2>5 DEF PPlaces, PGone
  <2> QED  BY <2>6, <2>7
<1>2. CASE Pointer!ReleaseWeak(t)
  <2>1. /\ ptPc[t] = "out" /\ t \in weak /\ weak' = weak \ {t}
        /\ shared_weak_owners' = shared_weak_owners - 1
        /\ freed' = IF shared_weak_owners = 0 THEN freed + 1 ELSE freed
        /\ UNCHANGED <<shared_owners, strong, ptPc, destroyed>>
    BY <1>2 DEF Pointer!ReleaseWeak, Pointer!Decrement
  <2>2. /\ IsFiniteSet(weak') /\ Cardinality(weak') = Cardinality(weak) - 1
        /\ Cardinality(weak) \in Nat /\ (weak' = {} <=> Cardinality(weak) = 1)
    BY <2>1, OneLess DEF PTyped
  <2>3. Closing' = Closing /\ freed = 0
    BY <2>1 DEF Closing, PGone
  <2>4. PTyped' /\ PCounts'
    BY <2>1, <2>2, <2>3 DEF PTyped, PCounts
  <2>5. PPlaces'
    BY <2>1, <2>3 DEF PPlaces
  <2>6. Cardinality(weak) # 0
    BY <2>1, FS_EmptySet DEF PTyped
  <2>7. shared_weak_owners = 0 <=> strong = {} /\ weak' = {} /\ Closing = {}
    BY <2>2, <2>6 DEF PCounts, PTyped
  <2>8. PGone'
    BY <2>1, <2>3, <2>7 DEF PGone
  <2> QED  BY <2>4, <2>5, <2>8
<1> QED  BY <1>1, <1>2

(* lock() adds an owner to a count that is not -1: where there is one.         *)
LEMMA PLock ==
  ASSUME PInv, NEW t \in Callers, Pointer!Lock(t) \/ Pointer!LockLoop(t) PROVE PInv'
<1> USE DEF PInv
<1>1. CASE UNCHANGED <<shared_owners, strong>>
  <2>1. /\ UNCHANGED <<shared_weak_owners, weak, destroyed, freed>>
        /\ \/ UNCHANGED ptPc
           \/ ptPc[t] = "out" /\ t \in weak \ strong /\ ptPc' = [ptPc EXCEPT ![t] = "loop"]
           \/ ptPc[t] = "loop" /\ ptPc' = [ptPc EXCEPT ![t] = "out"]
    BY <1>1 DEF Pointer!Lock, Pointer!LockLoop, Pointer!Goto
  <2>2. /\ Closing' = Closing /\ ptPc' \in [Callers -> {"out", "onZero", "weak", "loop"}]
        /\ \A u \in Callers : /\ ptPc'[u] = "onZero" <=> ptPc[u] = "onZero"
                              /\ ptPc'[u] = "loop" => u \in weak \ strong
    BY <2>1 DEF Closing, PTyped, PPlaces
  <2> QED  BY <1>1, <2>1, <2>2 DEF PTyped, PCounts, PPlaces, PGone
<1>2. CASE ~UNCHANGED <<shared_owners, strong>>
  <2>1. /\ ptPc[t] = "loop" /\ shared_owners # -1 /\ shared_owners' = shared_owners + 1
        /\ strong' = strong \union {t} /\ ptPc' = [ptPc EXCEPT ![t] = "out"]
        /\ UNCHANGED <<shared_weak_owners, weak, destroyed, freed>>
    BY <1>2 DEF Pointer!Lock, Pointer!LockLoop, Pointer!Goto
  <2>2. strong # {} /\ t \notin strong
    BY <2>1, FS_EmptySet DEF PCounts, PTyped, PPlaces
  <2>3. Closing' = Closing /\ Closing = {}
    BY <2>1, <2>2 DEF Closing, PPlaces, PTyped
  <2>4. \A u \in Callers : /\ ptPc'[u] = "onZero" <=> ptPc[u] = "onZero"
                           /\ ptPc'[u] = "loop" => ptPc[u] = "loop" /\ u # t
    BY <2>1 DEF PTyped
  <2>5. PTyped' /\ PCounts'
    BY <2>1, <2>2, <2>3, OneMore DEF PTyped, PCounts
  <2>6. PPlaces' /\ PGone'
    BY <2>1, <2>2, <2>3, <2>4 DEF PPlaces, PGone
  <2> QED  BY <2>5, <2>6
<1> QED  BY <1>1, <1>2

LEMMA PInductive == PInv /\ [Pointer!Next]_(Pointer!vars) => PInv'
<1> SUFFICES ASSUME PInv, [Pointer!Next]_(Pointer!vars) PROVE PInv'
  OBVIOUS
<1>1. CASE UNCHANGED Pointer!vars
  BY <1>1 DEF Pointer!vars, PInv, PTyped, PCounts, PPlaces, PGone, Closing
<1>2. CASE Pointer!Done
  BY <1>1, <1>2 DEF Pointer!Done
<1>3. ASSUME NEW t \in Callers, NEW u \in Callers, Pointer!AddShared(t, u) \/ Pointer!AddWeak(t, u)
      PROVE  PInv'
  BY <1>3, PAdd
<1>4. ASSUME NEW t \in Callers,
             \/ Pointer!ReleaseShared(t) \/ Pointer!OnZeroShared(t)
             \/ Pointer!ReleaseWeakOfShared(t) \/ Pointer!ReleaseWeak(t)
             \/ Pointer!Lock(t) \/ Pointer!LockLoop(t)
      PROVE  PInv'
  BY <1>4, PReleaseShared, POnZero, PReleaseWeak, PLock
<1> QED  BY <1>1, <1>2, <1>3, <1>4 DEF Pointer!Next

LEMMA PInvariance == Pointer!Spec => []PInv
BY PInitially, PInductive, PTL DEF Pointer!Spec

(* What the run says of the pointers follows from the counts.                  *)
LEMMA PHolds == PInv => PointerHolds
<1> SUFFICES ASSUME PInv PROVE PointerHolds
  OBVIOUS
<1>1. Pointer!ObjectLives
  BY DEF PInv, PGone, Pointer!ObjectLives
<1>2. Closing = {} /\ strong = {} => \A t \in Callers : ptPc[t] \in {"out", "loop"}
  BY DEF Closing, PInv, PTyped
<1>3. Pointer!BlockLives
  <2>1. freed = 1 => strong = {} /\ weak = {} /\ Closing = {}
    BY DEF PInv, PGone
  <2>2. freed = 1 => Pointer!Idle /\ destroyed = 1
    BY <1>2, <2>1 DEF PInv, PGone, PPlaces, Pointer!Idle
  <2>3. freed \in {0, 1}
    BY DEF PInv, PGone
  <2> QED  BY <2>1, <2>2, <2>3 DEF Pointer!BlockLives
<1>4. Pointer!NothingLeaks
  BY DEF Closing, PInv, PGone, Pointer!NothingLeaks, Pointer!Idle
<1> QED  BY <1>1, <1>3, <1>4 DEF PointerHolds

-------------------------------------------------------------------------------
(* TimedMutex (Timer), for any set of threads: the invariant of the two kinds. *)
TTyped ==
  /\ count \in Nat /\ id \in Callers \union {Nothing}
  /\ tmPc \in [Callers -> {"out", "lock", "until", "lockWait", "untilWait", "notify"}]
  /\ late \in [Callers -> BOOLEAN] /\ depth \in [Callers -> Nat]

TOwned(p) ==
  /\ \A t, u \in Callers : depth[t] > 0 /\ depth[u] > 0 => t = u
  /\ \A t \in Callers : depth[t] > 0 => depth[t] = count
  /\ count > 0 => \E t \in Callers : depth[t] > 0
  /\ p = "recursive" => \A t \in Callers : id = t <=> depth[t] > 0
  /\ p = "timed" => id = Nothing

TWoken ==
  count = 0 /\ (\E t \in Callers : tmPc[t] \in {"lockWait", "untilWait"}) =>
    \E t \in Callers : tmPc[t] \in {"lock", "until", "notify"}

(* Who is in a call uses a mutex that is there; nobody holds one that is not;  *)
(* and unlock() of a timed_mutex has no step after its section.                *)
TAlive(p) ==
  /\ \A t \in Callers : tmPc[t] # "out" => alive
  /\ ~alive => count = 0
  /\ p = "timed" => \A t \in Callers : tmPc[t] # "notify"

TInv(p) == TTyped /\ TOwned(p) /\ TWoken /\ TAlive(p)

LEMMA TInitially == ASSUME NEW p \in Mutexes, Timer(p)!Init PROVE TInv(p)
<1>1. Nothing \notin Callers
  BY PartsAssumption DEF Timer!TimedMutexAssumption, Mutexes
<1> QED  BY <1>1 DEF Timer!Init, TInv, TTyped, TOwned, TWoken, TAlive

(* Thread t takes a free mutex, or its own once more, and leaves the call.     *)
LEMMA TTake ==
  ASSUME NEW p \in Mutexes, TInv(p), NEW t \in Callers, Timer(p)!Take(t),
         count = 0 \/ id = t, alive, UNCHANGED <<late, alive>>,
         UNCHANGED tmPc \/ tmPc' = [tmPc EXCEPT ![t] = "out"]
  PROVE  TInv(p)'
<1> USE DEF TInv
<1>0. Nothing \notin Callers
  BY PartsAssumption DEF Timer!TimedMutexAssumption, Mutexes
<1>1. /\ count' = count + 1 /\ depth' = [depth EXCEPT ![t] = @ + 1]
      /\ id' = IF p = "recursive" THEN t ELSE id
  BY DEF Timer!Take
<1>2. \A u \in Callers \ {t} : ~(depth[u] > 0)
  <2>1. CASE count = 0
    BY <2>1 DEF TOwned, TTyped
  <2>2. CASE id = t
    BY <1>0, <2>2 DEF TOwned, TTyped, Mutexes
  <2> QED  BY <2>1, <2>2
<1>3. depth[t] = count
  <2>1. CASE count = 0
    BY <2>1 DEF TOwned, TTyped
  <2>2. CASE id = t
    BY <1>0, <2>2 DEF TOwned, TTyped, Mutexes
  <2> QED  BY <2>1, <2>2
<1>4. TTyped'
  BY <1>1 DEF TTyped
<1>5. depth'[t] = count' /\ count' > 0 /\ \A u \in Callers \ {t} : ~(depth'[u] > 0)
  BY <1>1, <1>2, <1>3 DEF TTyped
<1>6. TOwned(p)'
  BY <1>0, <1>1, <1>5 DEF TOwned, Mutexes
<1>7. TWoken'
  BY <1>5 DEF TWoken
<1>8. TAlive(p)'
  BY DEF TAlive, TTyped
<1> QED  BY <1>4, <1>6, <1>7, <1>8

(* Steps that leave the mutex to its owner.                                    *)
LEMMA TStays ==
  ASSUME NEW p \in Mutexes, TInv(p), UNCHANGED <<count, id, depth, alive>>,
         late' \in [Callers -> BOOLEAN],
         tmPc' \in [Callers -> {"out", "lock", "until", "lockWait", "untilWait", "notify"}],
         TWoken', alive \/ UNCHANGED tmPc,
         \A t \in Callers : tmPc'[t] = "notify" => tmPc[t] = "notify"
  PROVE  TInv(p)'
BY DEF TInv, TTyped, TOwned, TAlive

LEMMA TCalls ==
  ASSUME NEW p \in Mutexes, TInv(p), NEW t \in Callers,
         Timer(p)!Call(t) \/ Timer(p)!Deadline(t) \/ Timer(p)!Return(t) \/ Timer(p)!TryLock(t)
  PROVE  TInv(p)'
<1>1. CASE Timer(p)!Call(t)
  <2>1. /\ alive /\ tmPc[t] = "out" /\ UNCHANGED <<count, id, depth, alive>>
        /\ late' = [late EXCEPT ![t] = FALSE]
        /\ tmPc' = [tmPc EXCEPT ![t] = "lock"] \/ tmPc' = [tmPc EXCEPT ![t] = "until"]
    BY <1>1 DEF Timer!Call, Timer!Goto
  <2>2. TWoken'
    BY <2>1 DEF TInv, TWoken, TTyped
  <2> QED  BY <2>1, <2>2, TStays DEF TInv, TTyped
<1>2. CASE Timer(p)!Deadline(t)
  <2>1. /\ late' = [late EXCEPT ![t] = TRUE] /\ UNCHANGED <<count, id, tmPc, depth, alive>>
    BY <1>2 DEF Timer!Deadline
  <2> QED  BY <2>1, TStays DEF TInv, TTyped, TWoken
<1>3. CASE Timer(p)!Return(t)
  <2>1. /\ tmPc[t] \in {"lockWait", "untilWait"} /\ UNCHANGED <<count, id, late, depth, alive>>
        /\ tmPc' = [tmPc EXCEPT ![t] = "lock"] \/ tmPc' = [tmPc EXCEPT ![t] = "until"]
    BY <1>3 DEF Timer!Return, Timer!Asleep, Timer!Awake, Timer!Goto
  <2>2. TWoken'
    BY <2>1 DEF TInv, TWoken, TTyped
  <2>3. alive
    BY <2>1 DEF TInv, TAlive
  <2> QED  BY <2>1, <2>2, <2>3, TStays DEF TInv, TTyped
<1>4. CASE Timer(p)!TryLock(t)
  <2>1. Timer(p)!Take(t) /\ UNCHANGED <<tmPc, late, alive>>
    BY <1>4 DEF Timer!TryLock
  <2>2. alive /\ (count = 0 \/ id = t)
    BY <1>4 DEF Timer!TryLock
  <2> QED  BY <2>1, <2>2, TTake
<1> QED  BY <1>1, <1>2, <1>3, <1>4

LEMMA TLoops ==
  ASSUME NEW p \in Mutexes, TInv(p), NEW t \in Callers,
         Timer(p)!Again(t) \/ Timer(p)!LockLoop(t) \/ Timer(p)!UntilLoop(t)
  PROVE  TInv(p)'
<1>1. /\ tmPc[t] \in {"lock", "until"} /\ UNCHANGED <<late, alive>>
      /\ \/ Timer(p)!Take(t) /\ (count = 0 \/ id = t) /\ tmPc' = [tmPc EXCEPT ![t] = "out"]
         \/ /\ UNCHANGED <<count, id, depth>>
            /\ \/ tmPc' = [tmPc EXCEPT ![t] = "out"] /\ (count # 0 \/ id = t)
               \/ tmPc' = [tmPc EXCEPT ![t] = "lockWait"] /\ count # 0
               \/ tmPc' = [tmPc EXCEPT ![t] = "untilWait"] /\ count # 0
  BY DEF Timer!Again, Timer!LockLoop, Timer!UntilLoop, Timer!Goto
<1>2. alive
  BY <1>1 DEF TInv, TAlive
<1>3. id = t => count # 0
  <2>1. Nothing \notin Callers
    BY PartsAssumption DEF Timer!TimedMutexAssumption, Mutexes
  <2> QED  BY <2>1 DEF TInv, TOwned, TTyped, Mutexes
<1>4. CASE Timer(p)!Take(t) /\ (count = 0 \/ id = t) /\ tmPc' = [tmPc EXCEPT ![t] = "out"]
  BY <1>1, <1>2, <1>4, TTake
<1>5. CASE /\ UNCHANGED <<count, id, depth>> /\ count # 0
           /\ \E l \in {"out", "lockWait", "untilWait"} : tmPc' = [tmPc EXCEPT ![t] = l]
  <2>1. TWoken'
    BY <1>5 DEF TWoken
  <2>2. /\ late' \in [Callers -> BOOLEAN]
        /\ tmPc' \in [Callers -> {"out", "lock", "until", "lockWait", "untilWait", "notify"}]
        /\ \A u \in Callers : tmPc'[u] = "notify" => tmPc[u] = "notify"
    BY <1>1, <1>5 DEF TInv, TTyped
  <2> QED  BY <1>1, <1>2, <1>5, <2>1, <2>2, TStays
<1> QED  BY <1>1, <1>3, <1>4, <1>5

(* unlock() wakes a thread that sleeps, or will.                               *)
LEMMA TWakes ==
  ASSUME NEW p \in Mutexes, TTyped, NEW t \in Callers, tmPc[t] \in {"out", "notify"},
         Timer(p)!NotifyOne(t, "out")
  PROVE  /\ tmPc' \in [Callers -> {"out", "lock", "until", "lockWait", "untilWait", "notify"}]
         /\ TWoken'
         /\ \A u \in Callers : tmPc'[u] = "notify" => tmPc[u] = "notify"
         /\ \A u \in Callers : tmPc'[u] # "out" => tmPc[u] # "out"
<1>1. CASE \E u \in Callers : tmPc[u] \in {"lockWait", "untilWait"}
  <2>1. PICK u \in Callers : /\ tmPc[u] \in {"lockWait", "untilWait"}
                             /\ tmPc' = [tmPc EXCEPT ![t] = "out", ![u] = Timer(p)!Awake(tmPc[u])]
    BY <1>1 DEF Timer!NotifyOne, Timer!Asleep
  <2>2. tmPc'[u] \in {"lock", "until"} /\ u # t
    BY <2>1 DEF TTyped, Timer!Awake
  <2> QED  BY <2>1, <2>2 DEF TTyped, TWoken, Timer!Awake
<1>2. CASE ~\E u \in Callers : tmPc[u] \in {"lockWait", "untilWait"}
  <2>1. tmPc' = [tmPc EXCEPT ![t] = "out"]
    BY <1>2 DEF Timer!NotifyOne, Timer!Asleep, Timer!Goto
  <2> QED  BY <1>2, <2>1 DEF TTyped, TWoken
<1> QED  BY <1>1, <1>2

LEMMA TUnlock ==
  ASSUME NEW p \in Mutexes, TInv(p), NEW t \in Callers, Timer(p)!Unlock(t)
  PROVE  TInv(p)'
<1> USE DEF TInv
<1>0. Nothing \notin Callers
  BY PartsAssumption DEF Timer!TimedMutexAssumption, Mutexes
<1>1. /\ tmPc[t] = "out" /\ depth[t] > 0 /\ count' = count - 1
      /\ id' = IF count = 1 THEN Nothing ELSE id
      /\ depth' = [depth EXCEPT ![t] = @ - 1] /\ UNCHANGED <<late, alive>>
      /\ \/ count > 1 /\ UNCHANGED tmPc
         \/ count = 1 /\ p = "recursive" /\ tmPc' = [tmPc EXCEPT ![t] = "notify"]
         \/ count = 1 /\ p # "recursive" /\ Timer(p)!NotifyOne(t, "out")
  BY DEF Timer!Unlock, Timer!Goto
<1>2. depth[t] = count /\ count \in Nat \ {0} /\ \A u \in Callers \ {t} : ~(depth[u] > 0)
  BY <1>1 DEF TOwned, TTyped
<1>3. depth'[t] = count' /\ count' \in Nat /\ \A u \in Callers \ {t} : ~(depth'[u] > 0)
  BY <1>1, <1>2 DEF TTyped
<1>4. count' > 0 <=> count # 1
  BY <1>1, <1>2
<1>5. TOwned(p)'
  <2>1. p = "recursive" => id = t
    BY <1>1 DEF TOwned
  <2>2. p = "recursive" => \A u \in Callers : id' = u <=> depth'[u] > 0
    BY <1>0, <1>1, <1>3, <1>4, <2>1
  <2>3. p = "timed" => id' = Nothing
    BY <1>1 DEF TOwned
  <2>4. \A u, v \in Callers : depth'[u] > 0 /\ depth'[v] > 0 => u = v
    BY <1>3
  <2>5. \A u \in Callers : depth'[u] > 0 => depth'[u] = count'
    BY <1>3
  <2>6. count' > 0 => \E u \in Callers : depth'[u] > 0
    BY <1>3
  <2> QED  BY <2>2, <2>3, <2>4, <2>5, <2>6 DEF TOwned
<1>6. alive
  BY <1>2 DEF TAlive
<1>7. /\ TWoken' /\ TAlive(p)'
      /\ tmPc' \in [Callers -> {"out", "lock", "until", "lockWait", "untilWait", "notify"}]
  <2>1. CASE count > 1 /\ UNCHANGED tmPc
    BY <1>1, <1>2, <1>6, <2>1 DEF TWoken, TAlive, TTyped
  <2>2. CASE p = "recursive" /\ tmPc' = [tmPc EXCEPT ![t] = "notify"]
    BY <1>1, <1>6, <2>2 DEF TWoken, TAlive, TTyped
  <2>3. CASE p # "recursive" /\ Timer(p)!NotifyOne(t, "out")
    BY <1>1, <1>6, <2>3, TWakes DEF TAlive
  <2> QED  BY <1>1, <2>1, <2>2, <2>3
<1>8. TTyped'
  BY <1>1, <1>2, <1>3, <1>7 DEF TTyped
<1> QED  BY <1>5, <1>7, <1>8

LEMMA TEnds ==
  ASSUME NEW p \in Mutexes, TInv(p), NEW t \in Callers, Timer(p)!Notify(t) \/ Timer(p)!Destroy(t)
  PROVE  TInv(p)'
<1>1. CASE Timer(p)!Notify(t)
  <2>1. /\ tmPc[t] = "notify" /\ Timer(p)!NotifyOne(t, "out")
        /\ UNCHANGED <<count, id, late, depth, alive>>
    BY <1>1 DEF Timer!Notify
  <2>2. alive
    BY <2>1 DEF TInv, TAlive
  <2> QED  BY <2>1, <2>2, TWakes, TStays DEF TInv, TTyped
<1>2. CASE Timer(p)!Destroy(t)
  <2>1. /\ count = 0 /\ alive' = FALSE /\ UNCHANGED <<count, id, tmPc, late, depth>>
        /\ \A u \in Callers : tmPc[u] = "out" \/ (p # "recursive" /\ tmPc[u] = "notify")
    BY <1>2 DEF Timer!Destroy
  <2>2. \A u \in Callers : tmPc[u] = "out"
    BY <2>1 DEF TInv, TAlive, Mutexes
  <2> QED  BY <2>1, <2>2 DEF TInv, TTyped, TOwned, TWoken, TAlive
<1> QED  BY <1>1, <1>2

LEMMA TInductive ==
  ASSUME NEW p \in Mutexes, TInv(p), [Timer(p)!Next]_tmVars PROVE TInv(p)'
<1>1. CASE UNCHANGED tmVars
  BY <1>1 DEF tmVars, TInv, TTyped, TOwned, TWoken, TAlive
<1>2. CASE Timer(p)!Done
  BY <1>1, <1>2 DEF Timer!Done, Timer!vars, tmVars
<1>3. ASSUME NEW t \in Callers,
             \/ Timer(p)!Call(t) \/ Timer(p)!Deadline(t) \/ Timer(p)!Again(t)
             \/ Timer(p)!LockLoop(t) \/ Timer(p)!UntilLoop(t) \/ Timer(p)!Return(t)
             \/ Timer(p)!TryLock(t) \/ Timer(p)!Unlock(t) \/ Timer(p)!Notify(t)
             \/ Timer(p)!Destroy(t)
      PROVE  TInv(p)'
  BY <1>3, TCalls, TLoops, TUnlock, TEnds
<1> QED  BY <1>1, <1>2, <1>3 DEF Timer!Next

LEMMA THolds ==
  ASSUME NEW p \in Mutexes, TInv(p)
  PROVE  Timer(p)!OwnerHolds /\ Timer(p)!NoLostWakeup /\ Timer(p)!UsedAlive
BY DEF TInv, TOwned, TWoken, TAlive, Timer!OwnerHolds, Timer!NoLostWakeup, Timer!Asleep,
       Timer!UsedAlive

-------------------------------------------------------------------------------
(* SharedState (Future), for any set of threads.                               *)
Labels == {"none", "start", "attach", "out", "run", "exit", "broken", "get", "execute", "read",
           "waiting", "release", "zero", "zeroWaiting", "done"}
Zero == {"zero", "zeroWaiting"}

(* Where an actor can be, and where it has no reference.                       *)
Places(p, a) ==
  IF a = "owner" THEN CASE p = "async"   -> {"start", "attach", "release", "done"} \union Zero
                        [] p = "promise" -> {"out", "broken", "release", "done"}
                        [] OTHER         -> {"out", "release", "done"}
  ELSE IF a \in SettersOf(p)
       THEN IF p = "async" THEN {"none", "run", "done"} ELSE {"out", "exit", "release", "done"}
  ELSE CASE p = "async"    -> {"none", "out", "get", "waiting", "release", "done"} \union Zero
         [] p = "deferred" -> {"out", "get", "waiting", "execute", "read", "release", "done"}
         [] OTHER          -> {"out", "get", "waiting", "release", "done"}

Away(p, a) == IF a \in SettersOf(p) THEN {"none", "out", "run", "done"} ELSE {"none", "done"} \union Zero

STyped(p) ==
  /\ ready \in BOOLEAN /\ deferred \in BOOLEAN /\ deleted \in BOOLEAN /\ runs \in Nat
  /\ result \in (Future(p)!Actors \X {"value", "exception"}) \union {Nothing}
  /\ stPc \in [Future(p)!Actors -> Labels]
  /\ got \in [WaitersOf(p) -> (Future(p)!Actors \X {"value", "exception"}) \union {Nothing}]

SPlaced(p) ==
  /\ \A a \in Future(p)!Actors : stPc[a] \in Places(p, a)
  /\ holders = {a \in Future(p)!Actors : stPc[a] \notin Away(p, a)}

(* A promise is there while threads use it; async()'s thread starts before the *)
(* futures are made and is there until the state is ready.                     *)
SOrdered(p) ==
  /\ (\E s \in SettersOf(p) : stPc[s] = "out") => stPc["owner"] = "out"
  /\ p = "async" => /\ stPc[Launched] = "none" <=> stPc["owner"] = "start"
                    /\ stPc[Launched] \in {"none", "run"} => ~ready
                    /\ \A w \in WaitersOf(p) : stPc[w] = "none" <=> stPc["owner"] \in {"start", "attach"}

(* One deletes the state, when nobody has a reference.                         *)
SDeleted(p) ==
  /\ deleted => /\ holders = {}
                /\ \A a \in Future(p)!Actors : stPc[a] \in {"done", "none"}
  /\ holders = {} => deleted \/ \E a \in Future(p)!Actors : stPc[a] \in Zero
  /\ \A a \in Future(p)!Actors : stPc[a] \in Zero =>
        holders = {} /\ \A b \in Future(p)!Actors : stPc[b] \in Zero => a = b

SKept(p) ==
  /\ ready => result # Nothing
  /\ \A s \in SettersOf(p) : stPc[s] = "exit" => result # Nothing
  /\ \A w \in WaitersOf(p) : /\ stPc[w] = "read" => ready
                             /\ got[w] # Nothing => stPc[w] \in {"release", "done"} \union Zero

(* The deferred function has run when the state is ready.                      *)
SRunOnce(p) ==
  /\ deferred => p = "deferred"
  /\ p = "deferred" =>
       /\ runs = IF ready THEN 1 ELSE 0
       /\ ready <=> result # Nothing
       /\ deferred => ~ready
       /\ \A v \in WaitersOf(p) : stPc[v] = "execute" =>
             ~ready /\ ~deferred /\ \A w \in WaitersOf(p) : stPc[w] = "execute" => v = w
       /\ \A w \in WaitersOf(p) : got[w] # Nothing => ready

SInv(p) == STyped(p) /\ SPlaced(p) /\ SOrdered(p) /\ SDeleted(p) /\ SKept(p) /\ SRunOnce(p)

(* What the assumptions say of a provider.                                     *)
LEMMA SActors ==
  ASSUME NEW p \in Providers
  PROVE  /\ "owner" \in Future(p)!Actors /\ "owner" \notin SettersOf(p) \union WaitersOf(p)
         /\ SettersOf(p) \subseteq Future(p)!Actors /\ WaitersOf(p) \subseteq Future(p)!Actors
         /\ SettersOf(p) \intersect WaitersOf(p) = {}
         /\ Future(p)!Actors = SettersOf(p) \union WaitersOf(p) \union {"owner"}
         /\ Nothing \notin Future(p)!Actors \X {"value", "exception"}
         /\ p = "async" => SettersOf(p) = {Launched}
         /\ p = "deferred" => SettersOf(p) = {}
<1>1. Future(p)!SharedStateAssumption
  BY PartsAssumption
<1> QED  BY <1>1 DEF Future!SharedStateAssumption, Future!Actors, SettersOf

LEMMA SInitially == ASSUME NEW p \in Providers, Future(p)!Init PROVE SInv(p)
<1> USE SActors
<1>0. p \in {"promise", "deferred", "async"}
  BY DEF Providers
<1>1. /\ ready = FALSE /\ deferred = (p = "deferred") /\ result = Nothing
      /\ holders = {"owner"} \union IF p = "async" THEN {} ELSE WaitersOf(p)
      /\ deleted = FALSE /\ runs = 0 /\ got = [w \in WaitersOf(p) |-> Nothing]
      /\ DOMAIN stPc = Future(p)!Actors /\ stPc = [a \in Future(p)!Actors |-> stPc[a]]
      /\ stPc["owner"] = IF p = "async" THEN "start" ELSE "out"
      /\ \A s \in SettersOf(p) : stPc[s] = IF p = "promise" THEN "out" ELSE "none"
      /\ \A w \in WaitersOf(p) : stPc[w] = IF p = "async" THEN "none" ELSE "out"
  BY <1>0 DEF Future!Init
<1>2. STyped(p)
  BY <1>0, <1>1 DEF STyped, Labels
<1>3. SPlaced(p)
  BY <1>0, <1>1 DEF SPlaced, Places, Away, Zero
<1>4. SOrdered(p) /\ SDeleted(p) /\ SKept(p)
  BY <1>0, <1>1 DEF SOrdered, SDeleted, SKept, Zero
<1>5. SRunOnce(p)
  <2>1. deferred => p = "deferred"
    BY <1>1, Zenon
  <2> QED  BY <1>0, <1>1, <2>1 DEF SRunOnce
<1> QED  BY <1>2, <1>3, <1>4, <1>5 DEF SInv

(* A step of actor a, who goes to l; those who wait may be woken.              *)
Moves(p, a, l) ==
  /\ stPc' \in [Future(p)!Actors -> Labels] /\ stPc'[a] = l
  /\ \A b \in Future(p)!Actors \ {a} : \/ stPc'[b] = stPc[b]
                                       \/ stPc[b] = "waiting" /\ stPc'[b] = "get"
                                       \/ stPc[b] = "zeroWaiting" /\ stPc'[b] = "zero"

LEMMA GotoMoves ==
  ASSUME NEW p \in Providers, STyped(p), NEW a \in Future(p)!Actors, NEW l \in Labels, Future(p)!Goto(a, l)
  PROVE  Moves(p, a, l) /\ \A b \in Future(p)!Actors \ {a} : stPc'[b] = stPc[b]
BY DEF STyped, Future!Goto, Moves

LEMMA NotifyMoves ==
  ASSUME NEW p \in Providers, STyped(p), NEW a \in Future(p)!Actors, NEW l \in Labels, Future(p)!NotifyAll(a, l)
  PROVE  Moves(p, a, l)
<1>1. /\ DOMAIN stPc' = Future(p)!Actors /\ stPc' = [b \in Future(p)!Actors |-> stPc'[b]]
      /\ \A b \in Future(p)!Actors : stPc'[b] = CASE b = a -> l
                            [] b # a /\ stPc[b] = "waiting" -> "get"
                            [] b # a /\ stPc[b] = "zeroWaiting" -> "zero"
                            [] OTHER -> stPc[b]
  BY DEF Future!NotifyAll
<1>2. \A b \in Future(p)!Actors : stPc'[b] \in Labels
  BY <1>1 DEF STyped, Labels
<1>3. stPc' \in [Future(p)!Actors -> Labels]
  BY <1>1, <1>2
<1>4. stPc'[a] = l
  BY <1>1
<1>5. ASSUME NEW b \in Future(p)!Actors \ {a}
      PROVE  \/ stPc'[b] = stPc[b]
             \/ stPc[b] = "waiting" /\ stPc'[b] = "get"
             \/ stPc[b] = "zeroWaiting" /\ stPc'[b] = "zero"
  BY <1>1
<1> QED  BY <1>3, <1>4, <1>5 DEF Moves

(* A step between two places, with a reference before and after or without one *)
(* before and after, leaves the order of things as it was.                     *)
LEMMA SMoves ==
  ASSUME NEW p \in Providers, SInv(p), NEW a \in Future(p)!Actors, NEW l \in Places(p, a), Moves(p, a, l),
         stPc[a] \in Away(p, a) <=> l \in Away(p, a),
         stPc[a] \notin Zero \union {"none", "start", "attach", "done"},
         l \notin Zero \union {"none", "start", "attach", "out", "run"},
         a = "owner" => \A s \in SettersOf(p) : stPc[s] # "out",
         UNCHANGED <<holders, deleted>>, ready' \in BOOLEAN,
         ready' = ready \/ a = Launched \/ p # "async"
  PROVE  SPlaced(p)' /\ SOrdered(p)' /\ SDeleted(p)'
<1> USE SActors DEF SInv
<1>0. p \in {"promise", "deferred", "async"}
  BY DEF Providers
<1>1. \A b \in Future(p)!Actors :
        /\ stPc'[b] \in Places(p, b)
        /\ stPc'[b] \in Away(p, b) <=> stPc[b] \in Away(p, b)
        /\ stPc'[b] \in Zero <=> stPc[b] \in Zero
        /\ b # a => \A m \in {"none", "start", "attach", "out", "run", "done"} : stPc'[b] = m <=> stPc[b] = m
  BY <1>0 DEF Moves, SPlaced, Places, Away, Zero
<1>2. SPlaced(p)'
  BY <1>1 DEF SPlaced
<1>3. SOrdered(p)'
  BY <1>0, <1>1 DEF SOrdered, Moves, Zero
<1>4. SDeleted(p)'
  BY <1>1 DEF SDeleted, SPlaced
<1> QED  BY <1>2, <1>3, <1>4

(* set_value() and set_exception() leave a result, and the first one.          *)
LEMMA SSet ==
  ASSUME NEW p \in Providers, STyped(p), NEW a \in Future(p)!Actors, NEW l \in Labels, Future(p)!Set(a, l)
  PROVE  /\ Moves(p, a, l)
         /\ result' \in Future(p)!Actors \X {"value", "exception"} /\ result' # Nothing
         /\ result # Nothing => UNCHANGED <<ready, result>>
         /\ result = Nothing => ready' = TRUE
         /\ ready' \in BOOLEAN /\ (ready => ready')
<1> USE SActors
<1>1. CASE result # Nothing
  <2>1. Future(p)!Goto(a, l) /\ UNCHANGED <<ready, result>>
    BY <1>1 DEF Future!Set
  <2> QED  BY <1>1, <2>1, GotoMoves DEF STyped
<1>2. CASE result = Nothing
  <2>1. /\ result' \in {a} \X {"value", "exception"} /\ ready' = TRUE
        /\ Future(p)!NotifyAll(a, l)
    BY <1>2 DEF Future!Set
  <2>2. result' \in Future(p)!Actors \X {"value", "exception"}
    BY <2>1
  <2> QED  BY <1>2, <2>1, <2>2, NotifyMoves
<1> QED  BY <1>1, <1>2

LEMMA SSetNow ==
  ASSUME NEW p \in Providers, SInv(p), NEW s \in SettersOf(p), Future(p)!SetNow(s)
  PROVE  SInv(p)'
<1> USE SActors DEF SInv
<1>1. /\ p = "promise" /\ stPc[s] = "out" /\ Future(p)!Set(s, "done")
      /\ UNCHANGED <<deferred, holders, deleted, atExit, got, runs>>
  BY DEF Future!SetNow
<1>2. /\ Moves(p, s, "done") /\ result' \in Future(p)!Actors \X {"value", "exception"}
      /\ result' # Nothing /\ ready' \in BOOLEAN
  BY <1>1, SSet DEF Labels
<1>3. SPlaced(p)' /\ SOrdered(p)' /\ SDeleted(p)'
  BY <1>1, <1>2, SMoves DEF Places, Away, Zero
<1>4. STyped(p)'
  BY <1>1, <1>2 DEF STyped, Moves
<1>5. SKept(p)'
  BY <1>1, <1>2, SSet DEF SKept, Moves, Labels, Zero
<1> QED  BY <1>1, <1>3, <1>4, <1>5 DEF SRunOnce

LEMMA SSetAtExit ==
  ASSUME NEW p \in Providers, SInv(p), NEW s \in SettersOf(p), Future(p)!SetAtExit(s)
  PROVE  SInv(p)'
<1> USE SActors DEF SInv
<1>1. /\ p = "promise" /\ stPc[s] = "out" /\ result = Nothing
      /\ result' \in {s} \X {"value", "exception"} /\ holders' = holders \union {s}
      /\ Future(p)!Goto(s, "exit") /\ UNCHANGED <<ready, deferred, deleted, got, runs>>
  BY DEF Future!SetAtExit
<1>2. /\ Moves(p, s, "exit") /\ \A b \in Future(p)!Actors \ {s} : stPc'[b] = stPc[b]
      /\ result' \in Future(p)!Actors \X {"value", "exception"} /\ result' # Nothing
  BY <1>1, GotoMoves DEF Labels
<1>3. stPc["owner"] = "out" /\ "owner" \in holders
  BY <1>1 DEF SOrdered, SPlaced, Away, Zero
<1>4. STyped(p)'
  BY <1>1, <1>2 DEF STyped, Moves
<1>5. SPlaced(p)'
  BY <1>1, <1>2 DEF SPlaced, Moves, Places, Away, Zero
<1>6. SOrdered(p)'
  BY <1>1, <1>2, <1>3 DEF SOrdered, Moves
<1>7. SDeleted(p)'
  BY <1>1, <1>2, <1>3 DEF SDeleted, Moves, Zero
<1>8. SKept(p)'
  BY <1>1, <1>2 DEF SKept, Moves
<1> QED  BY <1>1, <1>4, <1>5, <1>6, <1>7, <1>8 DEF SRunOnce

LEMMA SSkip ==
  ASSUME NEW p \in Providers, SInv(p), NEW s \in SettersOf(p), Future(p)!Skip(s)
  PROVE  SInv(p)'
<1> USE SActors DEF SInv
<1>1. /\ p = "promise" /\ stPc[s] = "out" /\ Future(p)!Goto(s, "done")
      /\ UNCHANGED <<ready, deferred, result, holders, deleted, atExit, got, runs>>
  BY DEF Future!Skip
<1>2. Moves(p, s, "done")
  BY <1>1, GotoMoves DEF Labels
<1>3. SPlaced(p)' /\ SOrdered(p)' /\ SDeleted(p)'
  BY <1>1, <1>2, SMoves DEF Places, Away, Zero, STyped
<1>4. STyped(p)' /\ SKept(p)'
  BY <1>1, <1>2 DEF STyped, SKept, Moves, Zero
<1> QED  BY <1>1, <1>3, <1>4 DEF SRunOnce

LEMMA SMakeReady ==
  ASSUME NEW p \in Providers, SInv(p), NEW s \in SettersOf(p), Future(p)!MakeReady(s)
  PROVE  SInv(p)'
<1> USE SActors DEF SInv
<1>1. /\ stPc[s] = "exit" /\ ready' = TRUE /\ Future(p)!NotifyAll(s, "release")
      /\ UNCHANGED <<deferred, result, holders, deleted, atExit, got, runs>>
  BY DEF Future!MakeReady
<1>2. Moves(p, s, "release")
  BY <1>1, NotifyMoves DEF Labels
<1>3. p = "promise"
  BY <1>1 DEF SPlaced, Places, Providers
<1>4. SPlaced(p)' /\ SOrdered(p)' /\ SDeleted(p)'
  BY <1>1, <1>2, <1>3, SMoves DEF Places, Away, Zero
<1>5. STyped(p)'
  BY <1>1, <1>2 DEF STyped, Moves
<1>6. SKept(p)'
  BY <1>1, <1>2 DEF SKept, Moves, Zero
<1> QED  BY <1>1, <1>3, <1>4, <1>5, <1>6 DEF SRunOnce

LEMMA SAsyncRun ==
  ASSUME NEW p \in Providers, SInv(p), NEW s \in SettersOf(p), Future(p)!AsyncRun(s)
  PROVE  SInv(p)'
<1> USE SActors DEF SInv
<1>1. /\ stPc[s] = "run" /\ Future(p)!Set(s, "done")
      /\ UNCHANGED <<deferred, holders, deleted, atExit, got, runs>>
  BY DEF Future!AsyncRun
<1>2. /\ Moves(p, s, "done") /\ result' \in Future(p)!Actors \X {"value", "exception"}
      /\ result' # Nothing /\ ready' \in BOOLEAN
  BY <1>1, SSet DEF Labels
<1>3. p = "async" /\ s = Launched
  BY <1>1 DEF SPlaced, Places, Providers
<1>4. SPlaced(p)' /\ SOrdered(p)' /\ SDeleted(p)'
  BY <1>1, <1>2, <1>3, SMoves DEF Places, Away, Zero
<1>5. STyped(p)'
  BY <1>1, <1>2 DEF STyped, Moves
<1>6. SKept(p)'
  BY <1>1, <1>2, SSet DEF SKept, Moves, Labels, Zero
<1> QED  BY <1>1, <1>3, <1>4, <1>5, <1>6 DEF SRunOnce

(* The end of a promise, or of what makes a future.                            *)
LEMMA SOwner ==
  ASSUME NEW p \in Providers, SInv(p), Future(p)!Break \/ Future(p)!Broken \/ Future(p)!DeferredMade
  PROVE  SInv(p)'
<1> USE SActors DEF SInv
<1>1. CASE Future(p)!Break \/ Future(p)!DeferredMade
  <2>1. /\ stPc["owner"] = "out" /\ p # "async"
        /\ p = "promise" => \A s \in SettersOf(p) : stPc[s] # "out"
        /\ \/ p = "promise" /\ Future(p)!Goto("owner", "broken")
           \/ Future(p)!Goto("owner", "release")
        /\ UNCHANGED <<ready, deferred, result, holders, deleted, atExit, got, runs>>
    BY <1>1 DEF Future!Break, Future!DeferredMade
  <2>2. PICK l \in {"broken", "release"} : Moves(p, "owner", l) /\ (l = "broken" => p = "promise")
    BY <2>1, GotoMoves DEF Labels
  <2>3. SPlaced(p)' /\ SOrdered(p)' /\ SDeleted(p)'
    BY <2>1, <2>2, SMoves DEF Places, Away, Zero, STyped, Providers
  <2>4. STyped(p)' /\ SKept(p)'
    BY <2>1, <2>2 DEF STyped, SKept, Moves, Zero
  <2>5. SRunOnce(p)'
    BY <2>1, <2>2 DEF SRunOnce, Moves
  <2> QED  BY <2>3, <2>4, <2>5
<1>2. CASE Future(p)!Broken
  <2>1. /\ stPc["owner"] = "broken" /\ UNCHANGED <<deferred, holders, deleted, atExit, got, runs>>
        /\ \/ result # Nothing /\ Future(p)!Goto("owner", "release") /\ UNCHANGED <<ready, result>>
           \/ /\ result = Nothing /\ result' = <<"owner", "exception">> /\ ready' = TRUE
              /\ Future(p)!NotifyAll("owner", "release")
    BY <1>2 DEF Future!Broken
  <2>2. p = "promise"
    <3>1. stPc["owner"] \in Places(p, "owner")
      BY DEF SPlaced
    <3> QED  BY <2>1, <3>1 DEF Places, Zero, Providers
  <2>3. Moves(p, "owner", "release")
    BY <2>1, GotoMoves, NotifyMoves DEF Labels
  <2>4. result' \in Future(p)!Actors \X {"value", "exception"} /\ result' # Nothing /\ ready' \in BOOLEAN
    <3>1. <<"owner", "exception">> \in Future(p)!Actors \X {"value", "exception"}
      OBVIOUS
    <3> QED  BY <2>1, <3>1 DEF STyped
  <2>5. SPlaced(p)' /\ SOrdered(p)' /\ SDeleted(p)'
    BY <2>1, <2>2, <2>3, <2>4, SMoves DEF Places, Away, Zero, SOrdered
  <2>6. STyped(p)'
    BY <2>1, <2>3, <2>4 DEF STyped, Moves
  <2>7. SKept(p)'
    BY <2>1, <2>2, <2>3, <2>4 DEF SKept, Moves, Zero
  <2> QED  BY <2>1, <2>2, <2>5, <2>6, <2>7 DEF SRunOnce
<1> QED  BY <1>1, <1>2

(* async() starts its thread, and then makes the futures.                      *)
(* async() starts its thread, and then makes the futures.                      *)
LEMMA SStart ==
  ASSUME NEW p \in Providers, SInv(p), Future(p)!Start \/ Future(p)!Attach
  PROVE  SInv(p)'
<1> USE SActors DEF SInv
<1>0. p = "async"
  <2>1. stPc["owner"] \in Places(p, "owner") /\ stPc["owner"] \in {"start", "attach"}
    BY DEF SPlaced, Future!Start, Future!Attach
  <2> QED  BY <2>1 DEF Places, Providers
<1>1. stPc["owner"] \in {"start", "attach"} /\ "owner" \in holders /\ ~deleted
  BY DEF SPlaced, SDeleted, Away, Zero, Future!Start, Future!Attach
<1>2. \A a \in Future(p)!Actors : stPc[a] \notin Zero
  BY <1>1 DEF SDeleted
<1>3. CASE Future(p)!Start
  <2>1. /\ stPc["owner"] = "start" /\ stPc' \in [Future(p)!Actors -> Labels]
        /\ stPc'["owner"] = "attach" /\ stPc'[Launched] = "run"
        /\ \A w \in WaitersOf(p) : stPc'[w] = stPc[w]
        /\ UNCHANGED <<ready, deferred, result, holders, deleted, got, runs>>
    BY <1>0, <1>3 DEF Future!Start, STyped, Labels
  <2>2. stPc[Launched] = "none" /\ ~ready
    BY <1>0, <2>1 DEF SOrdered
  <2>3. SPlaced(p)'
    BY <1>0, <2>1, <2>2 DEF SPlaced, Places, Away, Zero
  <2>4. STyped(p)' /\ SOrdered(p)' /\ SKept(p)'
    BY <1>0, <2>1, <2>2 DEF STyped, SOrdered, SKept
  <2>5. SDeleted(p)'
    BY <1>0, <1>1, <1>2, <2>1 DEF SDeleted, Zero
  <2> QED  BY <1>0, <2>1, <2>3, <2>4, <2>5 DEF SRunOnce
<1>4. CASE Future(p)!Attach
  <2>1. /\ stPc["owner"] = "attach" /\ stPc' \in [Future(p)!Actors -> Labels]
        /\ stPc'["owner"] = "release" /\ stPc'[Launched] = stPc[Launched]
        /\ \A w \in WaitersOf(p) : stPc'[w] = "out"
        /\ holders' = holders \union WaitersOf(p)
        /\ UNCHANGED <<ready, deferred, result, deleted, got, runs>>
    BY <1>0, <1>4 DEF Future!Attach, STyped, Labels
  <2>2. \A w \in WaitersOf(p) : stPc[w] = "none"
    BY <1>0, <2>1 DEF SOrdered
  <2>3. SPlaced(p)'
    BY <1>0, <2>1, <2>2 DEF SPlaced, Places, Away, Zero
  <2>4. STyped(p)' /\ SKept(p)'
    <3>1. \A w \in WaitersOf(p) : got[w] = Nothing
      BY <2>2 DEF SKept, Zero
    <3>2. \A s \in SettersOf(p) : stPc'[s] = stPc[s]
      BY <1>0, <2>1
    <3> QED  BY <2>1, <3>1, <3>2 DEF STyped, SKept
  <2>5. SOrdered(p)' /\ SDeleted(p)'
    <3>1. stPc'[Launched] # "out" /\ stPc'[Launched] # "none"
      BY <1>0, <2>1 DEF SOrdered
    <3>2. SOrdered(p)'
      BY <1>0, <2>1, <3>1 DEF SOrdered
    <3>3. SDeleted(p)'
      BY <1>0, <1>1, <1>2, <2>1 DEF SDeleted, Zero
    <3> QED  BY <3>2, <3>3
  <2> QED  BY <1>0, <2>1, <2>3, <2>4, <2>5 DEF SRunOnce
<1> QED  BY <1>3, <1>4

(* The calls of a thread with a future.                                        *)
LEMMA SCalls ==
  ASSUME NEW p \in Providers, SInv(p), NEW w \in Future(p)!Actors,
         Future(p)!Call(w) \/ Future(p)!Spurious(w)
  PROVE  SInv(p)'
<1> USE SActors DEF SInv
<1>1. /\ UNCHANGED <<ready, deferred, result, holders, deleted, atExit, got, runs>>
      /\ \/ w \in WaitersOf(p) /\ stPc[w] = "out" /\ Future(p)!Goto(w, "get")
         \/ w \in WaitersOf(p) /\ stPc[w] = "out" /\ Future(p)!Goto(w, "release")
         \/ stPc[w] = "waiting" /\ Future(p)!Goto(w, "get")
         \/ stPc[w] = "zeroWaiting" /\ Future(p)!Goto(w, "zero")
  BY DEF Future!Call, Future!Spurious
<1>2. stPc[w] = "waiting" => w \in WaitersOf(p)
  BY DEF SPlaced, Places, Zero
<1>3. CASE \E l \in {"get", "release"} : w \in WaitersOf(p) /\ stPc[w] \in {"out", "waiting"} /\ Future(p)!Goto(w, l)
  <2>1. PICK l \in {"get", "release"} : Moves(p, w, l)
    BY <1>3, GotoMoves DEF Labels
  <2>2. SPlaced(p)' /\ SOrdered(p)' /\ SDeleted(p)'
    BY <1>1, <1>3, <2>1, SMoves DEF Places, Away, Zero, STyped
  <2>3. STyped(p)' /\ SKept(p)' /\ SRunOnce(p)'
    BY <1>1, <1>3, <2>1 DEF STyped, SKept, SRunOnce, Moves, Zero
  <2> QED  BY <2>2, <2>3
<1>4. CASE stPc[w] = "zeroWaiting" /\ Future(p)!Goto(w, "zero")
  <2>1. Moves(p, w, "zero") /\ \A b \in Future(p)!Actors \ {w} : stPc'[b] = stPc[b]
    BY <1>4, GotoMoves DEF Labels
  <2>2. p = "async" /\ w \notin SettersOf(p)
    BY <1>4 DEF SPlaced, Places, Zero, Providers
  <2>3. SPlaced(p)'
    BY <1>1, <1>4, <2>1, <2>2 DEF SPlaced, Moves, Places, Away, Zero
  <2>4. SOrdered(p)' /\ SDeleted(p)'
    BY <1>1, <1>4, <2>1, <2>2 DEF SOrdered, SDeleted, Moves, Zero
  <2>5. STyped(p)' /\ SKept(p)'
    BY <1>1, <1>4, <2>1 DEF STyped, SKept, Moves, Zero
  <2> QED  BY <1>1, <2>2, <2>3, <2>4, <2>5 DEF SRunOnce
<1> QED  BY <1>1, <1>2, <1>3, <1>4

LEMMA SGet ==
  ASSUME NEW p \in Providers, SInv(p), NEW w \in Future(p)!Actors, Future(p)!Get(w)
  PROVE  SInv(p)'
<1> USE SActors DEF SInv
<1>1. stPc[w] = "get" /\ UNCHANGED <<ready, result, holders, deleted, atExit, runs>>
  BY DEF Future!Get
<1>2. w \in WaitersOf(p)
  BY <1>1 DEF SPlaced, Places, Zero
<1>3. CASE ready /\ got' = [got EXCEPT ![w] = result] /\ Future(p)!Goto(w, "release") /\ UNCHANGED deferred
  <2>1. Moves(p, w, "release")
    BY <1>3, GotoMoves DEF Labels
  <2>2. SPlaced(p)' /\ SOrdered(p)' /\ SDeleted(p)'
    <3>1. /\ "release" \in Places(p, w) /\ "release" \notin Away(p, w) /\ "get" \notin Away(p, w)
          /\ w # "owner"
      BY <1>2 DEF Places, Away, Zero
    <3> QED  BY <1>1, <1>3, <2>1, <3>1, SMoves DEF STyped, Zero
  <2>3. STyped(p)' /\ SKept(p)' /\ SRunOnce(p)'
    BY <1>1, <1>2, <1>3, <2>1 DEF STyped, SKept, SRunOnce, Moves, Zero
  <2> QED  BY <2>2, <2>3
<1>4. CASE ~ready /\ deferred /\ Future(p)!Goto(w, "execute") /\ deferred' = FALSE /\ UNCHANGED got
  <2>0. p = "deferred"
    BY <1>4 DEF SRunOnce
  <2>1. Moves(p, w, "execute") /\ \A b \in Future(p)!Actors \ {w} : stPc'[b] = stPc[b]
    BY <1>4, GotoMoves DEF Labels
  <2>2. SPlaced(p)' /\ SOrdered(p)' /\ SDeleted(p)'
    BY <1>1, <1>2, <1>4, <2>0, <2>1, SMoves DEF Places, Away, Zero, STyped
  <2>3. STyped(p)' /\ SKept(p)' /\ SRunOnce(p)'
    BY <1>1, <1>2, <1>4, <2>1 DEF STyped, SKept, SRunOnce, Moves, Zero
  <2> QED  BY <2>2, <2>3
<1>5. CASE ~ready /\ ~deferred /\ Future(p)!Goto(w, "waiting") /\ UNCHANGED <<got, deferred>>
  <2>1. Moves(p, w, "waiting") /\ \A b \in Future(p)!Actors \ {w} : stPc'[b] = stPc[b]
    BY <1>5, GotoMoves DEF Labels
  <2>2. SPlaced(p)' /\ SOrdered(p)' /\ SDeleted(p)'
    BY <1>1, <1>2, <2>1, SMoves DEF Places, Away, Zero, STyped
  <2>3. STyped(p)' /\ SKept(p)' /\ SRunOnce(p)'
    BY <1>1, <1>2, <1>5, <2>1 DEF STyped, SKept, SRunOnce, Moves, Zero
  <2> QED  BY <2>2, <2>3
<1> QED  BY <1>3, <1>4, <1>5 DEF Future!Get

LEMMA SExecute ==
  ASSUME NEW p \in Providers, SInv(p), NEW w \in Future(p)!Actors, Future(p)!Execute(w)
  PROVE  SInv(p)'
<1> USE SActors DEF SInv
<1>1. /\ stPc[w] = "execute" /\ Future(p)!Set(w, "read") /\ runs' = runs + 1
      /\ UNCHANGED <<deferred, holders, deleted, atExit, got>>
  BY DEF Future!Execute
<1>2. w \in WaitersOf(p) /\ p = "deferred"
  BY <1>1 DEF SPlaced, Places, Zero, Providers
<1>3. /\ ~ready /\ ~deferred /\ runs = 0 /\ result = Nothing
      /\ \A v \in WaitersOf(p) : stPc[v] = "execute" => v = w
      /\ \A v \in WaitersOf(p) : got[v] = Nothing
  BY <1>1, <1>2 DEF SRunOnce
<1>4. /\ Moves(p, w, "read") /\ result' \in Future(p)!Actors \X {"value", "exception"}
      /\ result' # Nothing /\ ready' = TRUE
  BY <1>1, <1>3, SSet DEF Labels
<1>5. SPlaced(p)' /\ SOrdered(p)' /\ SDeleted(p)'
  BY <1>1, <1>2, <1>4, SMoves DEF Places, Away, Zero
<1>6. STyped(p)'
  BY <1>1, <1>4 DEF STyped, Moves
<1>7. SKept(p)'
  BY <1>1, <1>2, <1>4 DEF SKept, Moves, Zero
<1>8. SRunOnce(p)'
  BY <1>1, <1>3, <1>4 DEF SRunOnce, Moves
<1> QED  BY <1>5, <1>6, <1>7, <1>8

LEMMA SRead ==
  ASSUME NEW p \in Providers, SInv(p), NEW w \in Future(p)!Actors, Future(p)!Read(w)
  PROVE  SInv(p)'
<1> USE SActors DEF SInv
<1>1. /\ stPc[w] = "read" /\ got' = [got EXCEPT ![w] = result] /\ Future(p)!Goto(w, "release")
      /\ UNCHANGED <<ready, deferred, result, holders, deleted, atExit, runs>>
  BY DEF Future!Read
<1>2. w \in WaitersOf(p) /\ p = "deferred"
  BY <1>1 DEF SPlaced, Places, Zero, Providers
<1>3. Moves(p, w, "release") /\ ready
  BY <1>1, <1>2, GotoMoves DEF Labels, SKept
<1>4. SPlaced(p)' /\ SOrdered(p)' /\ SDeleted(p)'
  BY <1>1, <1>2, <1>3, SMoves DEF Places, Away, Zero, STyped
<1>5. STyped(p)' /\ SKept(p)' /\ SRunOnce(p)'
  BY <1>1, <1>2, <1>3 DEF STyped, SKept, SRunOnce, Moves, Zero
<1> QED  BY <1>4, <1>5

(* The last reference: who gives it back deletes the state, of async() when it *)
(* is ready.                                                                   *)
LEMMA SRelease ==
  ASSUME NEW p \in Providers, SInv(p), NEW a \in Future(p)!Actors, Future(p)!Release(a)
  PROVE  SInv(p)'
<1> USE SActors DEF SInv
<1>1. /\ stPc[a] = "release" /\ holders' = holders \ {a}
      /\ UNCHANGED <<ready, deferred, result, atExit, got, runs>>
  BY DEF Future!Release
<1>2. /\ a \in holders /\ ~deleted
      /\ \A b \in Future(p)!Actors : stPc[b] \notin Zero
  BY <1>1 DEF SPlaced, SDeleted, Away, Zero
<1>3. p = "async" => a \notin SettersOf(p)
  BY <1>1 DEF SPlaced, Places
<1>4. a = "owner" => \A s \in SettersOf(p) : stPc[s] # "out"
  BY <1>1 DEF SOrdered
<1>5. CASE holders' = {} /\ p = "async" /\ Future(p)!Goto(a, "zero") /\ UNCHANGED deleted
  <2>1. Moves(p, a, "zero") /\ \A b \in Future(p)!Actors \ {a} : stPc'[b] = stPc[b]
    BY <1>5, GotoMoves DEF Labels
  <2>2. SPlaced(p)'
    BY <1>1, <1>2, <1>3, <1>5, <2>1 DEF SPlaced, Moves, Places, Away, Zero
  <2>3. SOrdered(p)'
    BY <1>1, <1>3, <1>5, <2>1 DEF SOrdered, Moves
  <2>4. SDeleted(p)'
    BY <1>1, <1>2, <1>5, <2>1 DEF SDeleted, Moves, Zero
  <2>5. STyped(p)' /\ SKept(p)'
    BY <1>1, <1>5, <2>1 DEF STyped, SKept, Moves, Zero
  <2> QED  BY <1>1, <1>5, <2>2, <2>3, <2>4, <2>5 DEF SRunOnce
<1>6. CASE ~(holders' = {} /\ p = "async") /\ Future(p)!Goto(a, "done") /\ deleted' = (holders' = {})
  <2>1. Moves(p, a, "done") /\ \A b \in Future(p)!Actors \ {a} : stPc'[b] = stPc[b]
    BY <1>6, GotoMoves DEF Labels
  <2>2. SPlaced(p)'
    BY <1>1, <1>2, <1>3, <2>1 DEF SPlaced, Moves, Places, Away, Zero
  <2>3. SOrdered(p)'
    BY <1>1, <1>3, <1>4, <2>1 DEF SOrdered, Moves
  <2>4. SDeleted(p)'
    <3>1. CASE holders' = {}
      <4>1. \A b \in Future(p)!Actors \ {a} : stPc[b] \in Away(p, b)
        BY <1>1, <3>1 DEF SPlaced
      <4>2. a = "owner" \/ stPc["owner"] # "out"
        BY <4>1 DEF Away, Zero
      <4>3. \A s \in SettersOf(p) : stPc[s] # "out"
        BY <1>1, <1>4, <4>2 DEF SOrdered
      <4>4. \A b \in Future(p)!Actors \ {a} : stPc[b] # "run"
        BY <1>6, <3>1 DEF SPlaced, Places, Zero
      <4>5. \A b \in Future(p)!Actors : stPc'[b] \in {"done", "none"}
        BY <1>2, <2>1, <4>1, <4>3, <4>4 DEF Away, Moves
      <4> QED  BY <1>6, <3>1, <4>5 DEF SDeleted, Zero
    <3>2. CASE holders' # {}
      BY <1>2, <1>6, <2>1, <3>2 DEF SDeleted, Moves, Zero
    <3> QED  BY <3>1, <3>2
  <2>5. STyped(p)' /\ SKept(p)' /\ SRunOnce(p)'
    BY <1>1, <1>6, <2>1 DEF STyped, SKept, SRunOnce, Moves, Zero
  <2> QED  BY <2>2, <2>3, <2>4, <2>5
<1> QED  BY <1>5, <1>6 DEF Future!Release

LEMMA SOnZero ==
  ASSUME NEW p \in Providers, SInv(p), NEW a \in Future(p)!Actors, Future(p)!OnZero(a)
  PROVE  SInv(p)'
<1> USE SActors DEF SInv
<1>1. /\ stPc[a] = "zero" /\ UNCHANGED <<ready, deferred, result, holders, atExit, got, runs>>
  BY DEF Future!OnZero
<1>2. p = "async" /\ a \notin SettersOf(p) /\ a # Launched
  BY <1>1 DEF SPlaced, Places, Zero, Providers
<1>3. /\ holders = {} /\ ~deleted
      /\ \A b \in Future(p)!Actors \ {a} : stPc[b] \notin Zero
  BY <1>1 DEF SDeleted, Zero
<1>4. PICK l \in {"done", "zeroWaiting"} :
        /\ Future(p)!Goto(a, l)
        /\ l = "done" => ready /\ deleted' = TRUE
        /\ l = "zeroWaiting" => UNCHANGED deleted
  BY DEF Future!OnZero
<1>5. Moves(p, a, l) /\ \A b \in Future(p)!Actors \ {a} : stPc'[b] = stPc[b]
  BY <1>4, GotoMoves DEF Labels
<1>6. SPlaced(p)'
  BY <1>1, <1>2, <1>5 DEF SPlaced, Moves, Places, Away, Zero
<1>7. SOrdered(p)'
  BY <1>1, <1>2, <1>5 DEF SOrdered, Moves
<1>8. SDeleted(p)'
  <2>1. CASE l = "done"
    <3>1. \A b \in Future(p)!Actors \ {a} : stPc[b] \in Away(p, b)
      BY <1>3 DEF SPlaced
    <3>2. \A b \in Future(p)!Actors \ {a} : stPc[b] \in {"done", "none"}
      BY <1>2, <1>3, <1>4, <2>1, <3>1 DEF Away, SOrdered, SPlaced, Places
    <3> QED  BY <1>1, <1>3, <1>4, <1>5, <2>1, <3>2 DEF SDeleted, Moves, Zero
  <2>2. CASE l = "zeroWaiting"
    BY <1>1, <1>3, <1>4, <1>5, <2>2 DEF SDeleted, Moves, Zero
  <2> QED  BY <2>1, <2>2
<1>9. STyped(p)' /\ SKept(p)'
  BY <1>1, <1>2, <1>4, <1>5 DEF STyped, SKept, Moves, Zero
<1> QED  BY <1>1, <1>2, <1>6, <1>7, <1>8, <1>9 DEF SRunOnce

LEMMA SInductive ==
  ASSUME NEW p \in Providers, SInv(p), [Future(p)!Next]_stVars PROVE SInv(p)'
<1>1. CASE UNCHANGED stVars
  BY <1>1 DEF stVars, SInv, STyped, SPlaced, SOrdered, SDeleted, SKept, SRunOnce
<1>2. CASE Future(p)!Over
  BY <1>1, <1>2 DEF Future!Over, Future!vars, stVars
<1>3. CASE Future(p)!Provide
  BY <1>3, SSetNow, SSetAtExit, SSkip, SMakeReady, SAsyncRun, SOwner, SStart DEF Future!Provide
<1>4. ASSUME NEW a \in Future(p)!Actors, Future(p)!Use(a) \/ Future(p)!Spurious(a) PROVE SInv(p)'
  BY <1>4, SCalls, SGet, SExecute, SRead, SRelease, SOnZero DEF Future!Use
<1> QED  BY <1>1, <1>2, <1>3, <1>4 DEF Future!Next

LEMMA SHolds ==
  ASSUME NEW p \in Providers, SInv(p)
  PROVE  Future(p)!AliveInUse /\ Future(p)!NothingLeaks /\ Future(p)!RunsOnce
<1> USE SActors DEF SInv
<1>1. Future(p)!AliveInUse
  BY DEF SDeleted, Future!AliveInUse
<1>2. Future(p)!NothingLeaks
  <2>1. SUFFICES ASSUME \A a \in Future(p)!Actors : stPc[a] \in {"done", "none"} PROVE deleted
    BY DEF Future!NothingLeaks
  <2>2. holders = {}
    BY <2>1 DEF SPlaced, Away
  <2> QED  BY <2>1, <2>2 DEF SDeleted, Zero
<1>3. Future(p)!RunsOnce
  BY DEF SRunOnce, STyped, Future!RunsOnce
<1> QED  BY <1>1, <1>2, <1>3


(* A result that can be seen stays, and get() returns it.                      *)
LEMMA SOneResult ==
  ASSUME NEW p \in Providers, SInv(p), Future(p)!Next
  PROVE  /\ ready => ready' /\ result' = result /\ result # Nothing
         /\ \A w \in WaitersOf(p) : got'[w] # got[w] => got[w] = Nothing /\ ready /\ got'[w] = result
<1> USE SActors DEF SInv
<1> DEFINE Same == UNCHANGED got /\ (ready => ready' /\ result' = result)
<1>1. ready => result # Nothing
  BY DEF SKept
<1>2. CASE Future(p)!Provide
  <2>1. ASSUME NEW s \in SettersOf(p),
               \/ Future(p)!SetNow(s) \/ Future(p)!SetAtExit(s) \/ Future(p)!Skip(s)
               \/ Future(p)!MakeReady(s) \/ Future(p)!AsyncRun(s)
        PROVE  Same
    BY <1>1, <2>1 DEF Future!SetNow, Future!SetAtExit, Future!Skip, Future!MakeReady,
                      Future!AsyncRun, Future!Set
  <2>2. ASSUME \/ Future(p)!Break \/ Future(p)!Broken \/ Future(p)!DeferredMade
               \/ Future(p)!Start \/ Future(p)!Attach
        PROVE  Same
    BY <1>1, <2>2 DEF Future!Break, Future!Broken, Future!DeferredMade, Future!Start, Future!Attach
  <2> QED  BY <1>1, <1>2, <2>1, <2>2 DEF Future!Provide
<1>3. ASSUME NEW a \in Future(p)!Actors,
             \/ Future(p)!Call(a) \/ Future(p)!Execute(a) \/ Future(p)!Release(a)
             \/ Future(p)!OnZero(a) \/ Future(p)!Spurious(a)
      PROVE  Same
  BY <1>1, <1>3 DEF Future!Call, Future!Execute, Future!Release, Future!OnZero, Future!Spurious,
                    Future!Set
<1>4. ASSUME NEW a \in Future(p)!Actors, Future(p)!Get(a) \/ Future(p)!Read(a)
      PROVE  /\ UNCHANGED <<ready, result>>
             /\ \A w \in WaitersOf(p) : got'[w] # got[w] => got[w] = Nothing /\ ready /\ got'[w] = result
  <2>1. CASE Future(p)!Get(a)
    <3>1. /\ stPc[a] = "get" /\ UNCHANGED <<ready, result>>
          /\ UNCHANGED got \/ (ready /\ got' = [got EXCEPT ![a] = result])
      BY <2>1 DEF Future!Get
    <3> QED  BY <3>1 DEF SKept, STyped, Zero
  <2>2. CASE Future(p)!Read(a)
    <3>1. stPc[a] = "read" /\ UNCHANGED <<ready, result>> /\ got' = [got EXCEPT ![a] = result]
      BY <2>2 DEF Future!Read
    <3> QED  BY <3>1 DEF SKept, STyped, Zero
  <2> QED  BY <1>4, <2>1, <2>2
<1>5. CASE Future(p)!Over
  BY <1>1, <1>5 DEF Future!Over, Future!vars
<1>6. CASE \E a \in Future(p)!Actors : Future(p)!Use(a) \/ Future(p)!Spurious(a)
  BY <1>1, <1>3, <1>4, <1>6 DEF Future!Use
<1> QED  BY <1>2, <1>5, <1>6 DEF Future!Next

-------------------------------------------------------------------------------
(* The run: each part is a behaviour of its module, or stays as it was.        *)
MutexesInv == \A p \in Mutexes : part = p => TInv(p)

FuturesInv == \A p \in Providers : part = p => SInv(p)

LEMMA Names == Mutexes = {"timed", "recursive"} /\ Providers = {"promise", "deferred", "async"}
BY DEF Mutexes, Providers

LEMMA Parts ==
  MCSpec => /\ Spec /\ Flag!Spec /\ Guard!Spec /\ Pointer!Spec
            /\ []MutexesInv /\ []FuturesInv
<1>1. MCInit => Init /\ Flag!Init /\ Guard!Init /\ Pointer!Init
  BY DEF MCInit
<1>2. [MCNext]_mcvars => /\ [Next]_vars /\ [Flag!Next]_(Flag!vars)
                         /\ [Guard!Next]_(Guard!vars) /\ [Pointer!Next]_(Pointer!vars)
  <2>1. /\ UNCHANGED onVars => UNCHANGED Flag!vars
        /\ UNCHANGED cgVars => UNCHANGED Guard!vars
        /\ UNCHANGED ptVars => UNCHANGED Pointer!vars
    BY DEF onVars, Flag!vars, Flag!word, cgVars, Guard!vars, ptVars, Pointer!vars
  <2> QED  BY <2>1 DEF MCNext, mcvars
<1>3. MCInit => MutexesInv
  <2>1. Timer("timed")!Init => Timer("recursive")!Init
    BY DEF Timer!Init
  <2> QED  BY <2>1, Names, TInitially DEF MCInit, MutexesInv
<1>4. MCInit => FuturesInv
  BY SInitially DEF MCInit, FuturesInv
<1>5. MutexesInv /\ [MCNext]_mcvars => MutexesInv'
  <2> SUFFICES ASSUME MutexesInv, [MCNext]_mcvars, NEW p \in Mutexes, part' = p PROVE TInv(p)'
    BY DEF MutexesInv
  <2>1. part = p /\ [Timer(p)!Next]_tmVars
    BY Names DEF MCNext, mcvars
  <2> QED  BY <2>1, TInductive DEF MutexesInv
<1>6. FuturesInv /\ [MCNext]_mcvars => FuturesInv'
  <2> SUFFICES ASSUME FuturesInv, [MCNext]_mcvars, NEW p \in Providers, part' = p PROVE SInv(p)'
    BY DEF FuturesInv
  <2>1. part = p /\ [Future(p)!Next]_stVars
    BY Names DEF MCNext, mcvars
  <2> QED  BY <2>1, SInductive DEF FuturesInv
<1> QED
  BY <1>1, <1>2, <1>3, <1>4, <1>5, <1>6, PTL
     DEF MCSpec, Spec, Flag!Spec, Guard!Spec, Pointer!Spec

(* A timed mutex has one owner and forgets no sleeper, and is not used after    *)
(* it is destroyed.                                                             *)
THEOREM RunTimedMutexHolds == MCSpec => []TimedMutexHolds
<1>1. MutexesInv => TimedMutexHolds
  BY THolds DEF MutexesInv, TimedMutexHolds
<1> QED  BY <1>1, Parts, PTL

(* The object and the control block are there for all who count, and go once.  *)
THEOREM RunPointerHolds == MCSpec => []PointerHolds
BY Parts, PInvariance, PHolds, PTL

(* call_once() runs one function at a time, until one returns, and a slow call *)
(* returns with its effects in sight (mutex.cpp).                              *)
THEOREM RunOnceFlagHolds == MCSpec => OnceFlagHolds
<1>1. Flag!SlowCallsSynchronize => (part = "once" => Flag!SlowCallsSynchronize)
  OBVIOUS
<1> QED  BY <1>1, Parts, OnceFlagIsOnce, PTL DEF OnceFlagHolds

(* The guards of local statics do the same for initializers, with the callers  *)
(* that find the object made (cxa_guard_impl.h).                               *)
THEOREM RunGuardHolds == MCSpec => GuardHolds
<1>1. Guard!CallersSeeTheObject => (part = "guard" => Guard!CallersSeeTheObject)
  OBVIOUS
<1> QED  BY <1>1, Parts, GuardIsOnce, PTL DEF GuardHolds

(* A shared state has one result, is there for who uses it and goes at the end, *)
(* and its deferred function runs once.                                         *)
THEOREM RunFutureHolds == MCSpec => FutureHolds
<1>1. FuturesInv => \A p \in Providers : part = p =>
        Future(p)!AliveInUse /\ Future(p)!NothingLeaks /\ Future(p)!RunsOnce
  BY SHolds DEF FuturesInv
<1>2. FuturesInv /\ [MCNext]_mcvars => [State!ResultStays]_(State!vars)
  <2> SUFFICES ASSUME FuturesInv, [MCNext]_mcvars, ~UNCHANGED State!vars PROVE State!ResultStays
    OBVIOUS
  <2>1. PICK p \in Providers : part = p /\ Future(p)!Next
    BY DEF MCNext, mcvars, stVars, State!vars
  <2>2. SInv(p)
    BY <2>1 DEF FuturesInv
  <2>3. /\ ready => ready' /\ result' = result /\ result # Nothing
        /\ \A w \in WaitersOf(p) : got'[w] # got[w] => got[w] = Nothing /\ ready /\ got'[w] = result
    BY <2>1, <2>2, SOneResult
  <2>4. WaitersOf("promise") \subseteq WaitersOf(p)
    BY DEF WaitersOf
  <2>5. State!Visible = IF ready THEN result ELSE Nothing
    BY DEF State!Visible
  <2>6. State!Visible' = IF ready' THEN result' ELSE Nothing
    BY DEF State!Visible
  <2>7. State!Visible # Nothing => State!Visible' = State!Visible
    BY <2>3, <2>5, <2>6
  <2>8. \A w \in WaitersOf("promise") : got'[w] # got[w] =>
          got[w] = Nothing /\ State!Visible # Nothing /\ got'[w] = State!Visible
    BY <2>3, <2>4, <2>5
  <2> QED  BY <2>7, <2>8 DEF State!ResultStays
<1>3. MCSpec => [](\A p \in Providers : part = p =>
        Future(p)!AliveInUse /\ Future(p)!NothingLeaks /\ Future(p)!RunsOnce)
  BY <1>1, Parts, PTL
<1>4. MCSpec => State!OneResult
  BY <1>2, Parts, PTL DEF MCSpec, State!OneResult
<1> QED  BY <1>3, <1>4 DEF FutureHolds

===============================================================================
