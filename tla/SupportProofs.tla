---------------------------- MODULE SupportProofs ----------------------------
(***************************************************************************)
(* Proofs about the parts of llvm's Support library and of lld's Core that *)
(* MCSupport runs: llvm::ThreadPool and lld's TaskGroup implement the      *)
(* barrier TaskBarrier; lock files are taken away by who ends; statics are *)
(* made once and destroyed in order.  The theorems hold for every number   *)
(* of workers, clients, processes, hosts, tasks, trees of tasks and        *)
(* statics that satisfies the modules' assumptions.                        *)
(***************************************************************************)
EXTENDS MCSupport, FiniteSetTheorems, SequenceTheorems, TLAPS

(***************************************************************************)
(* A sequence without repetition and its range, when an element is put at  *)
(* an end or taken off.                                                    *)
(***************************************************************************)
Distinct(s) == \A i, j \in 1 .. Len(s) : s[i] = s[j] => i = j

LEMMA DistinctAppend ==
  ASSUME NEW S, NEW s \in Seq(S), NEW e \in S, Distinct(s), e \notin Range(s)
  PROVE  /\ Append(s, e) \in Seq(S)
         /\ Append(s, e) # << >>
         /\ Distinct(Append(s, e))
         /\ Range(Append(s, e)) = Range(s) \cup {e}
<1>1. /\ Append(s, e) \in Seq(S)
      /\ Len(Append(s, e)) = Len(s) + 1 /\ Len(s) \in Nat
      /\ \A i \in 1 .. Len(s) : Append(s, e)[i] = s[i]
      /\ Append(s, e)[Len(s) + 1] = e
  BY AppendProperties, LenProperties
<1>2. DOMAIN s = 1 .. Len(s) /\ DOMAIN Append(s, e) = 1 .. Len(s) + 1
  BY <1>1, LenProperties
<1>3. \A i \in 1 .. Len(s) : s[i] # e
  BY <1>2 DEF Range
<1>4. Distinct(Append(s, e))
  BY <1>1, <1>3 DEF Distinct
<1>5. Range(Append(s, e)) = Range(s) \cup {e}
  <2>1. \A x \in Range(Append(s, e)) : x \in Range(s) \cup {e}
    BY <1>1, <1>2 DEF Range
  <2>2. \A x \in Range(s) : x \in Range(Append(s, e))
    BY <1>1, <1>2 DEF Range
  <2>3. e \in Range(Append(s, e))
    BY <1>1, <1>2 DEF Range
  <2>q. QED
    BY <2>1, <2>2, <2>3
<1>q. QED
  BY <1>1, <1>4, <1>5

LEMMA DistinctPush ==
  ASSUME NEW S, NEW s \in Seq(S), NEW e \in S, Distinct(s), e \notin Range(s)
  PROVE  /\ << e >> \o s \in Seq(S)
         /\ Distinct(<< e >> \o s)
         /\ Range(<< e >> \o s) = Range(s) \cup {e}
<1> DEFINE r == << e >> \o s
<1>1. /\ r \in Seq(S) /\ Len(r) = Len(s) + 1 /\ Len(s) \in Nat
      /\ r[1] = e /\ \A i \in 2 .. Len(s) + 1 : r[i] = s[i - 1]
  BY ConcatProperties, LenProperties
<1>2. DOMAIN s = 1 .. Len(s) /\ DOMAIN r = 1 .. Len(s) + 1
  BY <1>1, LenProperties
<1>3. \A i \in 1 .. Len(s) : s[i] # e
  BY <1>2 DEF Range
<1>4. Distinct(r)
  <2> SUFFICES ASSUME NEW i \in 1 .. Len(r), NEW j \in 1 .. Len(r), r[i] = r[j] PROVE i = j
    BY DEF Distinct
  <2> HIDE DEF r
  <2>1. CASE i = 1
    BY <1>1, <1>3, <2>1
  <2>2. CASE j = 1
    BY <1>1, <1>3, <2>2
  <2>3. CASE i # 1 /\ j # 1
    <3>1. i - 1 \in 1 .. Len(s) /\ j - 1 \in 1 .. Len(s) /\ s[i - 1] = s[j - 1]
      BY <1>1, <2>3
    <3>q. QED
      BY <1>1, <3>1 DEF Distinct
  <2>q. QED
    BY <2>1, <2>2, <2>3
<1>5. Range(r) = Range(s) \cup {e}
  <2> HIDE DEF r
  <2>1. \A x \in Range(r) : x \in Range(s) \cup {e}
    <3> SUFFICES ASSUME NEW i \in DOMAIN r PROVE r[i] \in Range(s) \cup {e}
      BY DEF Range
    <3>1. CASE i = 1
      BY <1>1, <3>1
    <3>2. CASE i # 1
      <4>1. i - 1 \in DOMAIN s /\ r[i] = s[i - 1]
        BY <1>1, <1>2, <3>2
      <4>q. QED
        BY <4>1 DEF Range
    <3>q. QED
      BY <3>1, <3>2
  <2>2. ASSUME NEW i \in DOMAIN s PROVE s[i] \in Range(r)
    <3>1. i + 1 \in DOMAIN r /\ r[i + 1] = s[i]
      BY <1>1, <1>2
    <3>q. QED
      BY <3>1 DEF Range
  <2>3. e \in Range(r)
    BY <1>1, <1>2 DEF Range
  <2>q. QED
    BY <2>1, <2>2, <2>3 DEF Range
<1>q. QED
  BY <1>1, <1>4, <1>5

LEMMA DistinctTail ==
  ASSUME NEW S, NEW s \in Seq(S), s # << >>, Distinct(s)
  PROVE  /\ Tail(s) \in Seq(S)
         /\ Head(s) \in S
         /\ Distinct(Tail(s))
         /\ Head(s) \in Range(s)
         /\ Range(Tail(s)) = Range(s) \ {Head(s)}
<1>1. /\ Tail(s) \in Seq(S) /\ Head(s) \in S /\ Head(s) = s[1]
      /\ Len(s) \in Nat /\ Len(s) > 0 /\ Len(Tail(s)) = Len(s) - 1
      /\ \A i \in 1 .. Len(s) - 1 : Tail(s)[i] = s[i + 1]
  BY HeadTailProperties, LenProperties, EmptySeq
<1>2. DOMAIN s = 1 .. Len(s) /\ DOMAIN Tail(s) = 1 .. Len(s) - 1
  BY <1>1, LenProperties
<1>3. Distinct(Tail(s))
  <2> SUFFICES ASSUME NEW i \in 1 .. Len(Tail(s)), NEW j \in 1 .. Len(Tail(s)),
                      Tail(s)[i] = Tail(s)[j]
               PROVE  i = j
    BY DEF Distinct
  <2>1. i + 1 \in 1 .. Len(s) /\ j + 1 \in 1 .. Len(s) /\ s[i + 1] = s[j + 1]
    BY <1>1
  <2>q. QED
    BY <1>1, <2>1 DEF Distinct
<1>4. Head(s) \in Range(s)
  BY <1>1, <1>2 DEF Range
<1>5. ASSUME NEW i \in DOMAIN Tail(s) PROVE Tail(s)[i] \in Range(s) \ {Head(s)}
  <2>1. i + 1 \in 1 .. Len(s) /\ 1 \in 1 .. Len(s) /\ i + 1 # 1 /\ Tail(s)[i] = s[i + 1]
    BY <1>1, <1>2
  <2>q. QED
    BY <1>1, <1>2, <2>1 DEF Distinct, Range
<1>6. ASSUME NEW i \in DOMAIN s, s[i] # Head(s) PROVE s[i] \in Range(Tail(s))
  <2>1. i - 1 \in DOMAIN Tail(s) /\ Tail(s)[i - 1] = s[i]
    BY <1>1, <1>2, <1>6
  <2>q. QED
    BY <2>1 DEF Range
<1>7. Range(Tail(s)) = Range(s) \ {Head(s)}
  BY <1>5, <1>6 DEF Range
<1>q. QED
  BY <1>1, <1>3, <1>4, <1>7

(***************************************************************************)
(* Lock files.                                                             *)
(***************************************************************************)
LockProcs == DOMAIN LockHostOf

(* A process has a file of its own only while it tries to link it or owns   *)
(* the lock; the link leads to nobody but an owner or a killed process; and *)
(* an output that was seen stays.                                           *)
LockFiles(p) ==
  /\ step[p] \in {"create", "wait", "look", "load", "timeout", "done", "failed", "exited"}
       => ~linking[p]
  /\ p \in unique => linking[p] \/ step[p] = "killed"
  /\ lock = p => step[p] \in {"owned", "unlock", "killed"}
  /\ step[p] = "load" => output # "none"

LInv == F!TypeOK /\ \A p \in LockProcs : LockFiles(p)

LEMMA LockInit == ASSUME F!ProcessAssumption PROVE F!Init => LInv
  BY DEF F!ProcessAssumption, F!Init, LInv, F!TypeOK, LockFiles, LockProcs, F!PCs

LEMMA LockNext ==
  ASSUME F!ProcessAssumption
  PROVE  LInv /\ [F!Next]_(F!vars) => LInv'
<1> SUFFICES ASSUME LInv, [F!Next]_(F!vars) PROVE LInv'
    OBVIOUS
<1> USE DEF LockProcs
<1>t. F!TypeOK /\ \A p \in LockProcs : LockFiles(p)
  BY DEF LInv
<1>n. None \notin LockProcs
  BY DEF F!ProcessAssumption
<1>u. CASE UNCHANGED F!vars
  BY <1>t, <1>u DEF LInv, F!TypeOK, LockFiles, F!vars
<1>a. CASE F!AllEnded
  BY <1>t, <1>a DEF LInv, F!TypeOK, LockFiles, F!vars, F!AllEnded
<1>p. ASSUME NEW p \in LockProcs, F!Step(p) \/ F!GiveUp(p) \/ \E h \in BOOLEAN : F!Kill(p, h)
      PROVE  LInv'
  <2> USE <1>t, <1>n DEF LInv, F!TypeOK, LockFiles, F!PCs, F!Goto
  <2>1. CASE F!Read(p)
    BY <2>1 DEF F!Read, F!Resolves
  <2>2. CASE F!Probe(p)
    BY <2>2 DEF F!Probe
  <2>3. CASE F!Remove(p)
    BY <2>3 DEF F!Remove
  <2>4. CASE F!CreateUnique(p)
    BY <2>4 DEF F!CreateUnique
  <2>5. CASE F!CreateFails(p)
    BY <2>5 DEF F!CreateFails
  <2>6. CASE F!Link(p)
    BY <2>6 DEF F!Link
  <2>7. CASE F!LinkFails(p)
    BY <2>7 DEF F!LinkFails
  <2>8. CASE F!Exists(p)
    BY <2>8 DEF F!Exists
  <2>9. CASE F!Clear(p)
    BY <2>9 DEF F!Clear
  <2>10. CASE F!Drop(p)
    BY <2>10 DEF F!Drop
  <2>11. CASE F!Build(p)
    BY <2>11 DEF F!Build
  <2>12. CASE F!BuildFails(p)
    BY <2>12 DEF F!BuildFails
  <2>13. CASE F!Unlock(p)
    BY <2>13 DEF F!Unlock
  <2>14. CASE F!Unlink(p)
    BY <2>14 DEF F!Unlink
  <2>15. CASE F!Wait(p)
    BY <2>15 DEF F!Wait, F!Restart
  <2>16. CASE F!Look(p)
    BY <2>16 DEF F!Look, F!Restart
  <2>17. CASE F!Load(p)
    BY <2>17 DEF F!Load, F!Restart
  <2>18. CASE F!UnsafeRemove(p)
    BY <2>18 DEF F!UnsafeRemove
  <2>19. CASE F!Exit(p)
    BY <2>19 DEF F!Exit
  <2>20. CASE F!GiveUp(p)
    BY <2>20 DEF F!GiveUp
  <2>21. ASSUME NEW h \in BOOLEAN, F!Kill(p, h) PROVE LInv'
    BY <2>21 DEF F!Kill
  <2>q. QED
    BY <1>p, <2>1, <2>2, <2>3, <2>4, <2>5, <2>6, <2>7, <2>8, <2>9, <2>10, <2>11, <2>12,
       <2>13, <2>14, <2>15, <2>16, <2>17, <2>18, <2>19, <2>20, <2>21 DEF F!Step
<1>q. QED
  BY <1>u, <1>a, <1>p DEF F!Next

LEMMA LockHolds ==
  ASSUME F!ProcessAssumption
  PROVE  LInv => LocksAreReleased
  BY DEF LInv, F!TypeOK, LockFiles, LockProcs, LocksAreReleased, F!NothingLeftBehind,
         F!ReleasedMeansOutput

(***************************************************************************)
(* llvm::ThreadPool.                                                       *)
(***************************************************************************)
WorkerPCs == {"work_lock", "work_sleep", "barrier", "pop", "run", "run_notify",
              "finish", "work_notify", "exited"}
ClientPCs == {"idle", "wait_lock", "wait_queue", "wait_active", "wait_sleep",
              "async_notify", "gone", "destroy_notify", "join"}

BusyPCs == {"barrier", "pop", "run", "run_notify", "finish"}
Busy    == {w \in Workers : pc[w] \in BusyPCs}

PoolType ==
  /\ queue \in Seq(Tasks)
  /\ pc \in [Actors -> WorkerPCs \cup ClientPCs]
  /\ \A w \in Workers : pc[w] \in WorkerPCs
  /\ \A c \in Clients : pc[c] \in ClientPCs
  /\ task \in [Workers -> Tasks \cup {None}]
  /\ done \subseteq Tasks

(* A task is in one place: once in the queue, with one worker, or done.     *)
TasksOnce ==
  /\ Distinct(queue)
  /\ \A t \in Range(queue) : t \notin done /\ \A w \in Workers : task[w] # t
  /\ \A w \in Workers : task[w] \notin done
  /\ \A v, w \in Workers : task[v] = task[w] /\ task[v] # None => v = w

(* A worker has a task exactly while it runs one, and holds QueueLock from  *)
(* the moment it saw a task in the queue until it has taken one.            *)
WorkersHold ==
  /\ \A w \in Workers : task[w] # None <=> pc[w] \in {"run", "run_notify"}
  /\ \A w \in Workers : pc[w] \in {"barrier", "pop"} => queueLock = w /\ queue # << >>

(* The count of busy workers is exact, and the queue that a waiting client  *)
(* saw empty has stayed empty, since nobody adds tasks while it waits.      *)
CountIsExact == active = Cardinality(Busy)
EmptyStays   == \A c \in Clients : pc[c] = "wait_active" => queue = << >>

PoolInv == PoolType /\ TasksOnce /\ WorkersHold /\ CountIsExact /\ EmptyStays

LEMMA PoolInit == Init => PoolInv
<1> SUFFICES ASSUME Init PROVE PoolInv
    OBVIOUS
<1>1. PoolType
  BY ActorsAssumption DEF Init, PoolType, Actors, WorkerPCs, ClientPCs
<1>2. Range(queue) = {}
  BY DEF Init, Range
<1>3. TasksOnce
  BY <1>2 DEF Init, TasksOnce, Distinct
<1>4. WorkersHold /\ EmptyStays
  BY ActorsAssumption DEF Init, WorkersHold, EmptyStays, Actors
<1>5. Busy = {}
  BY DEF Init, Busy, BusyPCs, Actors
<1>6. CountIsExact
  BY <1>5, FS_EmptySet DEF Init, CountIsExact
<1>q. QED
  BY <1>1, <1>3, <1>4, <1>6 DEF PoolInv

(* The number of busy workers changes by one when one becomes busy or idle. *)
LEMMA CountMoves ==
  ASSUME PoolInv, NEW w \in Workers
  PROVE  /\ Busy' = Busy => Cardinality(Busy') = Cardinality(Busy)
         /\ w \notin Busy /\ Busy' = Busy \cup {w} => Cardinality(Busy') = active + 1
         /\ w \in Busy /\ Busy' = Busy \ {w} => Cardinality(Busy') = active - 1
<1>1. IsFiniteSet(Busy)
  BY ActorsAssumption, FS_Subset DEF Busy
<1>q. QED
  BY <1>1, FS_AddElement, FS_RemoveElement DEF PoolInv, CountIsExact

(* A step that moves one actor between two places of the code, and leaves   *)
(* the queue and the tasks alone.                                           *)
LEMMA PoolMove ==
  ASSUME PoolInv, NEW a \in Actors, NEW to \in WorkerPCs \cup ClientPCs,
         pc' = [pc EXCEPT ![a] = to],
         UNCHANGED <<queue, active, enable, task, done>>,
         queueLock' = queueLock \/ ~\E w \in Workers \ {a} : pc[w] \in {"barrier", "pop"},
         a \in Workers => to \in WorkerPCs,
         a \in Clients => to \in ClientPCs,
         a \in Workers => (pc[a] \in BusyPCs <=> to \in BusyPCs),
         pc[a] \in {"run", "run_notify"} <=> to \in {"run", "run_notify"},
         to \in {"barrier", "pop"} => pc[a] \in {"barrier", "pop"} /\ queueLock' = queueLock,
         to = "wait_active" => queue = << >>
  PROVE  PoolInv'
<1>0. PoolType /\ TasksOnce /\ WorkersHold /\ CountIsExact /\ EmptyStays
  BY DEF PoolInv
<1>1. PoolType'
  BY <1>0, ActorsAssumption DEF PoolType, Actors
<1>2. TasksOnce'
  BY <1>0 DEF TasksOnce
<1>3. WorkersHold'
  BY <1>0, ActorsAssumption DEF WorkersHold, PoolType, Actors
<1>4. CountIsExact'
  <2>1. Busy' = Busy
    BY <1>0, ActorsAssumption DEF Busy, PoolType, Actors
  <2>q. QED
    BY <1>0, <2>1 DEF CountIsExact
<1>5. EmptyStays'
  BY <1>0, ActorsAssumption DEF EmptyStays, PoolType, Actors
<1>q. QED
  BY <1>1, <1>2, <1>3, <1>4, <1>5 DEF PoolInv

LEMMA WorkLockKeeps ==
  ASSUME PoolInv, NEW w \in Workers, WorkLock(w)
  PROVE  PoolInv'
<1>0. PoolType /\ TasksOnce /\ WorkersHold /\ CountIsExact /\ EmptyStays
  BY DEF PoolInv
<1>w. w \in Actors /\ w \notin Clients
  BY ActorsAssumption DEF Actors
<1>g. pc[w] = "work_lock" /\ queueLock = None
  BY DEF WorkLock, Goto
<1>1. CASE enable /\ queue = << >>
  <2>1. pc' = [pc EXCEPT ![w] = "work_sleep"]
        /\ UNCHANGED <<queue, active, enable, queueLock, task, done>>
    BY <1>1 DEF WorkLock, Goto
  <2>q. QED
    BY <1>w, <1>g, <2>1, PoolMove DEF WorkerPCs, ClientPCs, BusyPCs
<1>2. CASE ~enable /\ queue = << >>
  <2>1. pc' = [pc EXCEPT ![w] = "exited"]
        /\ UNCHANGED <<queue, active, enable, queueLock, task, done>>
    BY <1>2 DEF WorkLock, Goto
  <2>q. QED
    BY <1>w, <1>g, <2>1, PoolMove DEF WorkerPCs, ClientPCs, BusyPCs
<1>3. CASE queue # << >>
  <2>1. /\ pc' = [pc EXCEPT ![w] = "barrier"] /\ active' = active + 1 /\ queueLock' = w
        /\ UNCHANGED <<queue, enable, task, done>>
    BY <1>3 DEF WorkLock, Goto
  <2>2. PoolType'
    BY <1>0, <1>w, <2>1 DEF PoolType, WorkerPCs
  <2>3. TasksOnce'
    BY <1>0, <2>1 DEF TasksOnce
  <2>4. WorkersHold'
    BY <1>0, <1>3, <1>w, <1>g, <2>1, NoneAssumption DEF WorkersHold, PoolType, Actors
  <2>5. w \notin Busy /\ Busy' = Busy \cup {w}
    BY <1>0, <1>w, <1>g, <2>1 DEF Busy, BusyPCs, PoolType, Actors
  <2>6. CountIsExact'
    BY <2>1, <2>5, CountMoves DEF CountIsExact
  <2>7. EmptyStays'
    BY <1>0, <1>w, <2>1 DEF EmptyStays, PoolType, Actors
  <2>q. QED
    BY <2>2, <2>3, <2>4, <2>6, <2>7 DEF PoolInv
<1>q. QED
  BY <1>0, <1>1, <1>2, <1>3 DEF PoolType

LEMMA WorkPopKeeps ==
  ASSUME PoolInv, NEW w \in Workers, WorkPop(w)
  PROVE  /\ PoolInv' /\ Unfinished' = Unfinished
<1>0. PoolType /\ TasksOnce /\ WorkersHold /\ CountIsExact /\ EmptyStays
  BY DEF PoolInv
<1>w. w \in Actors /\ w \notin Clients
  BY ActorsAssumption DEF Actors
<1> DEFINE h == Head(queue)
<1>1. /\ pc[w] = "pop" /\ pc' = [pc EXCEPT ![w] = "run"]
      /\ task' = [task EXCEPT ![w] = h] /\ queue' = Tail(queue) /\ queueLock' = None
      /\ UNCHANGED <<active, enable, completionLock, done>>
  BY DEF WorkPop, Goto
<1>2. queue # << >> /\ queueLock = w /\ task[w] = None
  BY <1>0, <1>1 DEF WorkersHold
<1>3. /\ queue' \in Seq(Tasks) /\ h \in Tasks /\ Distinct(queue')
      /\ h \in Range(queue) /\ Range(queue') = Range(queue) \ {h}
  BY <1>0, <1>1, <1>2, DistinctTail DEF PoolType, TasksOnce
<1> HIDE DEF h
<1>n. h # None
  BY <1>3, NoneAssumption
<1>4. PoolType'
  BY <1>0, <1>1, <1>3, <1>w DEF PoolType, WorkerPCs
<1>5. TasksOnce'
  <2>1. task' \in [Workers -> Tasks \cup {None}] /\ task'[w] = h
        /\ \A v \in Workers \ {w} : task'[v] = task[v]
    BY <1>0, <1>1, <1>4 DEF PoolType
  <2>2. h \notin done /\ \A v \in Workers : task[v] # h
    BY <1>0, <1>3 DEF TasksOnce
  <2>3. \A t \in Range(queue') : t \notin done' /\ \A v \in Workers : task'[v] # t
    BY <1>0, <1>1, <1>3, <2>1 DEF TasksOnce
  <2>4. \A v \in Workers : task'[v] \notin done'
    BY <1>0, <1>1, <2>1, <2>2 DEF TasksOnce
  <2>5. \A u, v \in Workers : task'[u] = task'[v] /\ task'[u] # None => u = v
    BY <1>0, <2>1, <2>2 DEF TasksOnce
  <2>q. QED
    BY <1>3, <2>3, <2>4, <2>5 DEF TasksOnce
<1>6. WorkersHold'
  <2>1. \A v \in Workers : task'[v] # None <=> pc'[v] \in {"run", "run_notify"}
    BY <1>0, <1>1, <1>w, <1>n DEF WorkersHold, PoolType, Actors
  <2>2. \A v \in Workers : pc'[v] \notin {"barrier", "pop"}
    BY <1>0, <1>1, <1>2, <1>w DEF WorkersHold, PoolType, Actors
  <2>q. QED
    BY <2>1, <2>2 DEF WorkersHold
<1>7. CountIsExact'
  <2>1. Busy' = Busy
    BY <1>0, <1>1, <1>w DEF Busy, BusyPCs, PoolType, Actors
  <2>q. QED
    BY <1>0, <1>1, <2>1 DEF CountIsExact
<1>8. EmptyStays'
  BY <1>0, <1>1, <1>2, <1>w DEF EmptyStays, PoolType, Actors
<1>9. Unfinished' = Unfinished
  <2>1. Taken' = Taken \cup {h}
    <3>1. task'[w] = h /\ \A v \in Workers \ {w} : task'[v] = task[v]
      BY <1>0, <1>1, <1>4 DEF PoolType
    <3>q. QED
      BY <3>1, <1>2, <1>n DEF Taken
  <2>2. Queued' = Queued \ {h} /\ h \in Queued
    BY <1>3 DEF Queued
  <2>q. QED
    BY <2>1, <2>2 DEF Unfinished
<1>q. QED
  BY <1>4, <1>5, <1>6, <1>7, <1>8, <1>9 DEF PoolInv

LEMMA WorkRunKeeps ==
  ASSUME PoolInv, NEW w \in Workers, WorkRun(w)
  PROVE  /\ PoolInv'
         /\ task[w] \in Unfinished /\ task[w] \in Tasks
         /\ Unfinished' = Unfinished \ {task[w]} /\ done' = done \cup {task[w]}
<1>0. PoolType /\ TasksOnce /\ WorkersHold /\ CountIsExact /\ EmptyStays
  BY DEF PoolInv
<1>w. w \in Actors /\ w \notin Clients
  BY ActorsAssumption DEF Actors
<1>1. /\ pc[w] = "run" /\ pc' = [pc EXCEPT ![w] = "finish"]
      /\ done' = done \cup {task[w]} /\ task' = [task EXCEPT ![w] = None]
      /\ UNCHANGED <<queue, active, enable, queueLock, completionLock>>
  BY DEF WorkRun, Goto
<1>2. task[w] # None /\ task[w] \in Tasks
  BY <1>0, <1>1 DEF WorkersHold, PoolType
<1>t. task'[w] = None /\ \A v \in Workers \ {w} : task'[v] = task[v]
  BY <1>0, <1>1 DEF PoolType
<1>3. PoolType'
  BY <1>0, <1>1, <1>2, <1>w DEF PoolType, WorkerPCs
<1>4. TasksOnce'
  <2>1. \A t \in Range(queue') : t \notin done' /\ \A v \in Workers : task'[v] # t
    <3>1. Range(queue) \subseteq Tasks
      BY <1>0, RangeOfSeq DEF PoolType
    <3>2. None \notin Range(queue)
      BY <3>1, NoneAssumption
    <3>q. QED
      BY <1>0, <1>1, <1>t, <3>2 DEF TasksOnce
  <2>2. \A v \in Workers : task'[v] \notin done'
    <3>1. None \notin done'
      BY <1>0, <1>1, <1>2, NoneAssumption DEF PoolType
    <3>q. QED
      BY <1>0, <1>1, <1>2, <1>t, <3>1 DEF TasksOnce
  <2>3. \A u, v \in Workers : task'[u] = task'[v] /\ task'[u] # None => u = v
    BY <1>0, <1>t DEF TasksOnce
  <2>q. QED
    BY <1>0, <1>1, <2>1, <2>2, <2>3 DEF TasksOnce
<1>5. WorkersHold'
  BY <1>0, <1>1, <1>t, <1>w DEF WorkersHold, PoolType, Actors
<1>6. CountIsExact'
  <2>1. Busy' = Busy
    BY <1>0, <1>1, <1>w DEF Busy, BusyPCs, PoolType, Actors
  <2>q. QED
    BY <1>0, <1>1, <2>1 DEF CountIsExact
<1>7. EmptyStays'
  BY <1>0, <1>1, <1>w DEF EmptyStays, PoolType, Actors
<1>8. Taken' = Taken \ {task[w]} /\ task[w] \in Taken
  BY <1>0, <1>2, <1>t DEF Taken, TasksOnce
<1>9. task[w] \notin Queued /\ Queued' = Queued
  BY <1>0, <1>1 DEF Queued, TasksOnce
<1>q. QED
  BY <1>1, <1>2, <1>3, <1>4, <1>5, <1>6, <1>7, <1>8, <1>9 DEF PoolInv, Unfinished

LEMMA WorkFinishKeeps ==
  ASSUME PoolInv, NEW w \in Workers, WorkFinish(w)
  PROVE  PoolInv'
<1>0. PoolType /\ TasksOnce /\ WorkersHold /\ CountIsExact /\ EmptyStays
  BY DEF PoolInv
<1>w. w \in Actors /\ w \notin Clients
  BY ActorsAssumption DEF Actors
<1>1. /\ pc[w] = "finish" /\ pc' = [pc EXCEPT ![w] = "work_notify"] /\ active' = active - 1
      /\ UNCHANGED <<queue, enable, queueLock, task, done>>
  BY DEF WorkFinish, Goto
<1>2. PoolType'
  BY <1>0, <1>1, <1>w DEF PoolType, WorkerPCs
<1>3. TasksOnce'
  BY <1>0, <1>1 DEF TasksOnce
<1>4. WorkersHold'
  BY <1>0, <1>1, <1>w DEF WorkersHold, PoolType, Actors
<1>5. w \in Busy /\ Busy' = Busy \ {w}
  BY <1>0, <1>1, <1>w DEF Busy, BusyPCs, PoolType, Actors
<1>6. CountIsExact'
  BY <1>1, <1>5, CountMoves DEF CountIsExact
<1>7. EmptyStays'
  BY <1>0, <1>1, <1>w DEF EmptyStays, PoolType, Actors
<1>q. QED
  BY <1>2, <1>3, <1>4, <1>6, <1>7 DEF PoolInv

LEMMA WakeKeeps ==
  ASSUME PoolInv, pc' \in [Actors -> WorkerPCs \cup ClientPCs],
         \A a \in Actors : \/ pc'[a] = pc[a]
                           \/ pc[a] = "wait_sleep" /\ pc'[a] = "wait_lock"
                           \/ pc[a] = "work_sleep" /\ pc'[a] = "work_lock"
                           \/ pc[a] = "work_notify" /\ pc'[a] = "work_lock"
                           \/ pc[a] = "destroy_notify" /\ pc'[a] = "join"
                           \/ pc[a] = "async_notify" /\ pc'[a] = "idle"
                           \/ pc[a] = "run_notify" /\ pc'[a] = "run",
         UNCHANGED <<queue, active, enable, queueLock, completionLock, task, done>>
  PROVE  PoolInv' /\ {c \in Clients : pc[c] \in WaitPCs}' = {c \in Clients : pc[c] \in WaitPCs}
<1>0. PoolType /\ TasksOnce /\ WorkersHold /\ CountIsExact /\ EmptyStays
  BY DEF PoolInv
<1>1. PoolType'
  BY <1>0, ActorsAssumption DEF PoolType, Actors, WorkerPCs, ClientPCs
<1>2. TasksOnce'
  BY <1>0 DEF TasksOnce
<1>3. WorkersHold'
  <2>1. \A w \in Workers : pc'[w] \in {"run", "run_notify"} <=> pc[w] \in {"run", "run_notify"}
    BY <1>0 DEF PoolType, Actors, WorkerPCs
  <2>2. \A w \in Workers : pc'[w] \in {"barrier", "pop"} <=> pc[w] \in {"barrier", "pop"}
    BY <1>0 DEF PoolType, Actors, WorkerPCs
  <2>q. QED
    BY <1>0, <2>1, <2>2 DEF WorkersHold
<1>4. CountIsExact'
  <2>1. Busy' = Busy
    BY <1>0 DEF PoolType, Actors, WorkerPCs, Busy, BusyPCs
  <2>q. QED
    BY <1>0, <2>1 DEF CountIsExact
<1>5. EmptyStays'
  BY <1>0 DEF PoolType, Actors, ClientPCs, EmptyStays
<1>6. \A c \in Clients : pc'[c] \in WaitPCs <=> pc[c] \in WaitPCs
  BY <1>0 DEF PoolType, Actors, ClientPCs, WaitPCs
<1>q. QED
  BY <1>1, <1>2, <1>3, <1>4, <1>5, <1>6 DEF PoolInv

(* What the abstract barrier sees of the pool.                              *)
Waiting == {c \in Clients : pc[c] \in WaitPCs}

Silent == UNCHANGED <<Queued, Taken, done, Waiting>>

LEMMA SilentStutters == Silent => UNCHANGED TB!vars
  BY DEF Silent, TB!vars, Unfinished, Waiting

LEMMA QuietIsSilent ==
  ASSUME UNCHANGED <<queue, task, done>>, Waiting' = Waiting
  PROVE  Silent
  BY DEF Silent, Queued, Taken, Range

LEMMA PoolBarrierInit == Init => TB!Init
<1> SUFFICES ASSUME Init PROVE TB!Init
    OBVIOUS
<1>1. Unfinished = {}
  BY DEF Init, Unfinished, Queued, Taken, Range
<1>2. Waiting = {}
  BY ActorsAssumption DEF Init, Waiting, WaitPCs, Actors
<1>q. QED
  BY <1>1, <1>2 DEF Init, TB!Init, Waiting

(* Every step of the pool keeps the invariant and is a step of the barrier  *)
(* or invisible to it.                                                      *)
PoolStep == PoolInv' /\ [TB!Next]_(TB!vars)

LEMMA WorkerKeeps ==
  ASSUME PoolInv, NEW w \in Workers, WorkerStep(w)
  PROVE  PoolStep
<1>0. PoolType /\ TasksOnce /\ WorkersHold /\ CountIsExact /\ EmptyStays
  BY DEF PoolInv
<1>w. w \in Actors /\ w \notin Clients
  BY ActorsAssumption DEF Actors
<1>p. pc \in [Actors -> WorkerPCs \cup ClientPCs]
  BY <1>0 DEF PoolType
<1>m. ASSUME NEW to, pc' = [pc EXCEPT ![w] = to]
      PROVE  Waiting' = Waiting
  BY <1>m, <1>w, <1>p DEF Waiting, Actors
<1>1. CASE WorkLock(w)
  <2>1. PoolInv'
    BY <1>1, WorkLockKeeps
  <2>2. \E to : pc' = [pc EXCEPT ![w] = to]
    BY <1>1 DEF WorkLock, Goto
  <2>3. Waiting' = Waiting /\ UNCHANGED <<queue, task, done>>
    BY <1>1, <1>m, <2>2 DEF WorkLock
  <2>q. QED
    BY <2>1, <2>3, QuietIsSilent, SilentStutters DEF PoolStep
<1>2. CASE WorkBarrier(w)
  <2>1. /\ pc[w] = "barrier" /\ pc' = [pc EXCEPT ![w] = "pop"]
        /\ UNCHANGED <<queue, active, enable, queueLock, completionLock, task, done>>
    BY <1>2 DEF WorkBarrier, Goto
  <2>2. PoolInv'
    BY <1>w, <2>1, PoolMove DEF WorkerPCs, ClientPCs, BusyPCs
  <2>q. QED
    BY <1>m, <2>1, <2>2, QuietIsSilent, SilentStutters DEF PoolStep
<1>3. CASE WorkPop(w)
  <2>1. PoolInv' /\ Unfinished' = Unfinished
    BY <1>3, WorkPopKeeps
  <2>2. Waiting' = Waiting /\ done' = done
    BY <1>3, <1>m DEF WorkPop, Goto
  <2>3. UNCHANGED TB!vars
    BY <2>1, <2>2 DEF TB!vars, Waiting
  <2>q. QED
    BY <2>1, <2>3 DEF PoolStep
<1>4. CASE WorkRun(w)
  <2>1. /\ PoolInv' /\ task[w] \in Unfinished /\ task[w] \in Tasks
        /\ Unfinished' = Unfinished \ {task[w]} /\ done' = done \cup {task[w]}
    BY <1>4, WorkRunKeeps
  <2>2. Waiting' = Waiting
    BY <1>4, <1>m DEF WorkRun, Goto
  <2>3. PICK t \in Tasks : t = task[w]
    BY <2>1
  <2>4. TB!Run(t)
    BY <2>1, <2>2, <2>3 DEF TB!Run, Waiting
  <2>q. QED
    BY <2>1, <2>4 DEF PoolStep, TB!Next
<1>5. CASE WorkFinish(w)
  <2>1. PoolInv'
    BY <1>5, WorkFinishKeeps
  <2>2. Waiting' = Waiting /\ UNCHANGED <<queue, task, done>>
    BY <1>5, <1>m DEF WorkFinish, Goto
  <2>q. QED
    BY <2>1, <2>2, QuietIsSilent, SilentStutters DEF PoolStep
<1>6. CASE WorkNotify(w)
  <2>1. /\ pc[w] = "work_notify"
        /\ pc' = [a \in Actors |-> IF a = w THEN "work_lock"
                                   ELSE IF pc[a] = "wait_sleep" THEN "wait_lock" ELSE pc[a]]
        /\ UNCHANGED <<queue, active, enable, queueLock, completionLock, task, done>>
    BY <1>6 DEF WorkNotify
  <2>2. pc' \in [Actors -> WorkerPCs \cup ClientPCs]
    BY <1>p, <2>1 DEF WorkerPCs, ClientPCs
  <2>3. PoolInv' /\ Waiting' = Waiting
    BY <2>1, <2>2, WakeKeeps DEF Waiting
  <2>q. QED
    BY <2>1, <2>3, QuietIsSilent, SilentStutters DEF PoolStep
<1>q. QED
  BY <1>1, <1>2, <1>3, <1>4, <1>5, <1>6 DEF WorkerStep

LEMMA ClientKeeps ==
  ASSUME PoolInv, NEW c \in Clients, Wait(c) \/ ClientStep(c) \/ Leave(c)
  PROVE  PoolStep
<1>0. PoolType /\ TasksOnce /\ WorkersHold /\ CountIsExact /\ EmptyStays
  BY DEF PoolInv
<1>c. c \in Actors /\ c \notin Workers
  BY ActorsAssumption DEF Actors
<1>p. pc \in [Actors -> WorkerPCs \cup ClientPCs]
  BY <1>0 DEF PoolType
<1>m. ASSUME NEW to, pc' = [pc EXCEPT ![c] = to], pc[c] \in WaitPCs <=> to \in WaitPCs
      PROVE  Waiting' = Waiting
  BY <1>m, <1>c, <1>p DEF Waiting, Actors
<1>1. CASE Wait(c)
  <2>1. /\ pc[c] = "idle" /\ pc' = [pc EXCEPT ![c] = "wait_lock"]
        /\ UNCHANGED <<queue, active, enable, queueLock, completionLock, task, done>>
    BY <1>1 DEF Wait, Goto
  <2>2. PoolInv'
    BY <1>c, <2>1, PoolMove DEF WorkerPCs, ClientPCs, BusyPCs
  <2>3. Waiting' = Waiting \cup {c}
    BY <1>c, <1>p, <2>1 DEF Waiting, WaitPCs, Actors
  <2>4. Unfinished' = Unfinished /\ done' = done
    BY <2>1 DEF Unfinished, Queued, Taken, Range
  <2>5. TB!Wait(c)
    BY <2>3, <2>4 DEF TB!Wait, Waiting
  <2>q. QED
    BY <2>2, <2>5 DEF PoolStep, TB!Next
<1>2. CASE WaitLock(c)
  <2>1. /\ pc[c] = "wait_lock" /\ pc' = [pc EXCEPT ![c] = "wait_queue"]
        /\ UNCHANGED <<queue, active, enable, queueLock, task, done>>
    BY <1>2 DEF WaitLock, Goto
  <2>2. PoolInv'
    BY <1>c, <2>1, PoolMove DEF WorkerPCs, ClientPCs, BusyPCs
  <2>3. Waiting' = Waiting
    BY <1>m, <2>1 DEF WaitPCs
  <2>q. QED
    BY <2>1, <2>2, <2>3, QuietIsSilent, SilentStutters DEF PoolStep
<1>3. CASE WaitQueue(c)
  <2>1. /\ pc[c] = "wait_queue"
        /\ UNCHANGED <<queue, active, enable, queueLock, task, done>>
        /\ \/ queue = << >> /\ pc' = [pc EXCEPT ![c] = "wait_active"]
           \/ pc' = [pc EXCEPT ![c] = "wait_sleep"]
    BY <1>3 DEF WaitQueue, Goto
  <2>2. PoolInv'
    BY <1>c, <2>1, PoolMove DEF WorkerPCs, ClientPCs, BusyPCs
  <2>3. Waiting' = Waiting
    BY <1>m, <2>1 DEF WaitPCs
  <2>q. QED
    BY <2>1, <2>2, <2>3, QuietIsSilent, SilentStutters DEF PoolStep
<1>4. CASE WaitActive(c)
  <2>1. /\ pc[c] = "wait_active"
        /\ pc' = [pc EXCEPT ![c] = IF active = 0 THEN "idle" ELSE "wait_sleep"]
        /\ UNCHANGED <<queue, active, enable, queueLock, task, done>>
    BY <1>4 DEF WaitActive, Goto
  <2>2. PoolInv'
    <3>1. ASSUME NEW to \in {"idle", "wait_sleep"}, pc' = [pc EXCEPT ![c] = to] PROVE PoolInv'
      BY <1>c, <2>1, <3>1, PoolMove DEF WorkerPCs, ClientPCs, BusyPCs
    <3>q. QED
      BY <2>1, <3>1
  <2>3. CASE active # 0
    <3>1. Waiting' = Waiting
      BY <1>m, <2>1, <2>3 DEF WaitPCs
    <3>q. QED
      BY <2>1, <2>2, <3>1, QuietIsSilent, SilentStutters DEF PoolStep
  <2>4. CASE active = 0
    <3>1. Busy = {}
      BY <1>0, <2>4, ActorsAssumption, FS_Subset, FS_EmptySet DEF CountIsExact, Busy
    <3>2. Taken = {}
      BY <1>0, <3>1 DEF Taken, Busy, BusyPCs, WorkersHold
    <3>3. Queued = {}
      BY <1>0, <2>1 DEF EmptyStays, Queued, Range
    <3>4. Unfinished = {} /\ Unfinished' = {} /\ done' = done
      BY <2>1, <3>2, <3>3 DEF Unfinished, Queued, Taken, Range
    <3>5. c \in Waiting /\ Waiting' = Waiting \ {c}
      BY <1>c, <1>p, <2>1, <2>4 DEF Waiting, WaitPCs, Actors
    <3>6. TB!Return(c)
      BY <3>4, <3>5 DEF TB!Return, Waiting
    <3>q. QED
      BY <2>2, <3>6 DEF PoolStep, TB!Next
  <2>q. QED
    BY <2>3, <2>4
<1>5. CASE Leave(c)
  <2>1. /\ pc[c] = "idle" /\ pc' = [pc EXCEPT ![c] = "gone"]
        /\ UNCHANGED <<queue, active, enable, queueLock, completionLock, task, done>>
    BY <1>5 DEF Leave, Goto
  <2>2. PoolInv'
    BY <1>c, <2>1, PoolMove DEF WorkerPCs, ClientPCs, BusyPCs
  <2>3. Waiting' = Waiting
    BY <1>m, <2>1 DEF WaitPCs
  <2>q. QED
    BY <2>1, <2>2, <2>3, QuietIsSilent, SilentStutters DEF PoolStep
<1>q. QED
  BY <1>1, <1>2, <1>3, <1>4, <1>5 DEF ClientStep

LEMMA AsyncKeeps ==
  ASSUME PoolInv, NEW a \in Actors, NEW t \in Tasks, Async(a, t)
  PROVE  PoolStep
<1>0. PoolType /\ TasksOnce /\ WorkersHold /\ CountIsExact /\ EmptyStays
  BY DEF PoolInv
<1>p. pc \in [Actors -> WorkerPCs \cup ClientPCs]
  BY <1>0 DEF PoolType
<1>1. /\ queueLock = None /\ t \notin Added /\ \A c \in Clients : pc[c] \notin WaitPCs
      /\ \/ pc[a] = "idle" /\ pc' = [pc EXCEPT ![a] = "async_notify"]
         \/ pc[a] = "run"  /\ pc' = [pc EXCEPT ![a] = "run_notify"]
      /\ queue' = Append(queue, t)
      /\ UNCHANGED <<active, enable, queueLock, completionLock, task, done>>
  BY DEF Async, Goto
<1>2. t \notin Range(queue) /\ t \notin done /\ \A w \in Workers : task[w] # t
  <2>1. t # None
    BY NoneAssumption
  <2>q. QED
    BY <1>1, <2>1 DEF Added, Unfinished, Queued, Taken
<1>3. /\ queue' \in Seq(Tasks) /\ queue' # << >> /\ Distinct(queue')
      /\ Range(queue') = Range(queue) \cup {t}
  BY <1>0, <1>1, <1>2, DistinctAppend DEF PoolType, TasksOnce
<1>4. PoolType'
  BY <1>0, <1>1, <1>3, ActorsAssumption DEF PoolType, WorkerPCs, ClientPCs, Actors
<1>5. TasksOnce'
  BY <1>0, <1>1, <1>2, <1>3 DEF TasksOnce
<1>6. WorkersHold'
  <2>1. \A w \in Workers : pc'[w] \in {"run", "run_notify"} <=> pc[w] \in {"run", "run_notify"}
    BY <1>0, <1>1, <1>p DEF PoolType, Actors, WorkerPCs
  <2>2. \A w \in Workers : pc'[w] \notin {"barrier", "pop"}
    BY <1>0, <1>1, <1>p, NoneAssumption DEF Actors, WorkersHold
  <2>q. QED
    BY <1>0, <1>1, <2>1, <2>2 DEF WorkersHold
<1>7. CountIsExact'
  <2>1. Busy' = Busy
    BY <1>0, <1>1, <1>p DEF PoolType, Actors, WorkerPCs, Busy, BusyPCs
  <2>q. QED
    BY <1>0, <1>1, <2>1 DEF CountIsExact
<1>8. EmptyStays' /\ Waiting' = Waiting
  <2>1. \A c \in Clients : pc'[c] \notin WaitPCs
    BY <1>1, <1>p DEF WaitPCs, Actors
  <2>q. QED
    BY <1>1, <2>1 DEF EmptyStays, Waiting, WaitPCs
<1>9. Unfinished' = Unfinished \cup {t} /\ t \notin Unfinished /\ done' = done /\ t \notin done
  BY <1>1, <1>2, <1>3 DEF Unfinished, Queued, Taken, Added
<1>10. TB!Submit(t)
  BY <1>8, <1>9 DEF TB!Submit, Waiting
<1>q. QED
  BY <1>4, <1>5, <1>6, <1>7, <1>8, <1>10 DEF PoolInv, PoolStep, TB!Next

LEMMA WakersKeep ==
  ASSUME PoolInv, (\E a \in Actors : Spurious(a) \/ AsyncNotify(a)) \/ DestroyNotify
  PROVE  PoolStep
<1>0. PoolType
  BY DEF PoolInv
<1>1. UNCHANGED <<queue, active, enable, queueLock, completionLock, task, done>>
  BY DEF Spurious, AsyncNotify, DestroyNotify
<1>2. pc' \in [Actors -> WorkerPCs \cup ClientPCs]
  BY <1>0 DEF Spurious, AsyncNotify, DestroyNotify, Goto, PoolType, WorkerPCs, ClientPCs, Actors
<1>3. \A a \in Actors : \/ pc'[a] = pc[a]
                        \/ pc[a] = "wait_sleep" /\ pc'[a] = "wait_lock"
                        \/ pc[a] = "work_sleep" /\ pc'[a] = "work_lock"
                        \/ pc[a] = "work_notify" /\ pc'[a] = "work_lock"
                        \/ pc[a] = "destroy_notify" /\ pc'[a] = "join"
                        \/ pc[a] = "async_notify" /\ pc'[a] = "idle"
                        \/ pc[a] = "run_notify" /\ pc'[a] = "run"
  <2>1. ASSUME NEW a \in Actors, Spurious(a)
        PROVE  \A b \in Actors : \/ pc'[b] = pc[b]
                                 \/ pc[b] = "wait_sleep" /\ pc'[b] = "wait_lock"
                                 \/ pc[b] = "work_sleep" /\ pc'[b] = "work_lock"
    BY <1>0, <2>1 DEF Spurious, Goto, PoolType
  <2>2. ASSUME NEW a \in Actors, AsyncNotify(a)
        PROVE  \A b \in Actors : \/ pc'[b] = pc[b]
                                 \/ pc[b] = "work_sleep" /\ pc'[b] = "work_lock"
                                 \/ pc[b] = "async_notify" /\ pc'[b] = "idle"
                                 \/ pc[b] = "run_notify" /\ pc'[b] = "run"
    <3>1. IF a \in Workers THEN pc[a] = "run_notify" ELSE pc[a] = "async_notify"
      BY <1>0, <2>2 DEF AsyncNotify, PoolType, WorkerPCs, ClientPCs, Actors
    <3>q. QED
      BY <1>0, <2>2, <3>1 DEF AsyncNotify, PoolType, Actors
  <2>3. ASSUME DestroyNotify
        PROVE  \A b \in Actors : \/ pc'[b] = pc[b]
                                 \/ pc[b] = "work_sleep" /\ pc'[b] = "work_lock"
                                 \/ pc[b] = "destroy_notify" /\ pc'[b] = "join"
    BY <2>3 DEF DestroyNotify
  <2>q. QED
    BY <2>1, <2>2, <2>3
<1>4. PoolInv' /\ Waiting' = Waiting
  BY <1>1, <1>2, <1>3, WakeKeeps DEF Waiting
<1>q. QED
  BY <1>1, <1>4, QuietIsSilent, SilentStutters DEF PoolStep

LEMMA DestroyKeeps == ASSUME PoolInv, Destroy \/ DestroyJoin PROVE PoolStep
<1>0. PoolType /\ TasksOnce /\ WorkersHold /\ CountIsExact /\ EmptyStays
  BY DEF PoolInv
<1>o. Owner \in Clients /\ Owner \in Actors /\ Owner \notin Workers
  BY OwnerAssumption, ActorsAssumption DEF Actors
<1>p. pc \in [Actors -> WorkerPCs \cup ClientPCs]
  BY <1>0 DEF PoolType
<1>1. /\ UNCHANGED <<queue, active, queueLock, completionLock, task, done>>
      /\ \/ pc[Owner] = "idle" /\ pc' = [pc EXCEPT ![Owner] = "destroy_notify"]
         \/ pc[Owner] = "join" /\ pc' = [pc EXCEPT ![Owner] = "gone"]
  <2>1. CASE Destroy
    BY <2>1 DEF Destroy, Goto
  <2>2. CASE DestroyJoin
    BY <2>2 DEF DestroyJoin, Goto
  <2>q. QED
    BY <2>1, <2>2
<1>t. PICK to \in {"destroy_notify", "gone"} : pc' = [pc EXCEPT ![Owner] = to]
  BY <1>1
<1>2. PoolType'
  <2>1. pc' \in [Actors -> WorkerPCs \cup ClientPCs] /\ to \in ClientPCs
    BY <1>o, <1>p, <1>t DEF WorkerPCs, ClientPCs
  <2>2. \A a \in Actors : pc'[a] = IF a = Owner THEN to ELSE pc[a]
    BY <1>o, <1>p, <1>t
  <2>3. \A w \in Workers : pc'[w] \in WorkerPCs
    BY <1>0, <1>o, <2>2 DEF PoolType, Actors
  <2>4. \A c \in Clients : pc'[c] \in ClientPCs
    BY <1>0, <1>o, <2>1, <2>2 DEF PoolType, Actors
  <2>q. QED
    BY <1>0, <1>1, <2>1, <2>3, <2>4 DEF PoolType
<1>3. TasksOnce'
  BY <1>0, <1>1 DEF TasksOnce
<1>4. WorkersHold'
  BY <1>0, <1>1, <1>o, <1>p DEF WorkersHold, Actors
<1>5. CountIsExact'
  <2>1. Busy' = Busy
    BY <1>1, <1>o, <1>p DEF Busy, Actors
  <2>q. QED
    BY <1>0, <1>1, <2>1 DEF CountIsExact
<1>6. EmptyStays' /\ Waiting' = Waiting
  BY <1>0, <1>1, <1>o, <1>p DEF EmptyStays, Waiting, WaitPCs, Actors
<1>7. PoolInv'
  BY <1>2, <1>3, <1>4, <1>5, <1>6 DEF PoolInv
<1>q. QED
  BY <1>1, <1>6, <1>7, QuietIsSilent, SilentStutters DEF PoolStep

LEMMA PoolNext == PoolInv /\ [Next]_vars => PoolStep
<1> SUFFICES ASSUME PoolInv, [Next]_vars PROVE PoolStep
    OBVIOUS
<1>1. CASE UNCHANGED vars
  <2>1. PoolInv' /\ Waiting' = Waiting /\ UNCHANGED <<queue, task, done>>
    BY <1>1 DEF vars, PoolInv, PoolType, TasksOnce, WorkersHold, CountIsExact, EmptyStays,
                Busy, Waiting
  <2>q. QED
    BY <2>1, QuietIsSilent, SilentStutters DEF PoolStep
<1>2. ASSUME NEW w \in Workers, WorkerStep(w) PROVE PoolStep
  BY <1>2, WorkerKeeps
<1>3. ASSUME NEW c \in Clients, Wait(c) \/ ClientStep(c) \/ Leave(c) PROVE PoolStep
  BY <1>3, ClientKeeps
<1>4. ASSUME NEW a \in Actors, NEW t \in Tasks, Async(a, t) PROVE PoolStep
  BY <1>4, AsyncKeeps
<1>5. CASE (\E a \in Actors : Spurious(a) \/ AsyncNotify(a)) \/ DestroyNotify
  BY <1>5, WakersKeep
<1>6. CASE Destroy \/ DestroyJoin
  BY <1>6, DestroyKeeps
<1>q. QED
  BY <1>1, <1>2, <1>3, <1>4, <1>5, <1>6 DEF Next, OwnerStep

(* A thread pool runs every task once, and wait() returns only when no task *)
(* that was added is unfinished, for any numbers of workers, clients and    *)
(* tasks (ThreadPool.h: "Blocking wait for all the threads to complete and  *)
(* the queue to be empty").                                                 *)
THEOREM PoolImplementsBarrier == Spec => ImplementsBarrier
<1>1. Spec => []PoolInv
  BY PoolInit, PoolNext, PTL DEF Spec, PoolStep
<1>2. PoolInv /\ [Next]_vars => [TB!Next]_(TB!vars)
  BY PoolNext DEF PoolStep
<1>q. QED
  BY <1>1, <1>2, PoolBarrierInit, PTL DEF Spec, ImplementsBarrier, TB!Spec

(* The workers asleep in QueueCondition.                                   *)
Sleepers == {w \in Workers : pc[w] = "work_sleep"}

LEMMA OversleepSame == NobodyOversleeps <=>
  /\ queue # << >> /\ Sleepers = Workers => \E c \in Clients : pc[c] = "async_notify"
  /\ ~enable /\ Sleepers # {} => pc[Owner] = "destroy_notify"
  BY DEF NobodyOversleeps, Sleepers

LEMMA OversleepNext ==
  ASSUME Workers # {}, PoolInv, NobodyOversleeps, [Next]_vars
  PROVE  NobodyOversleeps'
<1>p. /\ pc \in [Actors -> WorkerPCs \cup ClientPCs]
      /\ \A w \in Workers : pc[w] \in WorkerPCs /\ w \in Actors /\ w \notin Clients
      /\ \A c \in Clients : pc[c] \in ClientPCs /\ c \in Actors /\ c \notin Workers
  BY ActorsAssumption DEF PoolInv, PoolType, Actors
<1>o. Owner \in Clients
  BY OwnerAssumption
<1>i. /\ queue # << >> /\ Sleepers = Workers => \E c \in Clients : pc[c] = "async_notify"
      /\ ~enable /\ Sleepers # {} => pc[Owner] = "destroy_notify"
  BY OversleepSame
<1> DEFINE Told == /\ queue' # << >> /\ Sleepers' = Workers
                        => \E c \in Clients : pc'[c] = "async_notify"
                   /\ ~enable' /\ Sleepers' # {} => pc'[Owner] = "destroy_notify"
<1> SUFFICES Told
  BY OversleepSame DEF NobodyOversleeps, Sleepers
<1>1. CASE UNCHANGED vars
  BY <1>1, <1>i DEF vars, Sleepers
<1>2. ASSUME NEW w \in Workers, WorkLock(w) PROVE Told
  <2>1. /\ \E to : pc' = [pc EXCEPT ![w] = to] /\ (to = "work_sleep" => enable /\ queue = << >>)
        /\ queue' = queue /\ enable' = enable
    BY <1>2 DEF WorkLock, Goto
  <2>q. QED
    BY <1>i, <1>o, <1>p, <2>1 DEF Sleepers
<1>3. ASSUME NEW w \in Workers,
             \/ WorkBarrier(w) \/ WorkPop(w) \/ WorkRun(w) \/ WorkFinish(w) \/ WorkNotify(w)
      PROVE  Told
  <2>1. /\ pc[w] # "work_sleep" /\ pc'[w] # "work_sleep" /\ enable' = enable
        /\ \A c \in Clients : pc[c] = "destroy_notify" => pc'[c] = "destroy_notify"
        /\ \A v \in Workers : pc'[v] = "work_sleep" => pc[v] = "work_sleep"
    BY <1>3, <1>p DEF WorkBarrier, WorkPop, WorkRun, WorkFinish, WorkNotify, Goto
  <2>q. QED
    BY <1>i, <1>o, <2>1 DEF Sleepers
<1>4. ASSUME NEW c \in Clients, Wait(c) \/ ClientStep(c) \/ Leave(c) PROVE Told
  <2>1. /\ \A b \in Actors \ {c} : pc'[b] = pc[b]
        /\ pc[c] \notin {"async_notify", "destroy_notify"}
        /\ queue' = queue /\ enable' = enable
    BY <1>4, <1>p DEF Wait, ClientStep, WaitLock, WaitQueue, WaitActive, Leave, Goto
  <2>2. Sleepers' = Sleepers
    BY <1>p, <2>1 DEF Sleepers
  <2>q. QED
    BY <1>i, <1>o, <1>p, <2>1, <2>2
<1>5. ASSUME NEW a \in Actors, NEW t \in Tasks, Async(a, t) PROVE Told
  <2>1. /\ \A b \in Actors \ {a} : pc'[b] = pc[b]
        /\ enable' = enable
        /\ \/ pc[a] = "idle" /\ pc'[a] = "async_notify"
           \/ pc[a] = "run" /\ pc'[a] = "run_notify"
    BY <1>5, <1>p DEF Async, Goto
  <2>2. Sleepers' = Sleepers /\ (pc'[Owner] = pc[Owner] \/ pc[Owner] # "destroy_notify")
    BY <1>o, <1>p, <2>1 DEF Sleepers
  <2>3. CASE a \in Workers
    BY <1>i, <1>p, <2>1, <2>2, <2>3 DEF Sleepers, WorkerPCs
  <2>4. CASE a \in Clients
    BY <1>i, <1>p, <2>1, <2>2, <2>4 DEF ClientPCs
  <2>q. QED
    BY <2>3, <2>4 DEF Actors
<1>6. ASSUME NEW a \in Actors, Spurious(a) PROVE Told
  <2>1. /\ \A b \in Actors \ {a} : pc'[b] = pc[b]
        /\ queue' = queue /\ enable' = enable
        /\ pc[a] \in {"wait_sleep", "work_sleep"} /\ pc'[a] \in {"wait_lock", "work_lock"}
    BY <1>6, <1>p DEF Spurious, Goto
  <2>2. Sleepers' \subseteq Sleepers /\ (Sleepers' = Workers => Sleepers = Workers)
    BY <1>p, <2>1 DEF Sleepers
  <2>q. QED
    BY <1>i, <1>o, <1>p, <2>1, <2>2
<1>7. ASSUME NEW a \in Actors, AsyncNotify(a) PROVE Told
  <2>1. /\ pc[a] \in {"async_notify", "run_notify"} /\ pc'[a] \in {"idle", "run"}
        /\ queue' = queue /\ enable' = enable
        /\ \/ Sleepers = {} /\ \A b \in Actors \ {a} : pc'[b] = pc[b]
           \/ \E w \in Sleepers : pc'[w] = "work_lock" /\ \A b \in Actors \ {a, w} : pc'[b] = pc[b]
    <3>1. Sleepers = {w \in Workers : pc[w] = "work_sleep"}
      BY DEF Sleepers
    <3>2. pc[a] \in {"async_notify", "run_notify"} /\ queue' = queue /\ enable' = enable
      BY <1>7 DEF AsyncNotify
    <3>3. CASE Sleepers = {}
      BY <1>7, <1>p, <3>1, <3>2, <3>3 DEF AsyncNotify
    <3>4. CASE Sleepers # {}
      <4>1. PICK w \in Sleepers :
              pc' = [pc EXCEPT ![a] = IF a \in Workers THEN "run" ELSE "idle", ![w] = "work_lock"]
        BY <1>7, <3>1, <3>4 DEF AsyncNotify
      <4>2. w # a /\ w \in Actors
        BY <1>p, <3>1, <3>2
      <4>q. QED
        BY <1>p, <3>2, <4>1, <4>2
    <3>q. QED
      BY <3>3, <3>4
  <2>2. Sleepers' \subseteq Sleepers /\ Sleepers' # Workers
    BY <1>p, <2>1 DEF Sleepers
  <2>3. pc[Owner] = "destroy_notify" => pc'[Owner] = "destroy_notify"
    BY <1>o, <1>p, <2>1 DEF Sleepers
  <2>q. QED
    BY <1>i, <2>1, <2>2, <2>3
<1>8. CASE Destroy
  BY <1>8, <1>i, <1>o, <1>p DEF Destroy, Goto, Sleepers
<1>9. CASE DestroyNotify
  BY <1>9, <1>o, <1>p DEF DestroyNotify, Sleepers
<1>10. CASE DestroyJoin
  BY <1>10, <1>i, <1>o, <1>p DEF DestroyJoin, Goto, Sleepers
<1>q. QED
  BY <1>1, <1>2, <1>3, <1>4, <1>5, <1>6, <1>7, <1>8, <1>9, <1>10
     DEF Next, WorkerStep, OwnerStep

(* No worker sleeps through a queued task or through the destruction: a     *)
(* notification that is due is still on its way, though it is sent after    *)
(* QueueLock was given back.  A pool without workers would never run        *)
(* anything.                                                                *)
THEOREM SleepersAreTold == ASSUME Workers # {} PROVE Spec => []NobodyOversleeps
<1>1. Init => PoolInv /\ NobodyOversleeps
  <2>1. Init => NobodyOversleeps
    BY ActorsAssumption DEF Init, NobodyOversleeps, Actors
  <2>q. QED
    BY <2>1, PoolInit
<1>2. PoolInv /\ NobodyOversleeps /\ [Next]_vars => (PoolInv /\ NobodyOversleeps)'
  BY OversleepNext, PoolNext DEF PoolStep
<1>q. QED
  BY <1>1, <1>2, PTL DEF Spec

(***************************************************************************)
(* lld's task groups.                                                      *)
(***************************************************************************)
GActors == GroupTasks \cup {Main}
WorkerStates == {"lock", "asleep", "run", "dec", "exited"}

(* The tasks that a latch counts, those that are finished, and the actors   *)
(* inside sync().                                                           *)
Flying   == {t \in GroupTasks : \/ at[t] \notin {"absent", "finished"}
                                \/ \E a \in GActors : at[a] = "add" /\ spawning[a] = t}
Finished == {t \in GroupTasks : at[t] = "finished"}
Syncing  == {a \in GActors : at[a] \in {"sync", "syncing"}}

GroupType ==
  /\ stack \in Seq(GroupTasks)
  /\ worker \in [G!GroupWorkers -> WorkerStates]
  /\ taken \in [G!GroupWorkers -> GroupTasks \cup {None}]
  /\ at \in [GActors -> G!ActorPCs]
  /\ spawning \in [GActors -> GroupTasks \cup {None}]
  /\ count \in [TreeGroups -> 0 .. LatchModulus - 1]

RunningHave == \A w \in G!GroupWorkers : worker[w] = "run" => taken[w] \in GroupTasks

StackWaits == Distinct(stack) /\ \A t \in Range(stack) : at[t] = "queued"

(* A task that is counted and not yet on the stack is still absent, and its *)
(* parent is the one that puts it there.                                    *)
AddsChild == \A a \in GActors : at[a] = "add" =>
  /\ spawning[a] \in GroupTasks /\ TreeSpawnedBy[spawning[a]] = a
  /\ at[spawning[a]] = "absent"

OwnersSync == \A a \in GActors : at[a] \in {"sync", "syncing"} => G!Owned(a) # {}

LatchesCount ==
  \A g \in TreeGroups : count[g] = Cardinality({t \in Flying : TreeGroupOf[t] = g})

GroupInv ==
  GroupType /\ RunningHave /\ StackWaits /\ AddsChild /\ OwnersSync /\ LatchesCount

GroupAssumed == G!TreeAssumption /\ G!LatchAssumption

LEMMA TreeFacts ==
  ASSUME GroupAssumed
  PROVE  /\ IsFiniteSet(GroupTasks) /\ Main \notin GroupTasks /\ None \notin GroupTasks
         /\ Cardinality(GroupTasks) \in Nat /\ Cardinality(GroupTasks) < LatchModulus
         /\ LatchModulus \in Nat
         /\ TreeGroupOf \in [GroupTasks -> TreeGroups]
         /\ TreeSpawnedBy \in [GroupTasks -> GActors]
         /\ TreeOwnerOf \in [TreeGroups -> GActors]
<1>1. G!TreeAssumption /\ G!LatchAssumption
  BY DEF GroupAssumed
<1>2. IsFiniteSet(GroupTasks) /\ {Main, None} \cap GroupTasks = {}
  BY <1>1 DEF G!TreeAssumption, G!IsFiniteSet, IsFiniteSet
<1>3. Main \notin GroupTasks /\ None \notin GroupTasks
  BY <1>2
<1>4. /\ Cardinality(GroupTasks) \in Nat /\ Cardinality(GroupTasks) < LatchModulus
      /\ LatchModulus \in Nat
  <2>1. G!Cardinality(GroupTasks) = Cardinality(GroupTasks)
    BY DEF G!Cardinality, Cardinality
  <2>2. Cardinality(GroupTasks) \in Nat
    BY <1>2, FS_CardinalityType
  <2>q. QED
    BY <1>1, <2>1, <2>2 DEF G!LatchAssumption
<1>5. TreeGroupOf \in [GroupTasks -> TreeGroups]
  BY <1>1 DEF G!TreeAssumption
<1>6. TreeSpawnedBy \in [GroupTasks -> GActors] /\ TreeOwnerOf \in [TreeGroups -> GActors]
  BY <1>1 DEF G!TreeAssumption, G!Actors, GActors
<1>q. QED
  BY <1>2, <1>3, <1>4, <1>5, <1>6

LEMMA GroupInit == ASSUME GroupAssumed PROVE G!Init => GroupInv
<1> SUFFICES ASSUME G!Init PROVE GroupInv
    OBVIOUS
<1>1. GroupType
  BY TreeFacts DEF G!Init, GroupType, G!Actors, GActors, G!ActorPCs, WorkerStates
<1>2. \A a \in GActors : at[a] = IF a = Main THEN "code" ELSE "absent"
  BY DEF G!Init, G!Actors, GActors
<1>3. StackWaits
  BY DEF G!Init, StackWaits, Distinct, Range
<1>4. RunningHave /\ AddsChild /\ OwnersSync
  BY <1>2 DEF G!Init, RunningHave, AddsChild, OwnersSync
<1>5. Flying = {}
  BY <1>2, TreeFacts DEF Flying, GActors
<1>6. LatchesCount
  <2>1. \A g \in TreeGroups : {t \in Flying : TreeGroupOf[t] = g} = {}
    BY <1>5
  <2>q. QED
    BY <2>1, FS_EmptySet DEF G!Init, LatchesCount
<1>q. QED
  BY <1>1, <1>3, <1>4, <1>6 DEF GroupInv

(* Counting the tasks of a group when one more flies, or one fewer.         *)
LEMMA LatchMoves ==
  ASSUME GroupAssumed, GroupInv, NEW t \in GroupTasks, NEW g \in TreeGroups,
         TreeGroupOf[t] = g
  PROVE  /\ t \notin Flying /\ Flying' = Flying \cup {t} =>
              /\ count[g] + 1 \in 1 .. LatchModulus - 1
              /\ count[g] + 1 = Cardinality({s \in Flying' : TreeGroupOf[s] = g})
         /\ t \in Flying /\ Flying' = Flying \ {t} =>
              /\ count[g] \in 1 .. LatchModulus - 1
              /\ count[g] - 1 = Cardinality({s \in Flying' : TreeGroupOf[s] = g})
         /\ \A h \in TreeGroups \ {g} :
              Flying' \in {Flying \cup {t}, Flying \ {t}} =>
                {s \in Flying' : TreeGroupOf[s] = h} = {s \in Flying : TreeGroupOf[s] = h}
<1> DEFINE S  == {s \in Flying : TreeGroupOf[s] = g}
           Sp == {s \in Flying' : TreeGroupOf[s] = g}
<1>1. S \subseteq GroupTasks /\ Sp \subseteq GroupTasks
  BY DEF Flying
<1>2. /\ IsFiniteSet(S) /\ Cardinality(S) \in Nat
      /\ IsFiniteSet(Sp) /\ Cardinality(Sp) \in Nat
      /\ LatchModulus \in Nat /\ Cardinality(Sp) < LatchModulus
  <2>1. /\ IsFiniteSet(S) /\ Cardinality(S) \in Nat
        /\ IsFiniteSet(Sp) /\ Cardinality(Sp) \in Nat
        /\ Cardinality(Sp) <= Cardinality(GroupTasks)
    BY <1>1, TreeFacts, FS_Subset, FS_CardinalityType
  <2>q. QED
    BY <2>1, TreeFacts
<1>3. count[g] = Cardinality(S)
  BY DEF GroupInv, LatchesCount
<1>4. ASSUME t \notin Flying, Flying' = Flying \cup {t}
      PROVE  count[g] + 1 \in 1 .. LatchModulus - 1 /\ count[g] + 1 = Cardinality(Sp)
  <2>1. Sp = S \cup {t} /\ t \notin S
    BY <1>4
  <2>2. Cardinality(Sp) = Cardinality(S) + 1
    BY <1>2, <2>1, FS_AddElement
  <2>q. QED
    BY <1>2, <1>3, <2>2
<1>5. ASSUME t \in Flying, Flying' = Flying \ {t}
      PROVE  count[g] \in 1 .. LatchModulus - 1 /\ count[g] - 1 = Cardinality(Sp)
  <2>1. Sp = S \ {t} /\ t \in S
    BY <1>5
  <2>2. Cardinality(Sp) = Cardinality(S) - 1
    BY <1>2, <2>1, FS_RemoveElement
  <2>3. Cardinality(S) <= Cardinality(GroupTasks)
    BY <1>1, TreeFacts, FS_Subset
  <2>q. QED
    BY <1>2, <1>3, <2>2, <2>3, TreeFacts
<1>q. QED
  BY <1>4, <1>5

(* A step that moves one actor between two places of the code in which, if  *)
(* it is a task, it is counted.                                             *)
Inside == G!ActorPCs \ {"absent", "queued", "add", "finished"}

LEMMA GroupMove ==
  ASSUME GroupAssumed, GroupInv, NEW a \in GActors, NEW to \in Inside \cup {"finished"},
         at' = [at EXCEPT ![a] = to],
         at[a] \in Inside \cup {"finished"},
         at[a] = "finished" \/ to = "finished" => a = Main,
         to \in {"sync", "syncing"} => G!Owned(a) # {},
         UNCHANGED <<stack, taken, count>>,
         worker' \in [G!GroupWorkers -> WorkerStates],
         \A w \in G!GroupWorkers : worker'[w] = "run" => worker[w] = "run",
         spawning' \in [GActors -> GroupTasks \cup {None}],
         \A b \in GActors : spawning'[b] # spawning[b] => b = a
  PROVE  GroupInv' /\ Flying' = Flying /\ Finished' = Finished
<1>0. GroupType /\ RunningHave /\ StackWaits /\ AddsChild /\ OwnersSync /\ LatchesCount
  BY DEF GroupInv
<1>a. \A b \in GActors : at'[b] = IF b = a THEN to ELSE at[b]
  BY <1>0 DEF GroupType
<1>1. GroupType'
  BY <1>0 DEF GroupType, Inside, G!ActorPCs
<1>2. RunningHave'
  BY <1>0 DEF RunningHave
<1>3. StackWaits'
  <2>1. Range(stack) \subseteq GActors
    BY <1>0, RangeOfSeq DEF GroupType, GActors
  <2>2. a \notin Range(stack)
    BY <1>0 DEF StackWaits, Inside
  <2>q. QED
    BY <1>0, <1>a, <2>1, <2>2 DEF StackWaits
<1>4. \A b \in GActors : at'[b] = "add" <=> at[b] = "add"
  BY <1>a DEF Inside
<1>5. \A b \in GActors : at[b] = "add" => spawning'[b] = spawning[b] /\ b # a
  BY DEF Inside
<1>6. AddsChild'
  <2>1. ASSUME NEW b \in GActors, at'[b] = "add"
        PROVE  spawning[b] \in GActors /\ spawning[b] # a
    BY <1>0, <1>4, <2>1 DEF AddsChild, GActors, Inside
  <2>q. QED
    BY <1>0, <1>a, <1>4, <1>5, <2>1 DEF AddsChild
<1>7. OwnersSync'
  BY <1>0, <1>a DEF OwnersSync
<1>8. Flying' = Flying
  <2>1. \A t \in GroupTasks :
          at'[t] \notin {"absent", "finished"} <=> at[t] \notin {"absent", "finished"}
    BY <1>a, TreeFacts DEF GActors, Inside
  <2>q. QED
    BY <1>4, <1>5, <2>1 DEF Flying
<1>9. Finished' = Finished
  BY <1>a, TreeFacts DEF Finished, GActors, Inside
<1>10. LatchesCount'
  BY <1>0, <1>8 DEF LatchesCount
<1>q. QED
  BY <1>1, <1>2, <1>3, <1>6, <1>7, <1>8, <1>9, <1>10 DEF GroupInv

LEMMA SpawnKeeps ==
  ASSUME GroupAssumed, GroupInv, NEW a \in GActors, NEW t \in GroupTasks, G!Spawn(a, t)
  PROVE  /\ GroupInv' /\ Flying' = Flying \cup {t} /\ Finished' = Finished /\ Syncing' = Syncing
         /\ t \notin Flying /\ t \notin Finished
<1>0. GroupType /\ RunningHave /\ StackWaits /\ AddsChild /\ OwnersSync /\ LatchesCount
  BY DEF GroupInv
<1> DEFINE g == TreeGroupOf[t]
<1>g. g \in TreeGroups
  BY TreeFacts
<1>1. /\ TreeSpawnedBy[t] = a /\ at[t] = "absent" /\ at[a] = "code"
      /\ at' = [at EXCEPT ![a] = "add"]
      /\ count' = [count EXCEPT ![g] = (count[g] + 1) % LatchModulus]
      /\ spawning' = [spawning EXCEPT ![a] = t]
      /\ UNCHANGED <<stack, stop, doneCount, worker, taken, hasValue>>
  BY DEF G!Spawn, G!Children, G!Goto
<1> HIDE DEF g
<1>a. \A b \in GActors : /\ at'[b] = IF b = a THEN "add" ELSE at[b]
                         /\ spawning'[b] = IF b = a THEN t ELSE spawning[b]
  BY <1>0, <1>1 DEF GroupType
<1>t. t \in GActors /\ t # a
  BY <1>1 DEF GActors
<1>2. t \notin Flying /\ t \notin Finished
  BY <1>0, <1>1 DEF Flying, Finished, AddsChild
<1>3. Flying' = Flying \cup {t}
  <2>1. \A s \in GroupTasks :
          at'[s] \notin {"absent", "finished"} <=> at[s] \notin {"absent", "finished"}
    BY <1>a, <1>1 DEF GActors
  <2>2. \A s \in GroupTasks : (\E b \in GActors : at'[b] = "add" /\ spawning'[b] = s)
          <=> s = t \/ \E b \in GActors : at[b] = "add" /\ spawning[b] = s
    BY <1>a, <1>1
  <2>q. QED
    BY <2>1, <2>2 DEF Flying
<1>4. Finished' = Finished /\ Syncing' = Syncing
  BY <1>a, <1>1 DEF Finished, Syncing, GActors
<1>5. count[g] + 1 \in 1 .. LatchModulus - 1 /\ count' = [count EXCEPT ![g] = count[g] + 1]
  <2>1. count[g] + 1 \in 1 .. LatchModulus - 1
    BY <1>g, <1>2, <1>3, LatchMoves DEF g
  <2>2. (count[g] + 1) % LatchModulus = count[g] + 1
    BY <2>1, TreeFacts
  <2>q. QED
    BY <1>1, <2>1, <2>2
<1>6. GroupType'
  <2>1. count' \in [TreeGroups -> 0 .. LatchModulus - 1]
    <3>1. count \in [TreeGroups -> 0 .. LatchModulus - 1] /\ count[g] + 1 \in 0 .. LatchModulus - 1
      BY <1>0, <1>5 DEF GroupType
    <3>q. QED
      BY <1>5, <3>1
  <2>2. at' \in [GActors -> G!ActorPCs]
    BY <1>0, <1>1 DEF GroupType, G!ActorPCs
  <2>3. spawning' \in [GActors -> GroupTasks \cup {None}]
    BY <1>0, <1>1 DEF GroupType
  <2>q. QED
    BY <1>0, <1>1, <2>1, <2>2, <2>3 DEF GroupType
<1>7. RunningHave'
  BY <1>0, <1>1 DEF RunningHave
<1>8. StackWaits'
  <2>1. Range(stack) \subseteq GActors
    BY <1>0, RangeOfSeq DEF GroupType, GActors
  <2>q. QED
    BY <1>0, <1>1, <1>a, <2>1 DEF StackWaits
<1>9. AddsChild'
  BY <1>0, <1>1, <1>a, <1>t DEF AddsChild, GActors
<1>10. OwnersSync'
  BY <1>0, <1>a DEF OwnersSync
<1>11. LatchesCount'
  <2>1. count'[g] = count[g] + 1 /\ \A h \in TreeGroups \ {g} : count'[h] = count[h]
    BY <1>0, <1>g, <1>5 DEF GroupType
  <2>2. count[g] + 1 = Cardinality({s \in Flying' : TreeGroupOf[s] = g})
    BY <1>g, <1>2, <1>3, LatchMoves DEF g
  <2>3. \A h \in TreeGroups \ {g} :
          {s \in Flying' : TreeGroupOf[s] = h} = {s \in Flying : TreeGroupOf[s] = h}
    BY <1>3 DEF g
  <2>q. QED
    BY <1>0, <2>1, <2>2, <2>3 DEF LatchesCount
<1>q. QED
  BY <1>2, <1>3, <1>4, <1>6, <1>7, <1>8, <1>9, <1>10, <1>11 DEF GroupInv

LEMMA AddKeeps ==
  ASSUME GroupAssumed, GroupInv, NEW a \in GActors, G!Add(a)
  PROVE  GroupInv' /\ Flying' = Flying /\ Finished' = Finished /\ Syncing' = Syncing
<1>0. GroupType /\ RunningHave /\ StackWaits /\ AddsChild /\ OwnersSync /\ LatchesCount
  BY DEF GroupInv
<1> DEFINE c == spawning[a]
<1>1. /\ at[a] = "add" /\ stack' = << c >> \o stack
      /\ at' = [at EXCEPT ![a] = "notify", ![c] = "queued"]
      /\ spawning' = [spawning EXCEPT ![a] = None]
      /\ UNCHANGED <<stop, doneCount, worker, taken, count, hasValue>>
  BY DEF G!Add
<1>2. c \in GroupTasks /\ TreeSpawnedBy[c] = a /\ at[c] = "absent" /\ c \in GActors /\ c # a
  BY <1>0, <1>1 DEF AddsChild, GActors
<1> HIDE DEF c
<1>a. \A b \in GActors :
        /\ at'[b] = IF b = c THEN "queued" ELSE IF b = a THEN "notify" ELSE at[b]
        /\ spawning'[b] = IF b = a THEN None ELSE spawning[b]
  BY <1>0, <1>1, <1>2 DEF GroupType
<1>s. \A b \in GActors : b # a /\ at[b] = "add" => spawning[b] # c
  BY <1>0, <1>2 DEF AddsChild
<1>3. c \notin Range(stack)
  BY <1>0, <1>2 DEF StackWaits
<1>4. stack' \in Seq(GroupTasks) /\ Distinct(stack') /\ Range(stack') = Range(stack) \cup {c}
  BY <1>0, <1>1, <1>2, <1>3, DistinctPush DEF GroupType, StackWaits
<1>5. GroupType'
  <2>1. at' \in [GActors -> G!ActorPCs]
    BY <1>0, <1>1 DEF GroupType, G!ActorPCs
  <2>2. spawning' \in [GActors -> GroupTasks \cup {None}]
    BY <1>0, <1>1 DEF GroupType
  <2>q. QED
    BY <1>0, <1>1, <1>4, <2>1, <2>2 DEF GroupType
<1>6. RunningHave'
  BY <1>0, <1>1 DEF RunningHave
<1>7. StackWaits'
  <2>1. Range(stack) \subseteq GActors /\ a \notin Range(stack)
    BY <1>0, <1>1, RangeOfSeq DEF GroupType, GActors, StackWaits
  <2>q. QED
    BY <1>0, <1>4, <1>a, <1>2, <2>1 DEF StackWaits
<1>8. AddsChild'
  <2>1. ASSUME NEW b \in GActors, at'[b] = "add"
        PROVE  /\ b # a /\ at[b] = "add" /\ spawning'[b] = spawning[b]
               /\ spawning[b] \in GActors /\ spawning[b] # c /\ spawning[b] # a
    BY <1>0, <1>1, <1>a, <1>s, <2>1 DEF AddsChild, GActors
  <2>q. QED
    BY <1>0, <1>a, <2>1 DEF AddsChild
<1>9. OwnersSync'
  BY <1>0, <1>a DEF OwnersSync
<1>10. Flying' = Flying
  <2>1. ASSUME NEW t \in GroupTasks, t # c
        PROVE  /\ at'[t] \notin {"absent", "finished"} <=> at[t] \notin {"absent", "finished"}
               /\ (\E b \in GActors : at'[b] = "add" /\ spawning'[b] = t)
                    <=> \E b \in GActors : at[b] = "add" /\ spawning[b] = t
    <3>1. at'[t] \notin {"absent", "finished"} <=> at[t] \notin {"absent", "finished"}
      <4>1. t \in GActors
        BY DEF GActors
      <4>2. at'[t] = IF t = a THEN "notify" ELSE at[t]
        BY <1>a, <2>1, <4>1
      <4>q. QED
        BY <1>1, <4>2
    <3>2. \A b \in GActors : at'[b] = "add" /\ spawning'[b] = t => at[b] = "add" /\ spawning[b] = t
      BY <1>1, <1>a
    <3>3. \A b \in GActors : at[b] = "add" /\ spawning[b] = t => at'[b] = "add" /\ spawning'[b] = t
      BY <1>1, <1>2, <1>a, <2>1 DEF c
    <3>q. QED
      BY <3>1, <3>2, <3>3
  <2>2. c \in Flying /\ at'[c] = "queued"
    BY <1>1, <1>2, <1>a DEF Flying, c
  <2>q. QED
    BY <1>2, <2>1, <2>2 DEF Flying
<1>11. Finished' = Finished /\ Syncing' = Syncing
  <2>1. \A b \in GActors : /\ at'[b] = "finished" <=> at[b] = "finished"
                           /\ at'[b] \in {"sync", "syncing"} <=> at[b] \in {"sync", "syncing"}
    <3>1. at[a] = "add" /\ at[c] = "absent"
      BY <1>1, <1>2
    <3>2. \A b \in GActors : at'[b] = IF b = c THEN "queued" ELSE IF b = a THEN "notify" ELSE at[b]
      BY <1>a
    <3>q. QED
      BY <3>1, <3>2
  <2>q. QED
    BY <2>1 DEF Finished, Syncing, GActors
<1>12. LatchesCount'
  BY <1>0, <1>1, <1>10 DEF LatchesCount
<1>q. QED
  BY <1>5, <1>6, <1>7, <1>8, <1>9, <1>10, <1>11, <1>12 DEF GroupInv

LEMMA DecKeeps ==
  ASSUME GroupAssumed, GroupInv, NEW w \in G!GroupWorkers, G!Dec(w)
  PROVE  /\ GroupInv' /\ Syncing' = Syncing
         /\ taken[w] \in GroupTasks /\ taken[w] \in Flying /\ taken[w] \notin Finished
         /\ Flying' = Flying \ {taken[w]} /\ Finished' = Finished \cup {taken[w]}
<1>0. GroupType /\ RunningHave /\ StackWaits /\ AddsChild /\ OwnersSync /\ LatchesCount
  BY DEF GroupInv
<1>w. worker[w] = "run" /\ taken[w] \in GroupTasks
  BY <1>0 DEF G!Dec, RunningHave
<1>t. PICK t \in GroupTasks : t = taken[w]
  BY <1>w
<1>g. PICK g \in TreeGroups : g = TreeGroupOf[t]
  BY TreeFacts
<1>1. /\ at[t] = "dec"
      /\ count' = [count EXCEPT ![g] = G!Less(count[g])]
      /\ \E woken \in SUBSET {a \in GActors : at[a] = "syncing"} :
           at' = [a \in GActors |-> IF a = t THEN "finished"
                                    ELSE IF a \in woken THEN "sync" ELSE at[a]]
      /\ worker' = [worker EXCEPT ![w] = "lock"]
      /\ taken' = [taken EXCEPT ![w] = None]
      /\ UNCHANGED <<stack, stop, doneCount, spawning, hasValue>>
  <2> DEFINE woken == {a \in GActors :
                       a = TreeOwnerOf[g] /\ at[a] = "syncing" /\ G!Less(count[g]) = 0}
  <2>1. woken \in SUBSET {a \in GActors : at[a] = "syncing"}
    OBVIOUS
  <2>2. at' = [a \in GActors |-> IF a = t THEN "finished"
                                 ELSE IF a \in woken THEN "sync" ELSE at[a]]
    BY <1>t, <1>g DEF G!Dec, G!Actors, GActors
  <2>3. count' = [count EXCEPT ![g] = G!Less(count[g])]
    BY <1>t, <1>g DEF G!Dec
  <2> HIDE DEF woken
  <2>q. QED
    BY <1>t, <2>1, <2>2, <2>3 DEF G!Dec
<1>a. \A a \in GActors : /\ a = t => at'[a] = "finished"
                         /\ a # t => \/ at'[a] = at[a]
                                     \/ at[a] = "syncing" /\ at'[a] = "sync"
  BY <1>1
<1>u. t \in GActors
  BY DEF GActors
<1>2. t \in Flying /\ t \notin Finished
  BY <1>1 DEF Flying, Finished
<1>3. Flying' = Flying \ {t}
  <2>1. \A b \in GActors : /\ spawning'[b] = spawning[b]
                           /\ at'[b] = "add" <=> at[b] = "add"
                           /\ at[b] = "add" => spawning[b] # t
    BY <1>0, <1>1, <1>a DEF AddsChild
  <2>2. \A s \in GroupTasks \ {t} :
          at'[s] \notin {"absent", "finished"} <=> at[s] \notin {"absent", "finished"}
    BY <1>a DEF GActors
  <2>q. QED
    BY <1>a, <1>u, <2>1, <2>2 DEF Flying
<1>4. Finished' = Finished \cup {t}
  BY <1>a DEF Finished, GActors
<1>5. Syncing' = Syncing
  BY <1>1, <1>a DEF Syncing
<1>6. count' = [count EXCEPT ![g] = count[g] - 1] /\ count[g] \in 1 .. LatchModulus - 1
  <2>1. count[g] \in 1 .. LatchModulus - 1
    BY <1>g, <1>2, <1>3, LatchMoves
  <2>2. G!Less(count[g]) = count[g] - 1
    BY <2>1, TreeFacts DEF G!Less
  <2>q. QED
    BY <1>1, <2>1, <2>2
<1>7. GroupType'
  <2>1. count' \in [TreeGroups -> 0 .. LatchModulus - 1]
    <3>1. count \in [TreeGroups -> 0 .. LatchModulus - 1] /\ count[g] - 1 \in 0 .. LatchModulus - 1
      BY <1>0, <1>6, TreeFacts DEF GroupType
    <3>q. QED
      BY <1>6, <3>1
  <2>2. at' \in [GActors -> G!ActorPCs]
    BY <1>0, <1>1 DEF GroupType, G!ActorPCs
  <2>3. /\ worker' \in [G!GroupWorkers -> WorkerStates]
        /\ taken' \in [G!GroupWorkers -> GroupTasks \cup {None}]
    BY <1>0, <1>1 DEF GroupType, WorkerStates
  <2>q. QED
    BY <1>0, <1>1, <2>1, <2>2, <2>3 DEF GroupType
<1>8. RunningHave'
  BY <1>0, <1>1 DEF RunningHave, GroupType
<1>9. StackWaits'
  <2>1. Range(stack) \subseteq GActors /\ t \notin Range(stack)
    BY <1>0, <1>1, RangeOfSeq DEF GroupType, GActors, StackWaits
  <2>q. QED
    BY <1>0, <1>1, <1>a, <2>1 DEF StackWaits
<1>10. AddsChild'
  <2>1. ASSUME NEW b \in GActors, at'[b] = "add"
        PROVE  /\ at[b] = "add" /\ spawning'[b] = spawning[b]
               /\ spawning[b] \in GActors /\ spawning[b] # t
    BY <1>0, <1>1, <1>a, <2>1 DEF AddsChild, GActors
  <2>q. QED
    BY <1>0, <1>a, <2>1 DEF AddsChild
<1>11. OwnersSync'
  BY <1>0, <1>a, <1>1 DEF OwnersSync
<1>12. LatchesCount'
  <2>1. count'[g] = count[g] - 1 /\ \A h \in TreeGroups \ {g} : count'[h] = count[h]
    BY <1>0, <1>6 DEF GroupType
  <2>2. count[g] - 1 = Cardinality({s \in Flying' : TreeGroupOf[s] = g})
    BY <1>g, <1>2, <1>3, LatchMoves
  <2>3. \A h \in TreeGroups \ {g} :
          {s \in Flying' : TreeGroupOf[s] = h} = {s \in Flying : TreeGroupOf[s] = h}
    BY <1>3, <1>g
  <2>q. QED
    BY <1>0, <2>1, <2>2, <2>3 DEF LatchesCount
<1>q. QED
  BY <1>t, <1>2, <1>3, <1>4, <1>5, <1>7, <1>8, <1>9, <1>10, <1>11, <1>12 DEF GroupInv

LEMMA TakeKeeps ==
  ASSUME GroupAssumed, GroupInv, NEW w \in G!GroupWorkers, G!Work(w)
  PROVE  GroupInv' /\ Flying' = Flying /\ Finished' = Finished /\ Syncing' = Syncing
<1>0. GroupType /\ RunningHave /\ StackWaits /\ AddsChild /\ OwnersSync /\ LatchesCount
  BY DEF GroupInv
<1>1. CASE stop \/ stack = << >>
  <2>1. /\ \E to \in {"dec", "asleep"} : worker' = [worker EXCEPT ![w] = to]
        /\ UNCHANGED <<stack, taken, at, stop, doneCount, count, spawning, hasValue>>
    BY <1>1 DEF G!Work
  <2>2. GroupType' /\ RunningHave'
    BY <1>0, <2>1 DEF GroupType, RunningHave, WorkerStates
  <2>q. QED
    BY <1>0, <2>1, <2>2 DEF GroupInv, StackWaits, AddsChild, OwnersSync, LatchesCount, Flying,
                            Finished, Syncing
<1>2. CASE ~stop /\ stack # << >>
  <2> DEFINE h == Head(stack)
  <2>1. /\ worker[w] = "lock" /\ worker' = [worker EXCEPT ![w] = "run"]
        /\ taken' = [taken EXCEPT ![w] = h] /\ stack' = Tail(stack)
        /\ at' = [at EXCEPT ![h] = "code"]
        /\ UNCHANGED <<stop, doneCount, count, spawning, hasValue>>
    BY <1>2 DEF G!Work
  <2>2. /\ stack' \in Seq(GroupTasks) /\ h \in GroupTasks /\ Distinct(stack')
        /\ h \in Range(stack) /\ Range(stack') = Range(stack) \ {h}
    BY <1>0, <1>2, <2>1, DistinctTail DEF GroupType, StackWaits
  <2>3. at[h] = "queued" /\ h \in GActors
    BY <1>0, <2>2 DEF StackWaits, GActors
  <2> HIDE DEF h
  <2>a. \A b \in GActors : at'[b] = IF b = h THEN "code" ELSE at[b]
    BY <1>0, <2>1 DEF GroupType
  <2>4. GroupType'
    <3>1. at' \in [GActors -> G!ActorPCs]
      BY <1>0, <2>1 DEF GroupType, G!ActorPCs
    <3>2. /\ worker' \in [G!GroupWorkers -> WorkerStates]
          /\ taken' \in [G!GroupWorkers -> GroupTasks \cup {None}]
      BY <1>0, <2>1, <2>2 DEF GroupType, WorkerStates
    <3>q. QED
      BY <1>0, <2>1, <2>2, <3>1, <3>2 DEF GroupType
  <2>5. RunningHave'
    BY <1>0, <2>1, <2>2 DEF RunningHave, GroupType
  <2>6. StackWaits'
    <3>1. Range(stack) \subseteq GActors
      BY <1>0, RangeOfSeq DEF GroupType, GActors
    <3>q. QED
      BY <1>0, <2>2, <2>a, <3>1 DEF StackWaits
  <2>7. AddsChild'
    <3>1. ASSUME NEW b \in GActors, at'[b] = "add"
          PROVE  /\ at[b] = "add" /\ spawning'[b] = spawning[b]
                 /\ spawning[b] \in GActors /\ spawning[b] # h
      BY <1>0, <2>1, <2>3, <2>a, <3>1 DEF AddsChild, GActors
    <3>q. QED
      BY <1>0, <2>a, <3>1 DEF AddsChild
  <2>8. OwnersSync'
    BY <1>0, <2>a DEF OwnersSync
  <2>9. Flying' = Flying
    <3>1. \A b \in GActors : at'[b] = "add" <=> at[b] = "add"
      BY <2>3, <2>a
    <3>2. \A s \in GroupTasks :
            at'[s] \notin {"absent", "finished"} <=> at[s] \notin {"absent", "finished"}
      BY <2>3, <2>a DEF GActors
    <3>q. QED
      BY <2>1, <3>1, <3>2 DEF Flying
  <2>10. Finished' = Finished /\ Syncing' = Syncing
    BY <2>3, <2>a DEF Finished, Syncing, GActors
  <2>11. LatchesCount'
    BY <1>0, <2>1, <2>9 DEF LatchesCount
  <2>q. QED
    BY <2>4, <2>5, <2>6, <2>7, <2>8, <2>9, <2>10, <2>11 DEF GroupInv
<1>q. QED
  BY <1>1, <1>2

LEMMA IdleWorkersKeep ==
  ASSUME GroupAssumed, GroupInv, NEW w \in G!GroupWorkers, G!Spurious(w) \/ G!WorkDone(w)
  PROVE  GroupInv' /\ Flying' = Flying /\ Finished' = Finished /\ Syncing' = Syncing
<1>0. GroupType /\ RunningHave /\ StackWaits /\ AddsChild /\ OwnersSync /\ LatchesCount
  BY DEF GroupInv
<1>1. /\ \E to \in {"lock", "exited"} : worker' = [worker EXCEPT ![w] = to]
      /\ UNCHANGED <<stack, taken, at, count, spawning>>
  BY DEF G!Spurious, G!WorkDone
<1>2. GroupType' /\ RunningHave'
  BY <1>0, <1>1 DEF GroupType, RunningHave, WorkerStates
<1>q. QED
  BY <1>0, <1>1, <1>2 DEF GroupInv, StackWaits, AddsChild, OwnersSync, LatchesCount, Flying,
                          Finished, Syncing

(* The abstract barrier's state in terms of the sets above.                 *)
SeenStatus == [t \in GroupTasks |->
                 IF at[t] = "finished" THEN "done"
                 ELSE IF t \in G!InFlight(TreeGroupOf[t]) THEN "submitted" ELSE "new"]
Status == [t \in GroupTasks |-> IF t \in Finished THEN "done"
                                ELSE IF t \in Flying THEN "submitted" ELSE "new"]
SeenWaiting == {a \in G!Actors : at[a] \in {"sync", "syncing"}}

LEMMA SeenIs ==
  /\ SeenStatus = Status /\ SeenWaiting = Syncing
  /\ SeenStatus' = Status' /\ SeenWaiting' = Syncing'
<1>1. SeenWaiting = Syncing /\ SeenWaiting' = Syncing'
  BY DEF SeenWaiting, Syncing, G!Actors, GActors
<1>2. \A t \in GroupTasks : t \in G!InFlight(TreeGroupOf[t]) <=> t \in Flying
  BY DEF G!InFlight, Flying, G!Actors, GActors
<1>3. \A t \in GroupTasks : t \in G!InFlight(TreeGroupOf[t])' <=> t \in Flying'
  BY DEF G!InFlight, Flying, G!Actors, GActors
<1>q. QED
  BY <1>1, <1>2, <1>3 DEF SeenStatus, Status, Finished

LEMMA GroupStutters ==
  ASSUME UNCHANGED <<Flying, Finished, Syncing>>
  PROVE  UNCHANGED G!TB!vars
<1>1. SeenStatus' = SeenStatus /\ SeenWaiting' = SeenWaiting
  BY SeenIs DEF Status
<1>q. QED
  BY <1>1 DEF G!TB!vars, SeenStatus, SeenWaiting

GroupStep == GroupInv' /\ [G!TB!Next]_(G!TB!vars)

LEMMA ActorKeeps ==
  ASSUME GroupAssumed, GroupInv, NEW a \in GActors,
         G!Notify(a) \/ G!EndCode(a) \/ G!Sync(a) \/ \E t \in GroupTasks : G!Get(a, t)
  PROVE  GroupStep
<1>0. GroupType /\ RunningHave /\ StackWaits /\ AddsChild /\ OwnersSync /\ LatchesCount
  BY DEF GroupInv
<1>p. at \in [GActors -> G!ActorPCs] /\ spawning \in [GActors -> GroupTasks \cup {None}]
      /\ worker \in [G!GroupWorkers -> WorkerStates]
  BY <1>0 DEF GroupType
<1>m. ASSUME NEW to, at' = [at EXCEPT ![a] = to]
      PROVE  /\ (to \in {"sync", "syncing"} <=> at[a] \in {"sync", "syncing"}) => Syncing' = Syncing
             /\ to \in {"sync", "syncing"} => Syncing' = Syncing \cup {a}
             /\ to \notin {"sync", "syncing"} => Syncing' = Syncing \ {a}
  BY <1>m, <1>p DEF Syncing
<1>k. worker' = worker => worker' \in [G!GroupWorkers -> WorkerStates]
                           /\ \A w \in G!GroupWorkers : worker'[w] = "run" => worker[w] = "run"
  BY <1>p
<1>1. CASE G!Notify(a)
  <2>1. /\ at[a] = "notify" /\ at' = [at EXCEPT ![a] = "code"]
        /\ UNCHANGED <<stack, taken, count, spawning>>
    BY <1>1 DEF G!Notify, G!Goto
  <2>2. worker' = worker \/ \E w \in G!GroupWorkers : worker' = [worker EXCEPT ![w] = "lock"]
    BY <1>1 DEF G!Notify
  <2>3. /\ worker' \in [G!GroupWorkers -> WorkerStates]
        /\ \A w \in G!GroupWorkers : worker'[w] = "run" => worker[w] = "run"
    BY <1>p, <2>2 DEF WorkerStates
  <2>4. GroupInv' /\ Flying' = Flying /\ Finished' = Finished
    BY <1>p, <2>1, <2>3, GroupMove DEF Inside, G!ActorPCs
  <2>5. Syncing' = Syncing
    BY <1>p, <2>1 DEF Syncing
  <2>q. QED
    BY <2>4, <2>5, GroupStutters DEF GroupStep
<1>2. ASSUME NEW t \in GroupTasks, G!Get(a, t) PROVE GroupStep
  <2>1. PICK to \in {"code", "getting"} : at' = [at EXCEPT ![a] = to]
    BY <1>2 DEF G!Get
  <2>2. /\ at[a] \in {"code", "getting"}
        /\ UNCHANGED <<stack, taken, count, worker>>
        /\ \E x \in {t, None} : spawning' = [spawning EXCEPT ![a] = x]
    BY <1>2 DEF G!Get
  <2>3. /\ spawning' \in [GActors -> GroupTasks \cup {None}]
        /\ \A b \in GActors : spawning'[b] # spawning[b] => b = a
    BY <1>p, <2>2
  <2>4. GroupInv' /\ Flying' = Flying /\ Finished' = Finished
    BY <1>k, <2>1, <2>2, <2>3, GroupMove DEF Inside, G!ActorPCs
  <2>q. QED
    BY <1>m, <2>1, <2>2, <2>4, GroupStutters DEF GroupStep
<1>3. CASE G!EndCode(a)
  <2>1. /\ at[a] = "code" /\ UNCHANGED <<stack, taken, count, worker, spawning>>
        /\ at' = [at EXCEPT ![a] = IF G!Owned(a) # {} THEN "sync" ELSE "dec"]
    BY <1>3 DEF G!EndCode, G!Goto
  <2>2. CASE G!Owned(a) = {}
    <3>1. at' = [at EXCEPT ![a] = "dec"]
      BY <2>1, <2>2
    <3>2. GroupInv' /\ Flying' = Flying /\ Finished' = Finished
      BY <1>p, <1>k, <2>1, <3>1, GroupMove DEF Inside, G!ActorPCs
    <3>q. QED
      BY <1>m, <2>1, <3>1, <3>2, GroupStutters DEF GroupStep
  <2>3. CASE G!Owned(a) # {}
    <3>1. at' = [at EXCEPT ![a] = "sync"]
      BY <2>1, <2>3
    <3>2. GroupInv' /\ Flying' = Flying /\ Finished' = Finished
      BY <1>p, <1>k, <2>1, <2>3, <3>1, GroupMove DEF Inside, G!ActorPCs
    <3>3. Syncing' = Syncing \cup {a}
      BY <1>m, <3>1
    <3>4. SeenStatus' = SeenStatus /\ SeenWaiting' = SeenWaiting \cup {a}
      BY <3>2, <3>3, SeenIs DEF Status
    <3>5. G!TB!Wait(a)
      BY <3>4 DEF G!TB!Wait, SeenStatus, SeenWaiting
    <3>6. a \in {TreeOwnerOf[g] : g \in TreeGroups}
      BY <2>3 DEF G!Owned
    <3>q. QED
      BY <3>2, <3>5, <3>6 DEF GroupStep, G!TB!Next
  <2>q. QED
    BY <2>2, <2>3
<1>4. CASE G!Sync(a)
  <2>1. at[a] = "sync" /\ UNCHANGED <<stack, taken, count, worker, spawning>>
    BY <1>4 DEF G!Sync
  <2>2. CASE \E g \in G!Owned(a) : count[g] # 0
    <3>1. at' = [at EXCEPT ![a] = "syncing"] /\ G!Owned(a) # {}
      BY <1>4, <2>2 DEF G!Sync
    <3>2. GroupInv' /\ Flying' = Flying /\ Finished' = Finished
      BY <1>p, <1>k, <2>1, <3>1, GroupMove DEF Inside, G!ActorPCs
    <3>q. QED
      BY <1>m, <2>1, <3>1, <3>2, GroupStutters DEF GroupStep
  <2>3. CASE \A g \in G!Owned(a) : count[g] = 0
    <3>1. PICK to \in {"finished", "dec"} :
            at' = [at EXCEPT ![a] = to] /\ (to = "finished" => a = Main)
      BY <1>4, <2>3 DEF G!Sync
    <3>2. GroupInv' /\ Flying' = Flying /\ Finished' = Finished
      BY <1>p, <1>k, <2>1, <3>1, GroupMove DEF Inside, G!ActorPCs
    <3>3. Syncing' = Syncing \ {a} /\ a \in Syncing
      BY <1>m, <2>1, <3>1 DEF Syncing
    <3>4. SeenStatus' = SeenStatus /\ SeenWaiting' = SeenWaiting \ {a} /\ a \in SeenWaiting
      BY <3>2, <3>3, SeenIs DEF Status
    <3>5. ASSUME NEW t \in GroupTasks, TreeOwnerOf[TreeGroupOf[t]] = a
          PROVE  SeenStatus[t] # "submitted"
      <4>1. TreeGroupOf[t] \in G!Owned(a) /\ TreeGroupOf[t] \in TreeGroups
        BY <3>5, TreeFacts DEF G!Owned
      <4>2. Cardinality({s \in Flying : TreeGroupOf[s] = TreeGroupOf[t]}) = 0
        BY <1>0, <2>3, <4>1 DEF LatchesCount
      <4>3. {s \in Flying : TreeGroupOf[s] = TreeGroupOf[t]} = {}
        <5>1. IsFiniteSet({s \in Flying : TreeGroupOf[s] = TreeGroupOf[t]})
          BY TreeFacts, FS_Subset DEF Flying
        <5>q. QED
          BY <4>2, <5>1, FS_EmptySet
      <4>4. t \notin Flying
        BY <4>3
      <4>q. QED
        BY <4>4, SeenIs DEF Status
    <3>6. PICK o \in {TreeOwnerOf[g] : g \in TreeGroups} : o = a
      BY <1>0, <2>1 DEF OwnersSync, G!Owned
    <3>7. G!TB!Return(o)
      BY <3>4, <3>5, <3>6 DEF G!TB!Return, SeenStatus, SeenWaiting
    <3>q. QED
      BY <3>2, <3>7 DEF GroupStep, G!TB!Next
  <2>q. QED
    BY <2>2, <2>3
<1>q. QED
  BY <1>1, <1>2, <1>3, <1>4

LEMMA EndKeeps ==
  ASSUME GroupAssumed, GroupInv, G!Stop \/ G!Destroy
  PROVE  GroupStep
<1>0. GroupType
  BY DEF GroupInv
<1>p. at \in [GActors -> G!ActorPCs] /\ spawning \in [GActors -> GroupTasks \cup {None}]
      /\ worker \in [G!GroupWorkers -> WorkerStates]
  BY <1>0 DEF GroupType
<1>1. /\ \E to \in {"stopping", "gone"} : at' = [at EXCEPT ![Main] = to]
      /\ at[Main] \in {"finished", "stopping"}
      /\ UNCHANGED <<stack, taken, count, spawning>>
  BY DEF G!Stop, G!Destroy, G!Goto
<1>2. /\ worker' \in [G!GroupWorkers -> WorkerStates]
      /\ \A w \in G!GroupWorkers : worker'[w] = "run" => worker[w] = "run"
  BY <1>p DEF G!Stop, G!Destroy, WorkerStates
<1>3. Main \in GActors
  BY DEF GActors
<1>4. GroupInv' /\ Flying' = Flying /\ Finished' = Finished
  BY <1>p, <1>1, <1>2, <1>3, GroupMove DEF Inside, G!ActorPCs
<1>5. Syncing' = Syncing
  BY <1>p, <1>1, <1>3 DEF Syncing
<1>q. QED
  BY <1>4, <1>5, GroupStutters DEF GroupStep

LEMMA GroupNext ==
  ASSUME GroupAssumed
  PROVE  GroupInv /\ [G!Next]_(G!vars) => GroupStep
<1> SUFFICES ASSUME GroupInv, [G!Next]_(G!vars) PROVE GroupStep
    OBVIOUS
<1>a. G!Actors = GActors
  BY DEF G!Actors, GActors
<1>1. CASE UNCHANGED G!vars
  <2>1. GroupInv' /\ UNCHANGED <<Flying, Finished, Syncing>>
    BY <1>1 DEF G!vars, GroupInv, GroupType, RunningHave, StackWaits, AddsChild, OwnersSync,
                LatchesCount, Flying, Finished, Syncing
  <2>q. QED
    BY <2>1, GroupStutters DEF GroupStep
<1>2. ASSUME NEW w \in G!GroupWorkers, G!Work(w) \/ G!WorkDone(w) \/ G!Spurious(w) PROVE GroupStep
  <2>1. GroupInv' /\ UNCHANGED <<Flying, Finished, Syncing>>
    BY <1>2, TakeKeeps, IdleWorkersKeep
  <2>q. QED
    BY <2>1, GroupStutters DEF GroupStep
<1>3. ASSUME NEW w \in G!GroupWorkers, G!Dec(w) PROVE GroupStep
  <2>1. /\ GroupInv' /\ Syncing' = Syncing
        /\ taken[w] \in GroupTasks /\ taken[w] \in Flying /\ taken[w] \notin Finished
        /\ Flying' = Flying \ {taken[w]} /\ Finished' = Finished \cup {taken[w]}
    BY <1>3, DecKeeps
  <2>2. PICK t \in GroupTasks : t = taken[w]
    BY <2>1
  <2>3. SeenStatus[t] = "submitted" /\ SeenStatus' = [SeenStatus EXCEPT ![t] = "done"]
        /\ SeenWaiting' = SeenWaiting
    BY <2>1, <2>2, SeenIs DEF Status
  <2>4. G!TB!Run(t)
    BY <2>3 DEF G!TB!Run, SeenStatus, SeenWaiting
  <2>q. QED
    BY <2>1, <2>4 DEF GroupStep, G!TB!Next
<1>4. ASSUME NEW a \in GActors, NEW t \in GroupTasks, G!Spawn(a, t) PROVE GroupStep
  <2>1. /\ GroupInv' /\ Flying' = Flying \cup {t} /\ Finished' = Finished /\ Syncing' = Syncing
        /\ t \notin Flying /\ t \notin Finished
    BY <1>4, SpawnKeeps
  <2>2. SeenStatus[t] = "new" /\ SeenStatus' = [SeenStatus EXCEPT ![t] = "submitted"]
        /\ SeenWaiting' = SeenWaiting
    BY <2>1, SeenIs DEF Status
  <2>3. G!TB!Submit(t)
    BY <2>2 DEF G!TB!Submit, SeenStatus, SeenWaiting
  <2>q. QED
    BY <2>1, <2>3 DEF GroupStep, G!TB!Next
<1>5. ASSUME NEW a \in GActors, G!Add(a) PROVE GroupStep
  BY <1>5, AddKeeps, GroupStutters DEF GroupStep
<1>6. ASSUME NEW a \in GActors,
             G!Notify(a) \/ G!EndCode(a) \/ G!Sync(a) \/ \E t \in GroupTasks : G!Get(a, t)
      PROVE  GroupStep
  BY <1>6, ActorKeeps
<1>7. CASE G!Stop \/ G!Destroy
  BY <1>7, EndKeeps
<1>8. CASE at[Main] = "gone" /\ UNCHANGED G!vars
  BY <1>1, <1>8
<1>q. QED
  BY <1>1, <1>2, <1>3, <1>4, <1>5, <1>6, <1>7, <1>8, <1>a DEF G!Next, G!WorkerStep, G!ActorStep

LEMMA GroupBarrierInit == ASSUME GroupAssumed PROVE G!Init => G!TB!Init
<1> SUFFICES ASSUME G!Init PROVE G!TB!Init
    OBVIOUS
<1>1. \A a \in GActors : at[a] = IF a = Main THEN "code" ELSE "absent"
  BY DEF G!Init, G!Actors, GActors
<1>2. Flying = {} /\ Finished = {} /\ Syncing = {}
  BY <1>1, TreeFacts DEF Flying, Finished, Syncing, GActors
<1>3. SeenStatus = [t \in GroupTasks |-> "new"] /\ SeenWaiting = {}
  BY <1>2, SeenIs DEF Status
<1>q. QED
  BY <1>3 DEF G!TB!Init, SeenStatus, SeenWaiting

(***************************************************************************)
(* ManagedStatic.                                                          *)
(***************************************************************************)
Kinds == {"access", "create", "delete", "shutdown"}
Calls == Kinds \X (0 .. StaticCount)

(* What runs in a thread, the innermost last: accesses on their way to the  *)
(* mutex are innermost, a shutdown outermost, a deletion right inside it,   *)
(* and no static is there twice.                                            *)
WellNested(c) ==
  /\ \A n \in 1 .. Len(c) :
       /\ c[n][1] = "access" => n = Len(c)
       /\ c[n][1] = "shutdown" => n = 1 /\ c[n][2] = 0
       /\ c[n][1] = "delete" => n = 2 /\ c[1][1] = "shutdown"
       /\ c[n][1] # "shutdown" => c[n][2] \in 1 .. StaticCount
  /\ \A m, n \in 1 .. Len(c) : c[m][2] = c[n][2] => m = n

(* One of the calls needs the mutex; one of them is a k of static s.        *)
NeedsIn(c)     == \E n \in 1 .. Len(c) : c[n][1] # "access"
Named(c, k, s) == \E n \in 1 .. Len(c) : c[n][1] = k /\ c[n][2] = s

LEMMA PushCall ==
  ASSUME NEW c \in Seq(Calls), NEW e \in Calls
  PROVE  /\ Append(c, e) \in Seq(Calls) /\ Append(c, e) # << >>
         /\ Len(Append(c, e)) = Len(c) + 1 /\ Len(c) \in Nat
         /\ Append(c, e)[Len(c) + 1] = e
         /\ \A n \in 1 .. Len(c) : Append(c, e)[n] = c[n]
  BY AppendProperties, LenProperties

LEMMA PopCall ==
  ASSUME NEW c \in Seq(Calls), c # << >>
  PROVE  /\ M!Front(c) \in Seq(Calls) /\ M!Last(c) = c[Len(c)] /\ M!Last(c) \in Calls
         /\ Len(M!Front(c)) = Len(c) - 1 /\ Len(c) \in Nat /\ Len(c) >= 1
         /\ \A n \in 1 .. Len(c) - 1 : M!Front(c)[n] = c[n]
<1>1. Len(c) \in Nat /\ Len(c) >= 1
  BY LenProperties, EmptySeq
<1>2. M!Front(c) = SubSeq(c, 1, Len(c) - 1) /\ M!Last(c) = c[Len(c)]
  BY DEF M!Front, M!Last
<1>3. /\ SubSeq(c, 1, Len(c) - 1) \in Seq(Calls)
      /\ Len(SubSeq(c, 1, Len(c) - 1)) = Len(c) - 1
      /\ \A n \in 1 .. Len(c) - 1 : SubSeq(c, 1, Len(c) - 1)[n] = c[n]
  <2>1. \A n \in 1 .. Len(c) - 1 : c[n] \in Calls
    BY <1>1, ElementOfSeq
  <2>2. 1 \in Int /\ Len(c) - 1 \in Int /\ (Len(c) - 1) - 1 + 1 = Len(c) - 1
        /\ \A n \in 1 .. Len(c) - 1 : 1 + n - 1 = n
    BY <1>1
  <2>3. /\ SubSeq(c, 1, Len(c) - 1) \in Seq(Calls)
        /\ Len(SubSeq(c, 1, Len(c) - 1)) = IF 1 <= Len(c) - 1 THEN Len(c) - 1 - 1 + 1 ELSE 0
        /\ \A n \in 1 .. Len(c) - 1 - 1 + 1 : SubSeq(c, 1, Len(c) - 1)[n] = c[1 + n - 1]
    BY <2>1, <2>2, SubSeqProperties
  <2>q. QED
    BY <1>1, <2>2, <2>3
<1>4. c[Len(c)] \in Calls
  BY <1>1, ElementOfSeq
<1>q. QED
  BY <1>1, <1>2, <1>3, <1>4

LEMMA NestPush ==
  ASSUME NEW c \in Seq(Calls), NEW e \in Calls, WellNested(c),
         \A n \in 1 .. Len(c) : c[n][1] # "access" /\ c[n][2] # e[2],
         e[1] \in {"access", "create"} => e[2] # 0,
         e[1] = "shutdown" => c = << >> /\ e[2] = 0,
         e[1] = "delete" => Len(c) = 1 /\ c[1][1] = "shutdown" /\ e[2] # 0
  PROVE  /\ WellNested(Append(c, e))
         /\ NeedsIn(Append(c, e)) <=> NeedsIn(c) \/ e[1] # "access"
         /\ \A k, s : Named(Append(c, e), k, s) <=> Named(c, k, s) \/ (e[1] = k /\ e[2] = s)
<1> DEFINE d == Append(c, e)
<1>1. /\ Len(d) = Len(c) + 1 /\ Len(c) \in Nat /\ d[Len(c) + 1] = e
      /\ \A n \in 1 .. Len(c) : d[n] = c[n]
  BY PushCall
<1>e. e[1] \in Kinds /\ e[2] \in 0 .. StaticCount
  BY DEF Calls
<1>s. e[1] = "shutdown" => Len(c) = 0
  BY <1>1, EmptySeq
<1> HIDE DEF d
<1>2. WellNested(d)
  <2>1. ASSUME NEW n \in 1 .. Len(d)
        PROVE  /\ d[n][1] = "access" => n = Len(d)
               /\ d[n][1] = "shutdown" => n = 1 /\ d[n][2] = 0
               /\ d[n][1] = "delete" => n = 2 /\ d[1][1] = "shutdown"
               /\ d[n][1] # "shutdown" => d[n][2] \in 1 .. StaticCount
    <3>1. CASE n = Len(c) + 1
      BY <1>1, <1>e, <1>s, <3>1 DEF Kinds
    <3>2. CASE n \in 1 .. Len(c)
      BY <1>1, <3>2 DEF WellNested
    <3>q. QED
      BY <1>1, <3>1, <3>2
  <2>2. ASSUME NEW m \in 1 .. Len(d), NEW n \in 1 .. Len(d), d[m][2] = d[n][2]
        PROVE  m = n
    BY <1>1, <2>2 DEF WellNested
  <2>q. QED
    BY <2>1, <2>2 DEF WellNested
<1>3. NeedsIn(d) <=> NeedsIn(c) \/ e[1] # "access"
  <2>1. NeedsIn(c) => NeedsIn(d)
    BY <1>1 DEF NeedsIn
  <2>2. e[1] # "access" => NeedsIn(d)
    BY <1>1 DEF NeedsIn
  <2>3. NeedsIn(d) => NeedsIn(c) \/ e[1] # "access"
    BY <1>1 DEF NeedsIn
  <2>q. QED
    BY <2>1, <2>2, <2>3
<1>4. ASSUME NEW k, NEW s
      PROVE  Named(d, k, s) <=> Named(c, k, s) \/ (e[1] = k /\ e[2] = s)
  <2>1. Named(c, k, s) => Named(d, k, s)
    BY <1>1 DEF Named
  <2>2. e[1] = k /\ e[2] = s => Named(d, k, s)
    BY <1>1 DEF Named
  <2>3. Named(d, k, s) => Named(c, k, s) \/ (e[1] = k /\ e[2] = s)
    BY <1>1 DEF Named
  <2>q. QED
    BY <2>1, <2>2, <2>3
<1>q. QED
  BY <1>2, <1>3, <1>4 DEF d

LEMMA NestPop ==
  ASSUME NEW c \in Seq(Calls), c # << >>, WellNested(c)
  PROVE  /\ WellNested(M!Front(c))
         /\ NeedsIn(c) <=> NeedsIn(M!Front(c)) \/ M!Last(c)[1] # "access"
         /\ \A k, s : Named(c, k, s) <=>
              Named(M!Front(c), k, s) \/ (M!Last(c)[1] = k /\ M!Last(c)[2] = s)
         /\ \A n \in 1 .. Len(M!Front(c)) : /\ M!Front(c)[n][1] # "access"
                                            /\ M!Front(c)[n][2] # M!Last(c)[2]
<1> DEFINE f == M!Front(c)  l == M!Last(c)
<1>1. /\ f \in Seq(Calls) /\ l = c[Len(c)]
      /\ Len(f) = Len(c) - 1 /\ Len(c) \in Nat /\ Len(c) >= 1
      /\ \A n \in 1 .. Len(c) - 1 : f[n] = c[n]
  BY PopCall
<1> HIDE DEF f, l
<1>2. WellNested(f)
  <2>1. \A n \in 1 .. Len(f) : n \in 1 .. Len(c) /\ n # Len(c) /\ f[n] = c[n]
    BY <1>1
  <2>2. ASSUME NEW n \in 1 .. Len(f)
        PROVE  /\ f[n][1] # "access"
               /\ f[n][1] = "shutdown" => n = 1 /\ f[n][2] = 0
               /\ f[n][1] = "delete" => n = 2 /\ f[1][1] = "shutdown"
               /\ f[n][1] # "shutdown" => f[n][2] \in 1 .. StaticCount
    BY <1>1, <2>1 DEF WellNested
  <2>3. \A m, n \in 1 .. Len(f) : f[m][2] = f[n][2] => m = n
    BY <2>1 DEF WellNested
  <2>q. QED
    BY <2>2, <2>3 DEF WellNested
<1>3. NeedsIn(c) <=> NeedsIn(f) \/ l[1] # "access"
  <2>1. NeedsIn(f) => NeedsIn(c)
    BY <1>1 DEF NeedsIn
  <2>2. l[1] # "access" => NeedsIn(c)
    BY <1>1 DEF NeedsIn
  <2>3. NeedsIn(c) => NeedsIn(f) \/ l[1] # "access"
    <3>1. ASSUME NEW n \in 1 .. Len(c), c[n][1] # "access", n # Len(c) PROVE NeedsIn(f)
      BY <1>1, <3>1 DEF NeedsIn
    <3>q. QED
      BY <1>1, <3>1 DEF NeedsIn
  <2>q. QED
    BY <2>1, <2>2, <2>3
<1>4. ASSUME NEW k, NEW s
      PROVE  Named(c, k, s) <=> Named(f, k, s) \/ (l[1] = k /\ l[2] = s)
  <2>1. Named(f, k, s) => Named(c, k, s)
    BY <1>1 DEF Named
  <2>2. l[1] = k /\ l[2] = s => Named(c, k, s)
    BY <1>1 DEF Named
  <2>3. ASSUME NEW n \in 1 .. Len(c), c[n][1] = k, c[n][2] = s, n # Len(c) PROVE Named(f, k, s)
    BY <1>1, <2>3 DEF Named
  <2>q. QED
    BY <1>1, <2>1, <2>2, <2>3 DEF Named
<1>5. \A n \in 1 .. Len(f) : f[n][1] # "access" /\ f[n][2] # l[2]
  BY <1>1 DEF WellNested
<1>q. QED
  BY <1>2, <1>3, <1>4, <1>5 DEF f, l

Creating == {s \in 1 .. StaticCount : \E t \in Clients : Named(calls[t], "create", s)}
Deleting == {s \in 1 .. StaticCount : \E t \in Clients : Named(calls[t], "delete", s)}

StaticType ==
  /\ StaticList \in Seq(1 .. StaticCount) /\ Distinct(StaticList)
  /\ calls \in [Clients -> Seq(Calls)]
  /\ alive \in [1 .. StaticCount -> Int]
  /\ uses \in [1 .. StaticCount -> SUBSET (1 .. StaticCount)]

(* The mutex is held by the thread with a call that needs it.               *)
CallsNest == \A t \in Clients :
  WellNested(calls[t]) /\ (NeedsIn(calls[t]) <=> holder = t)

(* The statics with an object are the listed ones and the one that is being *)
(* destroyed; one that is being made is not yet among them.                 *)
ListIsPtr ==
  /\ Ptr = Range(StaticList) \cup Deleting
  /\ Range(StaticList) \cap Deleting = {} /\ Ptr \cap Creating = {}
AliveIsExact == \A s \in 1 .. StaticCount : alive[s] = IF s \in Ptr \cup Creating THEN 1 ELSE 0

(* What a creator used is further down the list: of a listed static, of the *)
(* one that is being destroyed, and of one that is being made, unless it is *)
(* about to be made itself.                                                 *)
UsedAreOlder == \A i \in 1 .. Len(StaticList) : \A u \in uses[StaticList[i]] :
  \E j \in i + 1 .. Len(StaticList) : StaticList[j] = u
UsedOutlive == \A s \in Deleting : uses[s] \subseteq Range(StaticList)
Covered(c, l) == \A n \in 1 .. Len(c) : c[n][1] = "create" =>
  \A u \in uses[c[n][2]] : u \in Range(l) \/ (n < Len(c) /\ c[n + 1][2] = u)
UsedAreComing == \A t \in Clients : Covered(calls[t], StaticList)

StaticInv ==
  /\ StaticType /\ CallsNest /\ ListIsPtr /\ AliveIsExact
  /\ UsedAreOlder /\ UsedOutlive /\ UsedAreComing

LEMMA StaticInit == ASSUME M!StaticsAssumption PROVE M!Init => StaticInv
<1> SUFFICES ASSUME M!Init PROVE StaticInv
    OBVIOUS
<1>1. /\ Ptr = {} /\ StaticList = << >> /\ holder = None
      /\ calls = [t \in Clients |-> << >>]
      /\ alive = [s \in 1 .. StaticCount |-> 0] /\ uses = [s \in 1 .. StaticCount |-> {}]
  BY DEF M!Init, M!Statics
<1>2. Creating = {} /\ Deleting = {} /\ Range(StaticList) = {}
  BY <1>1 DEF Creating, Deleting, Named, Range
<1>3. StaticType
  BY <1>1 DEF StaticType, Distinct
<1>4. CallsNest
  BY <1>1 DEF CallsNest, WellNested, NeedsIn, M!StaticsAssumption
<1>5. ListIsPtr /\ AliveIsExact /\ UsedOutlive
  BY <1>1, <1>2 DEF ListIsPtr, AliveIsExact, UsedOutlive
<1>6. UsedAreOlder /\ UsedAreComing
  BY <1>1 DEF UsedAreOlder, UsedAreComing, Covered
<1>q. QED
  BY <1>3, <1>4, <1>5, <1>6 DEF StaticInv

LEMMA StaticParts == StaticInv =>
  /\ StaticType /\ CallsNest /\ ListIsPtr /\ AliveIsExact
  /\ UsedAreOlder /\ UsedOutlive /\ UsedAreComing
  BY DEF StaticInv

(* Only the holder of the mutex makes or destroys.                          *)
LEMMA OnlyHolder ==
  ASSUME CallsNest, NEW t \in Clients, NEW k, NEW s, Named(calls[t], k, s), k # "access"
  PROVE  holder = t
  BY DEF CallsNest, Named, NeedsIn

LEMMA DeletesInShutdown ==
  ASSUME CallsNest, StaticType, Deleting # {}
  PROVE  M!ShutDown
<1>1. PICK t \in Clients : \E s : Named(calls[t], "delete", s)
  BY DEF Deleting
<1>2. PICK n \in 1 .. Len(calls[t]) : calls[t][n][1] = "delete"
  BY <1>1 DEF Named
<1>3. calls[t][1][1] = "shutdown"
  BY <1>2 DEF CallsNest, WellNested
<1>4. calls[t] # << >>
  BY <1>2
<1>q. QED
  BY <1>3, <1>4 DEF M!ShutDown

(* The innermost call of a thread.                                          *)
LEMMA TopFacts ==
  ASSUME StaticType, NEW t \in Clients
  PROVE  /\ calls[t] \in Seq(Calls)
         /\ M!Top(t)[1] \in Kinds => calls[t] # << >>
         /\ calls[t] # << >> =>
              M!Top(t) = M!Last(calls[t]) /\ M!Last(calls[t]) = calls[t][Len(calls[t])]
  BY DEF StaticType, M!Top, M!Last, Kinds

(* A thread that holds the mutex, or could, shares it with nobody: what is  *)
(* made or destroyed is so inside its own calls.                            *)
LEMMA OwnCalls ==
  ASSUME CallsNest, M!StaticsAssumption, NEW t \in Clients, holder \in {None, t}
  PROVE  /\ \A s \in Creating : Named(calls[t], "create", s)
         /\ \A s \in Deleting : Named(calls[t], "delete", s)
         /\ \A u \in Clients \ {t} : \A n \in 1 .. Len(calls[u]) : calls[u][n][1] = "access"
<1>1. \A u \in Clients : \A k \in {"create", "delete"} : \A s : Named(calls[u], k, s) => u = t
  BY OnlyHolder DEF M!StaticsAssumption
<1>2. \A u \in Clients \ {t} : ~NeedsIn(calls[u])
  BY DEF CallsNest, M!StaticsAssumption
<1>q. QED
  BY <1>1, <1>2 DEF Creating, Deleting, NeedsIn

(* How pushing, replacing and popping a call of t change what is made and   *)
(* what is destroyed.                                                       *)
LEMMA OthersSame ==
  ASSUME StaticType, NEW t \in Clients, NEW c, calls' = [calls EXCEPT ![t] = c]
  PROVE  calls'[t] = c /\ \A u \in Clients \ {t} : calls'[u] = calls[u]
  BY DEF StaticType

LEMMA MakingMoves ==
  ASSUME StaticType, NEW t \in Clients, NEW c, calls' = [calls EXCEPT ![t] = c]
  PROVE  /\ \A s \in 1 .. StaticCount : (Named(c, "create", s) <=> Named(calls[t], "create", s)) =>
              (s \in Creating' <=> s \in Creating)
         /\ \A s \in 1 .. StaticCount : (Named(c, "delete", s) <=> Named(calls[t], "delete", s)) =>
              (s \in Deleting' <=> s \in Deleting)
         /\ \A s \in 1 .. StaticCount : Named(c, "create", s) => s \in Creating'
         /\ \A s \in 1 .. StaticCount : Named(c, "delete", s) => s \in Deleting'
         /\ \A s \in 1 .. StaticCount : (\A u \in Clients \ {t} : ~Named(calls[u], "create", s)) =>
              (s \in Creating' <=> Named(c, "create", s))
         /\ \A s \in 1 .. StaticCount : (\A u \in Clients \ {t} : ~Named(calls[u], "delete", s)) =>
              (s \in Deleting' <=> Named(c, "delete", s))
<1>1. calls'[t] = c /\ \A u \in Clients \ {t} : calls'[u] = calls[u]
  BY OthersSame
<1>2. \A k, s : Named(calls[t], k, s)' <=> Named(c, k, s)
  BY <1>1 DEF Named
<1>3. \A u \in Clients \ {t} : \A k, s : Named(calls[u], k, s)' <=> Named(calls[u], k, s)
  BY <1>1 DEF Named
<1>4. \A k : \A s : (\E u \in Clients : Named(calls[u], k, s)') <=>
        Named(c, k, s) \/ \E u \in Clients \ {t} : Named(calls[u], k, s)
  BY <1>2, <1>3
<1>5. \A k : \A s : (\E u \in Clients : Named(calls[u], k, s)) <=>
        Named(calls[t], k, s) \/ \E u \in Clients \ {t} : Named(calls[u], k, s)
  OBVIOUS
<1>q. QED
  BY <1>4, <1>5 DEF Creating, Deleting

LEMMA AccessKeeps ==
  ASSUME M!StaticsAssumption, StaticInv, NEW t \in Clients, NEW s \in 1 .. StaticCount,
         M!Access(t, s)
  PROVE  StaticInv'
<1>0. /\ StaticType /\ CallsNest /\ ListIsPtr /\ AliveIsExact
      /\ UsedAreOlder /\ UsedOutlive /\ UsedAreComing
  BY StaticParts
<1> DEFINE c == calls[t]  x == M!Top(t)[2]
<1>1. /\ M!ShutDown => holder = t
      /\ \A n \in 1 .. Len(c) : c[n][2] # s
      /\ c # << >> => c[Len(c)][1] \in {"create", "delete"}
      /\ UNCHANGED <<Ptr, StaticList, holder, made, alive>>
  <2>1. DOMAIN c = 1 .. Len(c)
    BY <1>0, LenProperties DEF StaticType
  <2>2. c # << >> => c[Len(c)][1] \in {"create", "delete"}
    <3>1. ASSUME c # << >> PROVE M!Top(t) = c[Len(c)] /\ c[Len(c)] \in Calls
      BY <1>0, <3>1, TopFacts, PopCall
    <3>2. ASSUME c # << >> PROVE c[Len(c)][1] \in Kinds
      BY <3>1, <3>2 DEF Calls
    <3>q. QED
      BY <3>1, <3>2 DEF M!Access, Kinds
  <2>q. QED
    BY <2>1, <2>2 DEF M!Access
<1>c. c \in Seq(Calls) /\ WellNested(c) /\ (NeedsIn(c) <=> holder = t)
  BY <1>0 DEF StaticType, CallsNest
<1>l. Len(c) \in Nat
  BY <1>c, LenProperties
<1>x. M!Top(t)[1] = "create" =>
        /\ c # << >> /\ x = c[Len(c)][2] /\ c[Len(c)][1] = "create" /\ Len(c) >= 1
        /\ Named(c, "create", x) /\ x \in Creating /\ x \in 1 .. StaticCount
  <2> SUFFICES ASSUME M!Top(t)[1] = "create"
               PROVE  /\ c # << >> /\ x = c[Len(c)][2] /\ c[Len(c)][1] = "create" /\ Len(c) >= 1
                      /\ Named(c, "create", x) /\ x \in Creating /\ x \in 1 .. StaticCount
    OBVIOUS
  <2>1. c # << >> /\ M!Top(t) = c[Len(c)]
    BY <1>0, TopFacts DEF Kinds
  <2>2. Len(c) >= 1
    BY <1>c, <2>1, PopCall
  <2>3. x \in 1 .. StaticCount
    BY <1>c, <1>l, <2>1, <2>2 DEF WellNested
  <2>q. QED
    BY <1>l, <2>1, <2>2, <2>3 DEF Named, Creating
<1> HIDE DEF x
<1>d. s \notin Deleting
  <2> SUFFICES ASSUME s \in Deleting PROVE FALSE
    OBVIOUS
  <2>1. holder = t
    BY <1>0, <1>1, DeletesInShutdown
  <2>2. Named(c, "delete", s)
    BY <1>0, <2>1, OwnCalls
  <2>q. QED
    BY <1>1, <2>2 DEF Named
<1>u. /\ uses' \in [1 .. StaticCount -> SUBSET (1 .. StaticCount)]
      /\ \A y \in 1 .. StaticCount : y # x \/ M!Top(t)[1] # "create" => uses'[y] = uses[y]
      /\ M!Top(t)[1] = "create" => uses'[x] = uses[x] \cup {s}
  BY <1>0, <1>x DEF M!Access, StaticType, x
<1>n. \A y \in 1 .. StaticCount : y \notin Creating => uses'[y] = uses[y]
  BY <1>u, <1>x
<1>r. /\ \A i \in 1 .. Len(StaticList) :
           StaticList[i] \in 1 .. StaticCount /\ StaticList[i] \in Range(StaticList)
      /\ Range(StaticList) \subseteq 1 .. StaticCount
  <2>1. /\ StaticList \in Seq(1 .. StaticCount)
        /\ DOMAIN StaticList = 1 .. Len(StaticList)
    BY <1>0, LenProperties DEF StaticType
  <2>2. \A i \in 1 .. Len(StaticList) : StaticList[i] \in 1 .. StaticCount
    BY <2>1, ElementOfSeq
  <2>q. QED
    BY <2>1, <2>2 DEF Range
<1>2. UsedAreOlder'
  <2>1. \A i \in 1 .. Len(StaticList) : uses'[StaticList[i]] = uses[StaticList[i]]
    BY <1>0, <1>n, <1>r DEF ListIsPtr
  <2>2. \A i \in 1 .. Len(StaticList) : \A u \in uses'[StaticList[i]] :
          \E j \in i + 1 .. Len(StaticList) : StaticList[j] = u
    BY <1>0, <2>1 DEF UsedAreOlder
  <2>3. StaticList' = StaticList
    BY <1>1
  <2>q. QED
    BY <2>2, <2>3 DEF UsedAreOlder
<1>w. \A u \in Clients : \A n \in 1 .. Len(calls[u]) : calls[u][n][1] = "create" =>
        /\ calls[u][n][2] \in 1 .. StaticCount
        /\ M!Top(t)[1] = "create" /\ calls[u][n][2] = x => u = t /\ n = Len(c)
  <2> SUFFICES ASSUME NEW u \in Clients, NEW n \in 1 .. Len(calls[u]), calls[u][n][1] = "create"
               PROVE  /\ calls[u][n][2] \in 1 .. StaticCount
                      /\ M!Top(t)[1] = "create" /\ calls[u][n][2] = x => u = t /\ n = Len(c)
    OBVIOUS
  <2>1. calls[u][n][2] \in 1 .. StaticCount
    BY <1>0 DEF CallsNest, WellNested
  <2>2. ASSUME M!Top(t)[1] = "create", calls[u][n][2] = x PROVE u = t /\ n = Len(c)
    <3>1. holder = t
      BY <1>0, <1>x, <2>2, OnlyHolder
    <3>2. Named(calls[u], "create", x)
      BY <2>2 DEF Named
    <3>3. u = t
      BY <1>0, <3>1, <3>2, OnlyHolder
    <3>q. QED
      BY <1>c, <1>x, <1>l, <2>2, <3>3 DEF WellNested
  <2>q. QED
    BY <2>1, <2>2
<1>3. CASE s \in Ptr
  <2>1. calls' = calls
    BY <1>3 DEF M!Access
  <2>2. Creating' = Creating /\ Deleting' = Deleting
    BY <2>1 DEF Creating, Deleting
  <2>3. StaticType' /\ CallsNest' /\ ListIsPtr' /\ AliveIsExact'
    BY <1>0, <1>1, <1>u, <2>1, <2>2 DEF StaticType, CallsNest, ListIsPtr, AliveIsExact
  <2>4. UsedOutlive'
    BY <1>0, <1>1, <1>n, <2>2 DEF UsedOutlive, ListIsPtr, Deleting
  <2>5. s \in Range(StaticList)
    BY <1>0, <1>3, <1>d DEF ListIsPtr
  <2>6. UsedAreComing'
    <3> SUFFICES ASSUME NEW u \in Clients, NEW n \in 1 .. Len(calls[u]),
                        calls[u][n][1] = "create", NEW v \in uses'[calls[u][n][2]]
                 PROVE  v \in Range(StaticList) \/ (n < Len(calls[u]) /\ calls[u][n + 1][2] = v)
      BY <1>1, <2>1 DEF UsedAreComing, Covered
    <3>1. v = s \/ v \in uses[calls[u][n][2]]
      BY <1>u, <1>w
    <3>q. QED
      BY <1>0, <2>5, <3>1 DEF UsedAreComing, Covered
  <2>q. QED
    BY <1>2, <2>3, <2>4, <2>6 DEF StaticInv
<1>4. CASE s \notin Ptr
  <2> DEFINE e == <<"access", s>>
             d == Append(c, e)
  <2>1. calls' = [calls EXCEPT ![t] = d]
    BY <1>4 DEF M!Access, M!Call
  <2>e. e \in Calls /\ e[1] = "access" /\ e[2] = s
    BY DEF Calls, Kinds
  <2>2. /\ d \in Seq(Calls) /\ Len(d) = Len(c) + 1 /\ d[Len(c) + 1] = e
        /\ \A n \in 1 .. Len(c) : d[n] = c[n]
    BY <1>c, <2>e, PushCall
  <2>3. /\ WellNested(d) /\ (NeedsIn(d) <=> NeedsIn(c))
        /\ \A s2 : Named(d, "create", s2) <=> Named(c, "create", s2)
        /\ \A s2 : Named(d, "delete", s2) <=> Named(c, "delete", s2)
    <3>1. \A n \in 1 .. Len(c) : c[n][1] # "access"
      <4>1. c = << >> \/ c # << >>
        OBVIOUS
      <4>q. QED
        BY <1>1, <1>c, <1>l DEF WellNested
    <3>2. /\ WellNested(d) /\ (NeedsIn(d) <=> NeedsIn(c) \/ e[1] # "access")
          /\ \A k, s2 : Named(d, k, s2) <=> Named(c, k, s2) \/ (e[1] = k /\ e[2] = s2)
      BY <1>1, <1>c, <2>e, <3>1, NestPush
    <3>q. QED
      BY <2>e, <3>2
  <2> HIDE DEF d, e
  <2>4. calls'[t] = d /\ \A u \in Clients \ {t} : calls'[u] = calls[u]
    BY <1>0, <2>1, OthersSame
  <2>5. Creating' = Creating /\ Deleting' = Deleting
    <3>1. \A y \in 1 .. StaticCount :
            (y \in Creating' <=> y \in Creating) /\ (y \in Deleting' <=> y \in Deleting)
      BY <1>0, <2>1, <2>3, MakingMoves
    <3>q. QED
      BY <3>1 DEF Creating, Deleting
  <2>6. StaticType'
    BY <1>0, <1>1, <1>u, <2>1, <2>2 DEF StaticType
  <2>7. CallsNest'
    BY <1>0, <1>1, <1>c, <2>3, <2>4 DEF CallsNest
  <2>8. ListIsPtr' /\ AliveIsExact'
    BY <1>0, <1>1, <2>5 DEF ListIsPtr, AliveIsExact
  <2>9. UsedOutlive'
    BY <1>0, <1>1, <1>n, <2>5 DEF UsedOutlive, ListIsPtr, Deleting
  <2>10. UsedAreComing'
    <3> SUFFICES ASSUME NEW u \in Clients, NEW n \in 1 .. Len(calls'[u]),
                        calls'[u][n][1] = "create", NEW v \in uses'[calls'[u][n][2]]
                 PROVE  v \in Range(StaticList) \/ (n < Len(calls'[u]) /\ calls'[u][n + 1][2] = v)
      BY <1>1 DEF UsedAreComing, Covered
    <3>1. CASE u # t
      <4>1. calls'[u] = calls[u]
        BY <2>4, <3>1
      <4>2. calls[u][n][2] # x \/ M!Top(t)[1] # "create"
        BY <1>w, <3>1, <4>1
      <4>3. v \in uses[calls[u][n][2]]
        BY <1>u, <1>w, <4>1, <4>2
      <4>q. QED
        BY <1>0, <4>1, <4>3 DEF UsedAreComing, Covered
    <3>2. CASE u = t
      <4>1. n \in 1 .. Len(c) /\ c[n][1] = "create" /\ calls'[u][n] = c[n]
        BY <1>l, <2>2, <2>4, <2>e, <3>2
      <4>2. CASE n = Len(c)
        <5>1. v = s \/ v \in uses[c[n][2]]
          BY <1>u, <1>w, <4>1
        <5>2. v \in uses[c[n][2]] => v \in Range(StaticList)
          BY <1>0, <1>l, <4>1, <4>2 DEF UsedAreComing, Covered
        <5>3. n < Len(calls'[u]) /\ calls'[u][n + 1][2] = s
          BY <1>l, <2>2, <2>4, <2>e, <3>2, <4>2
        <5>q. QED
          BY <5>1, <5>2, <5>3
      <4>3. CASE n # Len(c)
        <5>1. v \in uses[c[n][2]]
          BY <1>u, <1>w, <4>1, <4>3
        <5>2. v \in Range(StaticList) \/ (n < Len(c) /\ c[n + 1][2] = v)
          BY <1>0, <4>1, <5>1 DEF UsedAreComing, Covered
        <5>3. n + 1 \in 1 .. Len(c) /\ n < Len(calls'[u])
          BY <1>l, <2>2, <2>4, <3>2, <4>1, <4>3
        <5>q. QED
          BY <2>2, <2>4, <3>2, <5>2, <5>3
      <4>q. QED
        BY <4>2, <4>3
    <3>q. QED
      BY <3>1, <3>2
  <2>q. QED
    BY <1>2, <2>6, <2>7, <2>8, <2>9, <2>10 DEF StaticInv
<1>q. QED
  BY <1>3, <1>4

(* What a thread on its way to the mutex finds under it.                    *)
LEMMA RegisterFacts ==
  ASSUME M!StaticsAssumption, StaticInv, NEW t \in Clients, M!Register(t)
  PROVE  LET c == calls[t]  s == M!Top(t)[2] IN
         /\ c \in Seq(Calls) /\ c # << >> /\ WellNested(c)
         /\ M!Last(c) = <<"access", s>> /\ s \in 1 .. StaticCount
         /\ holder \in {None, t}
         /\ s \notin Creating /\ s \notin Deleting
         /\ (NeedsIn(M!Front(c)) <=> NeedsIn(c))
         /\ \A k \in {"create", "delete"} : \A y : Named(M!Front(c), k, y) <=> Named(c, k, y)
<1> DEFINE c == calls[t]  s == M!Top(t)[2]
<1>0. StaticType /\ CallsNest
  BY StaticParts
<1>1. M!Top(t)[1] = "access" /\ holder \in {None, t}
  BY DEF M!Register
<1>2. c \in Seq(Calls) /\ c # << >> /\ WellNested(c) /\ M!Top(t) = M!Last(c)
  BY <1>0, <1>1, TopFacts DEF CallsNest, Kinds
<1>3. M!Last(c) \in Calls /\ M!Last(c) = c[Len(c)] /\ Len(c) \in Nat /\ Len(c) >= 1
  BY <1>2, PopCall
<1>4. M!Last(c) = <<"access", s>> /\ s \in 1 .. StaticCount
  <2>1. c[Len(c)][1] = "access" /\ Len(c) \in 1 .. Len(c)
    BY <1>1, <1>2, <1>3
  <2>2. c[Len(c)][2] \in 1 .. StaticCount
    BY <1>2, <2>1 DEF WellNested
  <2>q. QED
    BY <1>1, <1>2, <1>3, <2>2 DEF Calls
<1>5. /\ (NeedsIn(M!Front(c)) <=> NeedsIn(c))
      /\ \A k \in {"create", "delete"} : \A y : Named(M!Front(c), k, y) <=> Named(c, k, y)
      /\ \A n \in 1 .. Len(M!Front(c)) : M!Front(c)[n][2] # s
  <2>1. M!Last(c)[1] = "access" /\ M!Last(c)[2] = s
    BY <1>1, <1>2
  <2>2. /\ NeedsIn(c) <=> NeedsIn(M!Front(c)) \/ M!Last(c)[1] # "access"
        /\ \A k, y : Named(c, k, y) <=>
             Named(M!Front(c), k, y) \/ (M!Last(c)[1] = k /\ M!Last(c)[2] = y)
        /\ \A n \in 1 .. Len(M!Front(c)) : M!Front(c)[n][2] # M!Last(c)[2]
    BY <1>2, NestPop
  <2>q. QED
    BY <2>1, <2>2
<1>6. \A k \in {"create", "delete"} : ~Named(c, k, s)
  <2>1. \A k : ~Named(M!Front(c), k, s)
    BY <1>5 DEF Named
  <2>q. QED
    BY <1>5, <2>1
<1>7. s \notin Creating /\ s \notin Deleting
  BY <1>0, <1>1, <1>6, OwnCalls
<1>q. QED
  BY <1>1, <1>2, <1>4, <1>5, <1>7

LEMMA FoundKeeps ==
  ASSUME M!StaticsAssumption, StaticInv, NEW t \in Clients, M!Register(t), M!Top(t)[2] \in Ptr
  PROVE  StaticInv'
<1>0. /\ StaticType /\ CallsNest /\ ListIsPtr /\ AliveIsExact
      /\ UsedAreOlder /\ UsedOutlive /\ UsedAreComing
  BY StaticParts
<1> DEFINE c == calls[t]  s == M!Top(t)[2]  f == M!Front(c)
<1>1. calls' = [calls EXCEPT ![t] = f]
      /\ UNCHANGED <<Ptr, StaticList, holder, made, alive, uses>>
  BY DEF M!Register, M!Return
<1>2. /\ c \in Seq(Calls) /\ c # << >> /\ WellNested(c)
      /\ M!Last(c) = <<"access", s>> /\ s \in 1 .. StaticCount
      /\ s \notin Creating /\ s \notin Deleting
      /\ (NeedsIn(f) <=> NeedsIn(c))
      /\ \A k \in {"create", "delete"} : \A y : Named(f, k, y) <=> Named(c, k, y)
  BY RegisterFacts
<1>3. /\ f \in Seq(Calls) /\ M!Last(c) = c[Len(c)]
      /\ Len(f) = Len(c) - 1 /\ Len(c) \in Nat /\ Len(c) >= 1
      /\ \A n \in 1 .. Len(c) - 1 : f[n] = c[n]
  BY <1>2, PopCall
<1>4. WellNested(f)
  BY <1>2, NestPop
<1>5. s \in Ptr
  OBVIOUS
<1> HIDE DEF f, s
<1>a. calls'[t] = f /\ \A u \in Clients \ {t} : calls'[u] = calls[u]
  BY <1>0, <1>1, OthersSame
<1>6. Creating' = Creating /\ Deleting' = Deleting
  <2>1. \A y \in 1 .. StaticCount :
          (y \in Creating' <=> y \in Creating) /\ (y \in Deleting' <=> y \in Deleting)
    BY <1>0, <1>1, <1>2, MakingMoves
  <2>q. QED
    BY <2>1 DEF Creating, Deleting
<1>7. StaticType'
  BY <1>0, <1>1, <1>3 DEF StaticType
<1>8. CallsNest'
  BY <1>0, <1>1, <1>2, <1>4, <1>a DEF CallsNest
<1>9. ListIsPtr' /\ AliveIsExact' /\ UsedOutlive'
  BY <1>0, <1>1, <1>6 DEF ListIsPtr, AliveIsExact, UsedOutlive
<1>10. UsedAreOlder'
  BY <1>0, <1>1 DEF UsedAreOlder
<1>11. s \in Range(StaticList)
  BY <1>0, <1>2, <1>5 DEF ListIsPtr
<1>12. UsedAreComing'
  <2> SUFFICES ASSUME NEW u \in Clients, NEW n \in 1 .. Len(calls'[u]),
                      calls'[u][n][1] = "create", NEW v \in uses[calls'[u][n][2]]
               PROVE  v \in Range(StaticList) \/ (n < Len(calls'[u]) /\ calls'[u][n + 1][2] = v)
    BY <1>1 DEF UsedAreComing, Covered
  <2>1. CASE u # t
    BY <1>0, <1>a, <2>1 DEF UsedAreComing, Covered
  <2>2. CASE u = t
    <3>1. n \in 1 .. Len(c) - 1 /\ n \in 1 .. Len(c) /\ calls'[u][n] = c[n]
      BY <1>3, <1>a, <2>2
    <3>2. v \in Range(StaticList) \/ c[n + 1][2] = v
      BY <1>0, <3>1 DEF UsedAreComing, Covered
    <3>3. CASE n = Len(c) - 1
      <4>1. c[n + 1][2] = s
        BY <1>2, <1>3, <3>3
      <4>q. QED
        BY <1>11, <3>2, <4>1
    <3>4. CASE n # Len(c) - 1
      <4>1. n + 1 \in 1 .. Len(c) - 1 /\ n < Len(calls'[u])
        BY <1>3, <1>a, <2>2, <3>1, <3>4
      <4>2. calls'[u][n + 1] = c[n + 1]
        BY <1>3, <1>a, <2>2, <4>1
      <4>q. QED
        BY <3>2, <4>1, <4>2
    <3>q. QED
      BY <3>3, <3>4
  <2>q. QED
    BY <2>1, <2>2
<1>q. QED
  BY <1>7, <1>8, <1>9, <1>10, <1>12 DEF StaticInv

LEMMA MakeKeeps ==
  ASSUME M!StaticsAssumption, StaticInv, NEW t \in Clients, M!Register(t), M!Top(t)[2] \notin Ptr
  PROVE  StaticInv'
<1>0. /\ StaticType /\ CallsNest /\ ListIsPtr /\ AliveIsExact
      /\ UsedAreOlder /\ UsedOutlive /\ UsedAreComing
  BY StaticParts
<1> DEFINE c == calls[t]  s == M!Top(t)[2]  f == M!Front(c)
           e == <<"create", s>>  d == Append(f, e)
<1>1. /\ calls' = [calls EXCEPT ![t] = d] /\ holder' = t
      /\ alive' = [alive EXCEPT ![s] = alive[s] + 1] /\ uses' = [uses EXCEPT ![s] = {}]
      /\ UNCHANGED <<Ptr, StaticList>>
  BY DEF M!Register
<1>2. /\ c \in Seq(Calls) /\ c # << >> /\ WellNested(c)
      /\ M!Last(c) = <<"access", s>> /\ s \in 1 .. StaticCount
      /\ holder \in {None, t}
      /\ s \notin Creating /\ s \notin Deleting
      /\ \A k \in {"create", "delete"} : \A y : Named(f, k, y) <=> Named(c, k, y)
  BY RegisterFacts
<1>3. /\ f \in Seq(Calls) /\ M!Last(c) = c[Len(c)]
      /\ Len(f) = Len(c) - 1 /\ Len(c) \in Nat /\ Len(c) >= 1
      /\ \A n \in 1 .. Len(c) - 1 : f[n] = c[n]
  BY <1>2, PopCall
<1>4. WellNested(f) /\ \A n \in 1 .. Len(f) : f[n][1] # "access" /\ f[n][2] # s
  BY <1>2, NestPop
<1>5. s \notin Ptr
  OBVIOUS
<1>e. e \in Calls /\ e[1] = "create" /\ e[2] = s /\ s # 0
  BY <1>2 DEF Calls, Kinds
<1> HIDE DEF f, s, e
<1>6. /\ d \in Seq(Calls) /\ Len(d) = Len(c) /\ d[Len(c)] = e
      /\ \A n \in 1 .. Len(c) - 1 : d[n] = c[n]
  <2>1. /\ d \in Seq(Calls) /\ Len(d) = Len(f) + 1 /\ d[Len(f) + 1] = e
        /\ \A n \in 1 .. Len(f) : d[n] = f[n]
    BY <1>3, <1>e, PushCall
  <2>q. QED
    BY <1>3, <2>1
<1>7. /\ WellNested(d) /\ NeedsIn(d)
      /\ \A y : Named(d, "create", y) <=> Named(c, "create", y) \/ y = s
      /\ \A y : Named(d, "delete", y) <=> Named(c, "delete", y)
  <2>1. /\ WellNested(d) /\ (NeedsIn(d) <=> NeedsIn(f) \/ e[1] # "access")
        /\ \A k, y : Named(d, k, y) <=> Named(f, k, y) \/ (e[1] = k /\ e[2] = y)
    BY <1>3, <1>4, <1>e, NestPush
  <2>q. QED
    BY <1>2, <1>e, <2>1
<1> HIDE DEF d
<1>a. calls'[t] = d /\ \A u \in Clients \ {t} : calls'[u] = calls[u]
  BY <1>0, <1>1, OthersSame
<1>8. Creating' = Creating \cup {s} /\ Deleting' = Deleting
  <2>1. \A y \in 1 .. StaticCount : y # s => (y \in Creating' <=> y \in Creating)
    BY <1>0, <1>1, <1>7, MakingMoves
  <2>2. \A y \in 1 .. StaticCount : y \in Deleting' <=> y \in Deleting
    BY <1>0, <1>1, <1>7, MakingMoves
  <2>3. s \in Creating'
    BY <1>0, <1>1, <1>2, <1>7, MakingMoves
  <2>q. QED
    BY <1>2, <2>1, <2>2, <2>3 DEF Creating, Deleting
<1>9. StaticType'
  <2>1. calls' \in [Clients -> Seq(Calls)]
    BY <1>0, <1>1, <1>6 DEF StaticType
  <2>2. /\ alive' \in [1 .. StaticCount -> Int]
        /\ uses' \in [1 .. StaticCount -> SUBSET (1 .. StaticCount)]
    BY <1>0, <1>1, <1>2 DEF StaticType
  <2>q. QED
    BY <1>0, <1>1, <2>1, <2>2 DEF StaticType
<1>10. CallsNest'
  <2>1. \A u \in Clients \ {t} : ~NeedsIn(calls[u])
    BY <1>0, <1>2 DEF CallsNest, M!StaticsAssumption
  <2>q. QED
    BY <1>0, <1>1, <1>7, <1>a, <2>1 DEF CallsNest
<1>11. ListIsPtr'
  BY <1>0, <1>1, <1>5, <1>8 DEF ListIsPtr
<1>12. AliveIsExact'
  <2>1. /\ alive[s] = 0
        /\ \A y \in 1 .. StaticCount : alive'[y] = IF y = s THEN alive[s] + 1 ELSE alive[y]
    BY <1>0, <1>1, <1>2, <1>5 DEF AliveIsExact, StaticType
  <2>q. QED
    BY <1>0, <1>1, <1>8, <2>1 DEF AliveIsExact
<1>u. \A y \in 1 .. StaticCount : uses'[y] = IF y = s THEN {} ELSE uses[y]
  BY <1>0, <1>1 DEF StaticType
<1>13. UsedAreOlder'
  <2>1. \A i \in 1 .. Len(StaticList) : StaticList[i] \in 1 .. StaticCount
    BY <1>0, ElementOfSeq DEF StaticType
  <2>2. \A i \in 1 .. Len(StaticList) : \A u \in uses'[StaticList[i]] :
          \E j \in i + 1 .. Len(StaticList) : StaticList[j] = u
    BY <1>0, <1>u, <2>1 DEF UsedAreOlder
  <2>3. StaticList' = StaticList
    BY <1>1
  <2>q. QED
    BY <2>2, <2>3 DEF UsedAreOlder
<1>14. UsedOutlive'
  BY <1>0, <1>1, <1>8, <1>u DEF UsedOutlive, Deleting
<1>15. UsedAreComing'
  <2> SUFFICES ASSUME NEW u \in Clients, NEW n \in 1 .. Len(calls'[u]),
                      calls'[u][n][1] = "create", NEW v \in uses'[calls'[u][n][2]]
               PROVE  v \in Range(StaticList) \/ (n < Len(calls'[u]) /\ calls'[u][n + 1][2] = v)
    BY <1>1 DEF UsedAreComing, Covered
  <2>1. calls'[u][n][2] \in 1 .. StaticCount
    BY <1>10 DEF CallsNest, WellNested
  <2>2. calls'[u][n][2] # s /\ v \in uses[calls'[u][n][2]]
    BY <1>u, <2>1
  <2>3. CASE u # t
    BY <1>0, <1>a, <2>2, <2>3 DEF UsedAreComing, Covered
  <2>4. CASE u = t
    <3>1. n \in 1 .. Len(c) - 1 /\ n \in 1 .. Len(c) /\ calls'[u][n] = c[n] /\ n < Len(calls'[u])
      BY <1>3, <1>6, <1>a, <1>e, <2>2, <2>4
    <3>2. v \in Range(StaticList) \/ c[n + 1][2] = v
      BY <1>0, <2>2, <3>1 DEF UsedAreComing, Covered
    <3>3. calls'[u][n + 1][2] = c[n + 1][2]
      <4>1. CASE n = Len(c) - 1
        BY <1>2, <1>3, <1>6, <1>a, <1>e, <2>4, <4>1
      <4>2. CASE n # Len(c) - 1
        <5>1. n + 1 \in 1 .. Len(c) - 1
          BY <1>3, <3>1, <4>2
        <5>q. QED
          BY <1>6, <1>a, <2>4, <5>1
      <4>q. QED
        BY <4>1, <4>2
    <3>q. QED
      BY <3>1, <3>2, <3>3
  <2>q. QED
    BY <2>3, <2>4
<1>q. QED
  BY <1>9, <1>10, <1>11, <1>12, <1>13, <1>14, <1>15 DEF StaticInv

LEMMA CreatedKeeps ==
  ASSUME M!StaticsAssumption, StaticInv, NEW t \in Clients, M!Created(t)
  PROVE  StaticInv'
<1>0. /\ StaticType /\ CallsNest /\ ListIsPtr /\ AliveIsExact
      /\ UsedAreOlder /\ UsedOutlive /\ UsedAreComing
  BY StaticParts
<1> DEFINE c == calls[t]  s == M!Top(t)[2]  f == M!Front(c)
<1>1. /\ M!Top(t)[1] = "create" /\ calls' = [calls EXCEPT ![t] = f]
      /\ Ptr' = Ptr \cup {s} /\ StaticList' = << s >> \o StaticList
      /\ M!Unlock(t) /\ UNCHANGED <<alive, uses>>
  BY DEF M!Created, M!Return
<1>2. c \in Seq(Calls) /\ c # << >> /\ WellNested(c) /\ M!Top(t) = M!Last(c)
  BY <1>0, <1>1, TopFacts DEF CallsNest, Kinds
<1>3. /\ f \in Seq(Calls) /\ M!Last(c) = c[Len(c)] /\ M!Last(c) \in Calls
      /\ Len(f) = Len(c) - 1 /\ Len(c) \in Nat /\ Len(c) >= 1
      /\ \A n \in 1 .. Len(c) - 1 : f[n] = c[n]
  BY <1>2, PopCall
<1>4. c[Len(c)][1] = "create" /\ c[Len(c)][2] = s /\ s \in 1 .. StaticCount
  <2>1. c[Len(c)][1] = "create" /\ c[Len(c)][2] = s /\ Len(c) \in 1 .. Len(c)
    BY <1>1, <1>2, <1>3
  <2>q. QED
    BY <1>2, <2>1 DEF WellNested
<1>5. /\ WellNested(f) /\ NeedsIn(c)
      /\ \A y : Named(c, "create", y) <=> Named(f, "create", y) \/ y = s
      /\ \A y : Named(c, "delete", y) <=> Named(f, "delete", y)
      /\ \A n \in 1 .. Len(f) : f[n][2] # s
  <2>1. /\ WellNested(f) /\ (NeedsIn(c) <=> NeedsIn(f) \/ M!Last(c)[1] # "access")
        /\ \A k, y : Named(c, k, y) <=> Named(f, k, y) \/ (M!Last(c)[1] = k /\ M!Last(c)[2] = y)
        /\ \A n \in 1 .. Len(f) : f[n][2] # M!Last(c)[2]
    BY <1>2, NestPop
  <2>2. M!Last(c)[1] = "create" /\ M!Last(c)[2] = s
    BY <1>3, <1>4
  <2>q. QED
    BY <2>1, <2>2
<1> HIDE DEF f, s
<1>6. holder = t
  BY <1>0, <1>5 DEF CallsNest
<1>a. calls'[t] = f /\ \A u \in Clients \ {t} : calls'[u] = calls[u]
  BY <1>0, <1>1, OthersSame
<1>7. \A u \in Clients \ {t} : ~NeedsIn(calls[u])
  BY <1>0, <1>6 DEF CallsNest
<1>8. holder' = IF NeedsIn(f) THEN t ELSE None
  <2>1. DOMAIN f = 1 .. Len(f)
    BY <1>3, LenProperties
  <2>q. QED
    BY <1>1, <1>a, <2>1 DEF M!Unlock, M!Needs, NeedsIn
<1>9. s \in Creating /\ s \notin Ptr /\ s \notin Range(StaticList)
  <2>1. s \in Creating
    BY <1>4, <1>5 DEF Creating
  <2>q. QED
    BY <1>0, <2>1 DEF ListIsPtr
<1>10. Creating' = Creating \ {s} /\ Deleting' = Deleting
  <2>1. \A y \in 1 .. StaticCount : y # s => (y \in Creating' <=> y \in Creating)
    BY <1>0, <1>1, <1>5, MakingMoves
  <2>2. \A y \in 1 .. StaticCount : y \in Deleting' <=> y \in Deleting
    BY <1>0, <1>1, <1>5, MakingMoves
  <2>3. s \notin Creating'
    <3>1. \A u \in Clients \ {t} : ~Named(calls[u], "create", s)
      BY <1>7 DEF Named, NeedsIn
    <3>2. ~Named(f, "create", s)
      BY <1>5 DEF Named
    <3>q. QED
      BY <1>0, <1>1, <1>4, <3>1, <3>2, MakingMoves
  <2>q. QED
    BY <2>1, <2>2, <2>3 DEF Creating, Deleting
<1>l. /\ StaticList' \in Seq(1 .. StaticCount) /\ Distinct(StaticList')
      /\ Range(StaticList') = Range(StaticList) \cup {s}
  <2>1. /\ StaticList \in Seq(1 .. StaticCount) /\ Distinct(StaticList)
        /\ s \in 1 .. StaticCount /\ s \notin Range(StaticList)
    BY <1>0, <1>1, <1>4, <1>9 DEF StaticType
  <2>2. /\ <<s>> \o StaticList \in Seq(1 .. StaticCount)
        /\ Distinct(<<s>> \o StaticList)
        /\ Range(<<s>> \o StaticList) = Range(StaticList) \cup {s}
    BY <2>1, DistinctPush
  <2>q. QED
    BY <1>1, <1>4, <2>2
<1>11. StaticType'
  BY <1>0, <1>1, <1>3, <1>l DEF StaticType
<1>12. CallsNest'
  BY <1>0, <1>5, <1>7, <1>8, <1>a DEF CallsNest, M!StaticsAssumption
<1>13. ListIsPtr'
  BY <1>0, <1>1, <1>9, <1>10, <1>l DEF ListIsPtr
<1>14. AliveIsExact'
  BY <1>0, <1>1, <1>9, <1>10 DEF AliveIsExact
<1>p. /\ Len(StaticList) \in Nat /\ Len(StaticList') = Len(StaticList) + 1
      /\ StaticList'[1] = s /\ \A i \in 1 .. Len(StaticList) : StaticList'[i + 1] = StaticList[i]
  <2>1. /\ Len(StaticList) \in Nat /\ Len(<< s >> \o StaticList) = Len(StaticList) + 1
        /\ (<< s >> \o StaticList)[1] = s
        /\ \A i \in 1 .. Len(StaticList) : (<< s >> \o StaticList)[i + 1] = StaticList[i]
    BY <1>0, <1>4, LenProperties, ConcatProperties DEF StaticType
  <2>q. QED
    BY <1>1, <2>1
<1>c. \A v \in uses[s] : v \in Range(StaticList)
  <2>1. Len(c) \in 1 .. Len(c)
    BY <1>3
  <2>q. QED
    BY <1>0, <1>4, <2>1 DEF UsedAreComing, Covered
<1>15. UsedAreOlder'
  <2> SUFFICES ASSUME NEW i \in 1 .. Len(StaticList'), NEW v \in uses[StaticList'[i]]
               PROVE  \E j \in i + 1 .. Len(StaticList') : StaticList'[j] = v
    BY <1>1 DEF UsedAreOlder
  <2>1. CASE i = 1
    <3>1. PICK j \in 1 .. Len(StaticList) : StaticList[j] = v
      BY <1>0, <1>c, <1>p, <2>1, LenProperties DEF StaticType, Range
    <3>2. j + 1 \in i + 1 .. Len(StaticList') /\ StaticList'[j + 1] = v
      BY <1>p, <2>1, <3>1
    <3>q. QED
      BY <3>2
  <2>2. CASE i # 1
    <3>1. i - 1 \in 1 .. Len(StaticList) /\ StaticList'[i] = StaticList[i - 1]
      BY <1>p, <2>2
    <3>2. PICK j \in (i - 1) + 1 .. Len(StaticList) : StaticList[j] = v
      BY <1>0, <3>1 DEF UsedAreOlder
    <3>3. j + 1 \in i + 1 .. Len(StaticList') /\ StaticList'[j + 1] = v
      BY <1>p, <3>1, <3>2
    <3>q. QED
      BY <3>3
  <2>q. QED
    BY <2>1, <2>2
<1>16. UsedOutlive'
  BY <1>0, <1>1, <1>10, <1>l DEF UsedOutlive
<1>17. UsedAreComing'
  <2> SUFFICES ASSUME NEW u \in Clients, NEW n \in 1 .. Len(calls'[u]),
                      calls'[u][n][1] = "create", NEW v \in uses[calls'[u][n][2]]
               PROVE  v \in Range(StaticList') \/ (n < Len(calls'[u]) /\ calls'[u][n + 1][2] = v)
    BY <1>1 DEF UsedAreComing, Covered
  <2>1. u = t
    <3>1. u # t => NeedsIn(calls[u])
      BY <1>a DEF NeedsIn
    <3>q. QED
      BY <1>7, <3>1
  <2>2. n \in 1 .. Len(c) - 1 /\ n \in 1 .. Len(c) /\ calls'[u][n] = c[n]
    BY <1>3, <1>a, <2>1
  <2>3. v \in Range(StaticList) \/ c[n + 1][2] = v
    BY <1>0, <2>2 DEF UsedAreComing, Covered
  <2>4. CASE n = Len(c) - 1
    <3>1. c[n + 1][2] = s
      BY <1>3, <1>4, <2>4
    <3>q. QED
      BY <1>l, <2>3, <3>1
  <2>5. CASE n # Len(c) - 1
    <3>1. n + 1 \in 1 .. Len(c) - 1 /\ n < Len(calls'[u])
      BY <1>3, <1>a, <2>1, <2>2, <2>5
    <3>2. calls'[u][n + 1] = c[n + 1]
      BY <1>3, <1>a, <2>1, <3>1
    <3>q. QED
      BY <1>l, <2>3, <3>1, <3>2
  <2>q. QED
    BY <2>4, <2>5
<1>q. QED
  BY <1>11, <1>12, <1>13, <1>14, <1>15, <1>16, <1>17 DEF StaticInv

(* Outside the calls of a shutdown nothing is made or destroyed.            *)
LEMMA ShutdownAlone ==
  ASSUME M!StaticsAssumption, StaticInv, NEW t \in Clients, M!Top(t)[1] = "shutdown"
  PROVE  /\ calls[t] \in Seq(Calls) /\ calls[t] # << >> /\ Len(calls[t]) = 1
         /\ WellNested(calls[t]) /\ calls[t][1][1] = "shutdown" /\ calls[t][1][2] = 0
         /\ holder = t /\ Creating = {} /\ Deleting = {}
         /\ \A u \in Clients \ {t} : ~NeedsIn(calls[u])
<1> DEFINE c == calls[t]
<1>0. StaticType /\ CallsNest
  BY StaticParts
<1>1. c \in Seq(Calls) /\ c # << >> /\ WellNested(c) /\ M!Top(t) = c[Len(c)]
  BY <1>0, TopFacts DEF CallsNest, Kinds
<1>2. Len(c) \in Nat /\ Len(c) >= 1
  BY <1>1, PopCall
<1>3. Len(c) = 1 /\ c[1][1] = "shutdown" /\ c[1][2] = 0
  <2>1. c[Len(c)][1] = "shutdown" /\ Len(c) \in 1 .. Len(c)
    BY <1>1, <1>2
  <2>2. Len(c) = 1 /\ c[Len(c)][2] = 0
    BY <1>1, <2>1 DEF WellNested
  <2>q. QED
    BY <2>1, <2>2
<1>4. NeedsIn(c)
  BY <1>3 DEF NeedsIn
<1>5. holder = t /\ \A u \in Clients \ {t} : ~NeedsIn(calls[u])
  BY <1>0, <1>4 DEF CallsNest
<1>6. \A s : ~Named(c, "create", s) /\ ~Named(c, "delete", s)
  BY <1>3 DEF Named
<1>7. Creating = {} /\ Deleting = {}
  BY <1>0, <1>5, <1>6, OwnCalls DEF Creating, Deleting
<1>q. QED
  BY <1>1, <1>3, <1>5, <1>7

LEMMA ShutdownKeeps ==
  ASSUME M!StaticsAssumption, StaticInv, NEW t \in Clients, M!Shutdown(t)
  PROVE  StaticInv'
<1>0. /\ StaticType /\ CallsNest /\ ListIsPtr /\ AliveIsExact
      /\ UsedAreOlder /\ UsedOutlive /\ UsedAreComing
  BY StaticParts
<1> DEFINE e == <<"shutdown", 0>>  d == Append(calls[t], e)
<1>1. /\ \A u \in Clients : calls[u] = << >>
      /\ holder' = t /\ calls' = [calls EXCEPT ![t] = d]
      /\ UNCHANGED <<Ptr, StaticList, made, alive, uses>>
  BY DEF M!Shutdown, M!Call
<1>2. calls[t] \in Seq(Calls) /\ WellNested(calls[t]) /\ e \in Calls /\ Len(calls[t]) = 0
  BY <1>0, <1>1 DEF StaticType, CallsNest, Calls, Kinds, M!StaticsAssumption
<1>3. /\ d \in Seq(Calls) /\ Len(d) = 1 /\ d[1] = e
  BY <1>2, PushCall
<1>4. /\ WellNested(d) /\ NeedsIn(d)
      /\ \A y : ~Named(d, "create", y) /\ ~Named(d, "delete", y)
  BY <1>3 DEF WellNested, NeedsIn, Named
<1> HIDE DEF d, e
<1>a. calls'[t] = d /\ \A u \in Clients \ {t} : calls'[u] = << >>
  BY <1>0, <1>1, OthersSame
<1>5. Creating = {} /\ Deleting = {} /\ Creating' = {} /\ Deleting' = {}
  <2>1. \A u \in Clients : \A y : ~Named(calls[u], "create", y) /\ ~Named(calls[u], "delete", y)
    BY <1>1 DEF Named
  <2>2. \A u \in Clients \ {t} : \A y :
          ~Named(calls'[u], "create", y) /\ ~Named(calls'[u], "delete", y)
    BY <1>a DEF Named
  <2>3. \A y : ~Named(calls'[t], "create", y) /\ ~Named(calls'[t], "delete", y)
    BY <1>4, <1>a
  <2>q. QED
    BY <2>1, <2>2, <2>3 DEF Creating, Deleting
<1>6. StaticType'
  BY <1>0, <1>1, <1>3 DEF StaticType
<1>7. CallsNest'
  BY <1>1, <1>4, <1>a DEF CallsNest, WellNested, NeedsIn
<1>8. ListIsPtr' /\ AliveIsExact' /\ UsedOutlive'
  BY <1>0, <1>1, <1>5 DEF ListIsPtr, AliveIsExact, UsedOutlive
<1>9. UsedAreOlder'
  BY <1>0, <1>1 DEF UsedAreOlder
<1>10. UsedAreComing'
  <2>1. \A u \in Clients : \A n \in 1 .. Len(calls'[u]) : calls'[u][n][1] # "create"
    BY <1>3, <1>a DEF e
  <2>q. QED
    BY <2>1 DEF UsedAreComing, Covered
<1>q. QED
  BY <1>6, <1>7, <1>8, <1>9, <1>10 DEF StaticInv

LEMMA DestroyStaticKeeps ==
  ASSUME M!StaticsAssumption, StaticInv, NEW t \in Clients, M!Destroy(t)
  PROVE  StaticInv'
<1>0. /\ StaticType /\ CallsNest /\ ListIsPtr /\ AliveIsExact
      /\ UsedAreOlder /\ UsedOutlive /\ UsedAreComing
  BY StaticParts
<1> DEFINE c == calls[t]  h == Head(StaticList)  e == <<"delete", h>>  d == Append(c, e)
<1>1. /\ M!Top(t)[1] = "shutdown" /\ StaticList # << >>
      /\ StaticList' = Tail(StaticList) /\ calls' = [calls EXCEPT ![t] = d]
      /\ UNCHANGED <<Ptr, holder, made, alive, uses>>
  BY DEF M!Destroy, M!Call
<1>2. /\ c \in Seq(Calls) /\ Len(c) = 1 /\ WellNested(c)
      /\ c[1][1] = "shutdown" /\ c[1][2] = 0
      /\ holder = t /\ Creating = {} /\ Deleting = {}
      /\ \A u \in Clients \ {t} : ~NeedsIn(calls[u])
  BY <1>1, ShutdownAlone
<1>3. /\ StaticList' \in Seq(1 .. StaticCount) /\ h \in 1 .. StaticCount /\ Distinct(StaticList')
      /\ h \in Range(StaticList) /\ Range(StaticList') = Range(StaticList) \ {h}
  BY <1>0, <1>1, DistinctTail DEF StaticType
<1>h. /\ h = StaticList[1] /\ Len(StaticList) \in Nat /\ Len(StaticList) >= 1
      /\ Len(StaticList') = Len(StaticList) - 1
      /\ \A i \in 1 .. Len(StaticList) - 1 : StaticList'[i] = StaticList[i + 1]
  BY <1>0, <1>1, HeadTailProperties, LenProperties, EmptySeq DEF StaticType
<1> HIDE DEF h
<1>e. e \in Calls /\ e[1] = "delete" /\ e[2] = h /\ h # 0
  BY <1>3 DEF Calls, Kinds
<1> HIDE DEF e
<1>4. /\ d \in Seq(Calls) /\ Len(d) = 2 /\ d[1] = c[1] /\ d[2] = e
  BY <1>2, <1>e, PushCall
<1>5. WellNested(d) /\ NeedsIn(d)
  BY <1>2, <1>3, <1>4, <1>e DEF WellNested, NeedsIn
<1>6. \A y : ~Named(d, "create", y) /\ (Named(d, "delete", y) <=> y = h)
  BY <1>2, <1>4, <1>e DEF Named
<1> HIDE DEF d
<1>a. calls'[t] = d /\ \A u \in Clients \ {t} : calls'[u] = calls[u]
  BY <1>0, <1>1, OthersSame
<1>7. Creating' = {} /\ Deleting' = {h}
  <2>1. \A u \in Clients \ {t} : \A y :
          ~Named(calls[u], "create", y) /\ ~Named(calls[u], "delete", y)
    BY <1>2 DEF Named, NeedsIn
  <2>2. \A y \in 1 .. StaticCount : y \notin Creating' /\ (y \in Deleting' <=> y = h)
    BY <1>0, <1>1, <1>6, <2>1, MakingMoves
  <2>q. QED
    BY <1>3, <2>2 DEF Creating, Deleting
<1>8. StaticType'
  BY <1>0, <1>1, <1>3, <1>4 DEF StaticType
<1>9. CallsNest'
  BY <1>0, <1>1, <1>2, <1>5, <1>a DEF CallsNest
<1>10. ListIsPtr' /\ AliveIsExact'
  BY <1>0, <1>1, <1>2, <1>3, <1>7 DEF ListIsPtr, AliveIsExact
<1>11. UsedAreOlder'
  <2> SUFFICES ASSUME NEW i \in 1 .. Len(StaticList'), NEW v \in uses[StaticList'[i]]
               PROVE  \E j \in i + 1 .. Len(StaticList') : StaticList'[j] = v
    BY <1>1 DEF UsedAreOlder
  <2>1. i + 1 \in 1 .. Len(StaticList) /\ StaticList'[i] = StaticList[i + 1]
    BY <1>h
  <2>2. PICK j \in (i + 1) + 1 .. Len(StaticList) : StaticList[j] = v
    BY <1>0, <2>1 DEF UsedAreOlder
  <2>3. j - 1 \in i + 1 .. Len(StaticList') /\ j - 1 \in 1 .. Len(StaticList) - 1 /\ (j - 1) + 1 = j
    BY <1>h, <2>1, <2>2
  <2>4. StaticList'[j - 1] = v
    BY <1>h, <2>2, <2>3
  <2>q. QED
    BY <2>3, <2>4
<1>12. UsedOutlive'
  <2>1. ASSUME NEW v \in uses[h] PROVE v \in Range(StaticList')
    <3>1. 1 \in 1 .. Len(StaticList) /\ v \in uses[StaticList[1]]
      BY <1>h, <2>1
    <3>2. PICK j \in 1 + 1 .. Len(StaticList) : StaticList[j] = v
      BY <1>0, <3>1 DEF UsedAreOlder
    <3>3. j \in 1 .. Len(StaticList) /\ j # 1
      BY <1>h, <3>2
    <3>4. v \in Range(StaticList) /\ v # h
      BY <1>0, <1>h, <3>1, <3>2, <3>3, LenProperties DEF StaticType, Distinct, Range
    <3>q. QED
      BY <1>3, <3>4
  <2>q. QED
    BY <1>1, <1>7, <2>1 DEF UsedOutlive
<1>13. UsedAreComing'
  <2>1. \A u \in Clients : \A n \in 1 .. Len(calls'[u]) : calls'[u][n][1] # "create"
    <3>1. \A u \in Clients \ {t} : \A n \in 1 .. Len(calls[u]) : calls[u][n][1] = "access"
      BY <1>2 DEF NeedsIn
    <3>2. \A n \in 1 .. Len(d) : d[n][1] # "create"
      BY <1>2, <1>4, <1>e
    <3>q. QED
      BY <1>a, <3>1, <3>2
  <2>q. QED
    BY <2>1 DEF UsedAreComing, Covered
<1>q. QED
  BY <1>8, <1>9, <1>10, <1>11, <1>12, <1>13 DEF StaticInv

LEMMA DestroyedKeeps ==
  ASSUME M!StaticsAssumption, StaticInv, NEW t \in Clients, M!Destroyed(t)
  PROVE  StaticInv'
<1>0. /\ StaticType /\ CallsNest /\ ListIsPtr /\ AliveIsExact
      /\ UsedAreOlder /\ UsedOutlive /\ UsedAreComing
  BY StaticParts
<1> DEFINE c == calls[t]  s == M!Top(t)[2]  f == M!Front(c)
<1>1. /\ M!Top(t)[1] = "delete" /\ calls' = [calls EXCEPT ![t] = f]
      /\ alive' = [alive EXCEPT ![s] = alive[s] - 1] /\ Ptr' = Ptr \ {s}
      /\ UNCHANGED <<StaticList, holder, uses>>
  BY DEF M!Destroyed, M!Return
<1>2. c \in Seq(Calls) /\ c # << >> /\ WellNested(c) /\ M!Top(t) = M!Last(c)
  BY <1>0, <1>1, TopFacts DEF CallsNest, Kinds
<1>3. /\ f \in Seq(Calls) /\ M!Last(c) = c[Len(c)]
      /\ Len(f) = Len(c) - 1 /\ Len(c) \in Nat /\ Len(c) >= 1
      /\ \A n \in 1 .. Len(c) - 1 : f[n] = c[n]
  BY <1>2, PopCall
<1>4. /\ c[Len(c)][1] = "delete" /\ c[Len(c)][2] = s /\ s \in 1 .. StaticCount
      /\ Len(c) = 2 /\ c[1][1] = "shutdown"
  <2>1. c[Len(c)][1] = "delete" /\ c[Len(c)][2] = s /\ Len(c) \in 1 .. Len(c)
    BY <1>1, <1>2, <1>3
  <2>q. QED
    BY <1>2, <2>1 DEF WellNested
<1>5. WellNested(f)
  BY <1>2, NestPop
<1> HIDE DEF f, s
<1>f. Len(f) = 1 /\ f[1][1] = "shutdown"
  BY <1>3, <1>4
<1>6. NeedsIn(f) /\ NeedsIn(c)
  BY <1>f, <1>4 DEF NeedsIn
<1>7. holder = t /\ \A u \in Clients \ {t} : ~NeedsIn(calls[u])
  BY <1>0, <1>6 DEF CallsNest
<1>a. calls'[t] = f /\ \A u \in Clients \ {t} : calls'[u] = calls[u]
  BY <1>0, <1>1, OthersSame
<1>8. \A y : /\ ~Named(f, "create", y) /\ ~Named(f, "delete", y)
             /\ ~Named(c, "create", y) /\ (Named(c, "delete", y) <=> y = s)
  BY <1>f, <1>4 DEF Named
<1>9. Creating = {} /\ Deleting = {s} /\ Creating' = {} /\ Deleting' = {}
  <2>1. \A u \in Clients \ {t} : \A y :
          ~Named(calls[u], "create", y) /\ ~Named(calls[u], "delete", y)
    BY <1>7 DEF Named, NeedsIn
  <2>2. \A u \in Clients \ {t} : \A y :
          ~Named(calls'[u], "create", y) /\ ~Named(calls'[u], "delete", y)
    BY <1>a, <2>1
  <2>3. \A y : ~Named(calls'[t], "create", y) /\ ~Named(calls'[t], "delete", y)
    BY <1>a, <1>8
  <2>q. QED
    BY <1>4, <1>8, <2>1, <2>2, <2>3 DEF Creating, Deleting
<1>10. StaticType'
  BY <1>0, <1>1, <1>3, <1>4 DEF StaticType
<1>11. CallsNest'
  BY <1>0, <1>1, <1>5, <1>6, <1>7, <1>a DEF CallsNest
<1>12. ListIsPtr'
  BY <1>0, <1>1, <1>9 DEF ListIsPtr
<1>13. AliveIsExact'
  <2>1. /\ alive[s] = 1
        /\ \A y \in 1 .. StaticCount : alive'[y] = IF y = s THEN alive[s] - 1 ELSE alive[y]
    BY <1>0, <1>1, <1>4, <1>9 DEF AliveIsExact, ListIsPtr, StaticType
  <2>q. QED
    <3> SUFFICES ASSUME NEW y \in 1 .. StaticCount
                 PROVE  alive'[y] = IF y \in Ptr' \cup Creating' THEN 1 ELSE 0
      BY DEF AliveIsExact
    <3>1. Ptr' = Ptr \ {s} /\ Creating = {} /\ Creating' = {}
      BY <1>1, <1>9
    <3>2. alive[y] = IF y \in Ptr THEN 1 ELSE 0
      BY <1>0, <3>1 DEF AliveIsExact
    <3>q. QED
      BY <2>1, <3>1, <3>2
<1>14. UsedAreOlder'
  <2>1. StaticList' = StaticList /\ uses' = uses
    BY <1>1
  <2>2. UsedAreOlder
    BY <1>0
  <2>q. QED
    BY <2>1, <2>2 DEF UsedAreOlder
<1>15. UsedOutlive'
  BY <1>9 DEF UsedOutlive
<1>16. UsedAreComing'
  <2>1. \A u \in Clients : \A n \in 1 .. Len(calls'[u]) : calls'[u][n][1] # "create"
    <3>1. \A u \in Clients \ {t} : \A n \in 1 .. Len(calls[u]) : calls[u][n][1] = "access"
      BY <1>7 DEF NeedsIn
    <3>2. \A n \in 1 .. Len(f) : f[n][1] # "create"
      BY <1>f
    <3>q. QED
      BY <1>a, <3>1, <3>2
  <2>q. QED
    BY <2>1 DEF UsedAreComing, Covered
<1>q. QED
  BY <1>10, <1>11, <1>12, <1>13, <1>14, <1>15, <1>16 DEF StaticInv

LEMMA ShutdownEndsKeeps ==
  ASSUME M!StaticsAssumption, StaticInv, NEW t \in Clients, M!ShutdownEnds(t)
  PROVE  StaticInv' /\ \A s \in 1 .. StaticCount : alive'[s] = 0
<1>0. /\ StaticType /\ CallsNest /\ ListIsPtr /\ AliveIsExact
      /\ UsedAreOlder /\ UsedOutlive /\ UsedAreComing
  BY StaticParts
<1> DEFINE c == calls[t]  f == M!Front(c)
<1>1. /\ M!Top(t)[1] = "shutdown" /\ StaticList = << >> /\ calls' = [calls EXCEPT ![t] = f]
      /\ M!Unlock(t) /\ UNCHANGED <<Ptr, StaticList, alive, uses>>
  BY DEF M!ShutdownEnds, M!Return
<1>2. /\ c \in Seq(Calls) /\ c # << >> /\ Len(c) = 1
      /\ Creating = {} /\ Deleting = {}
      /\ \A u \in Clients \ {t} : ~NeedsIn(calls[u])
  BY <1>1, ShutdownAlone
<1>3. f \in Seq(Calls) /\ Len(f) = 0
  BY <1>2, PopCall
<1> HIDE DEF f
<1>a. calls'[t] = f /\ \A u \in Clients \ {t} : calls'[u] = calls[u]
  BY <1>0, <1>1, OthersSame
<1>4. holder' = None
  <2>1. DOMAIN f = 1 .. Len(f)
    BY <1>3, LenProperties
  <2>q. QED
    BY <1>1, <1>3, <1>a, <2>1 DEF M!Unlock
<1>5. WellNested(f) /\ ~NeedsIn(f)
  BY <1>3 DEF WellNested, NeedsIn
<1>6. Creating' = {} /\ Deleting' = {}
  <2>1. \A u \in Clients \ {t} : \A y :
          ~Named(calls'[u], "create", y) /\ ~Named(calls'[u], "delete", y)
    BY <1>2, <1>a DEF Named, NeedsIn
  <2>2. \A y : ~Named(calls'[t], "create", y) /\ ~Named(calls'[t], "delete", y)
    BY <1>3, <1>a DEF Named
  <2>q. QED
    BY <2>1, <2>2 DEF Creating, Deleting
<1>7. StaticType'
  BY <1>0, <1>1, <1>3 DEF StaticType
<1>8. CallsNest'
  BY <1>0, <1>2, <1>4, <1>5, <1>a DEF CallsNest, M!StaticsAssumption
<1>9. ListIsPtr' /\ AliveIsExact' /\ UsedOutlive'
  BY <1>0, <1>1, <1>2, <1>6 DEF ListIsPtr, AliveIsExact, UsedOutlive
<1>10. UsedAreOlder'
  BY <1>0, <1>1 DEF UsedAreOlder
<1>11. UsedAreComing'
  <2>1. \A u \in Clients : \A n \in 1 .. Len(calls'[u]) : calls'[u][n][1] # "create"
    BY <1>2, <1>3, <1>a DEF NeedsIn
  <2>q. QED
    BY <2>1 DEF UsedAreComing, Covered
<1>12. \A s \in 1 .. StaticCount : alive'[s] = 0
  <2>1. Range(StaticList) = {}
    BY <1>1 DEF Range
  <2>q. QED
    BY <1>0, <1>1, <1>2, <2>1 DEF ListIsPtr, AliveIsExact
<1>q. QED
  BY <1>7, <1>8, <1>9, <1>10, <1>11, <1>12 DEF StaticInv

LEMMA StaticNext ==
  ASSUME M!StaticsAssumption
  PROVE  StaticInv /\ [M!Next]_(M!vars) => StaticInv' /\ [M!StaticsGone]_(M!vars)
<1> SUFFICES ASSUME StaticInv, [M!Next]_(M!vars) PROVE StaticInv' /\ [M!StaticsGone]_(M!vars)
    OBVIOUS
<1>0. StaticType
  BY StaticParts
<1>s. M!Statics = 1 .. StaticCount
  BY DEF M!Statics
<1>1. CASE UNCHANGED M!vars
  <2>1. /\ Ptr' = Ptr /\ StaticList' = StaticList /\ holder' = holder
        /\ calls' = calls /\ alive' = alive /\ uses' = uses
    BY <1>1 DEF M!vars
  <2>2. Creating' = Creating /\ Deleting' = Deleting
    BY <2>1 DEF Creating, Deleting
  <2>3. StaticType' /\ CallsNest'
    BY <1>0, <2>1, StaticParts DEF StaticType, CallsNest
  <2>4. ListIsPtr'
    BY <2>1, <2>2, StaticParts DEF ListIsPtr
  <2>5. AliveIsExact'
    BY <2>1, <2>2, StaticParts DEF AliveIsExact
  <2>6. UsedAreOlder'
    BY <2>1, StaticParts DEF UsedAreOlder
  <2>7. UsedOutlive'
    BY <2>1, <2>2, StaticParts DEF UsedOutlive
  <2>8. UsedAreComing'
    BY <2>1, <2>2, StaticParts DEF UsedAreComing, Covered
  <2>9. StaticInv'
    BY <2>3, <2>4, <2>5, <2>6, <2>7, <2>8 DEF StaticInv
  <2>q. QED
    BY <1>1, <2>9
<1>2. ASSUME NEW t \in Clients, StaticInv',
             M!Top(t)[1] = "shutdown" =>
               calls'[t] # << >> \/ \A s \in 1 .. StaticCount : alive'[s] = 0,
             \A u \in Clients \ {t} : calls'[u] = calls[u]
      PROVE  StaticInv' /\ [M!StaticsGone]_(M!vars)
  <2>1. \A u \in Clients : M!Top(u)[1] = "shutdown" => calls[u] # << >>
    BY <1>0, TopFacts DEF Kinds
  <2>q. QED
    BY <1>2, <1>s, <2>1 DEF M!StaticsGone
<1>3. ASSUME NEW t \in Clients, NEW s \in 1 .. StaticCount, M!Access(t, s)
      PROVE  StaticInv' /\ [M!StaticsGone]_(M!vars)
  <2>1. \A u \in Clients \ {t} : calls'[u] = calls[u]
    BY <1>3, <1>0 DEF M!Access, M!Call, StaticType
  <2>2. M!Top(t)[1] # "shutdown"
    BY <1>3 DEF M!Access
  <2>q. QED
    BY <1>2, <1>3, <2>1, <2>2, AccessKeeps
<1>4. ASSUME NEW t \in Clients, M!Register(t) PROVE StaticInv' /\ [M!StaticsGone]_(M!vars)
  <2>1. /\ \A u \in Clients \ {t} : calls'[u] = calls[u]
        /\ M!Top(t)[1] # "shutdown"
    BY <1>4, <1>0 DEF M!Register, M!Return, StaticType
  <2>q. QED
    BY <1>2, <1>4, <2>1, FoundKeeps, MakeKeeps
<1>5. ASSUME NEW t \in Clients, M!Created(t) PROVE StaticInv' /\ [M!StaticsGone]_(M!vars)
  <2>1. /\ \A u \in Clients \ {t} : calls'[u] = calls[u]
        /\ M!Top(t)[1] # "shutdown"
    BY <1>5, <1>0 DEF M!Created, M!Return, StaticType
  <2>q. QED
    BY <1>2, <1>5, <2>1, CreatedKeeps
<1>6. ASSUME NEW t \in Clients, M!Shutdown(t) PROVE StaticInv' /\ [M!StaticsGone]_(M!vars)
  <2>1. /\ \A u \in Clients \ {t} : calls'[u] = calls[u]
        /\ M!Top(t)[1] # "shutdown"
    BY <1>6, <1>0 DEF M!Shutdown, M!Call, M!Top, StaticType
  <2>q. QED
    BY <1>2, <1>6, <2>1, ShutdownKeeps
<1>7. ASSUME NEW t \in Clients, M!Destroy(t) PROVE StaticInv' /\ [M!StaticsGone]_(M!vars)
  <2>1. StaticInv'
    BY <1>7, DestroyStaticKeeps
  <2>2. /\ \A u \in Clients \ {t} : calls'[u] = calls[u]
        /\ calls'[t] = Append(calls[t], <<"delete", Head(StaticList)>>)
    BY <1>7, <1>0 DEF M!Destroy, M!Call, StaticType
  <2>3. calls'[t] # << >>
    <3>1. StaticList # << >> /\ StaticList \in Seq(1 .. StaticCount) /\ calls[t] \in Seq(Calls)
      BY <1>7, <1>0 DEF M!Destroy, StaticType
    <3>2. Head(StaticList) \in 1 .. StaticCount
      BY <3>1, HeadTailProperties
    <3>3. <<"delete", Head(StaticList)>> \in Calls
      BY <3>2 DEF Calls, Kinds
    <3>q. QED
      BY <2>2, <3>1, <3>3, PushCall
  <2>q. QED
    BY <1>2, <2>1, <2>2, <2>3
<1>8. ASSUME NEW t \in Clients, M!Destroyed(t) PROVE StaticInv' /\ [M!StaticsGone]_(M!vars)
  <2>1. /\ \A u \in Clients \ {t} : calls'[u] = calls[u]
        /\ M!Top(t)[1] # "shutdown"
    BY <1>8, <1>0 DEF M!Destroyed, M!Return, StaticType
  <2>q. QED
    BY <1>2, <1>8, <2>1, DestroyedKeeps
<1>9. ASSUME NEW t \in Clients, M!ShutdownEnds(t) PROVE StaticInv' /\ [M!StaticsGone]_(M!vars)
  <2>1. \A u \in Clients \ {t} : calls'[u] = calls[u]
    BY <1>9, <1>0 DEF M!ShutdownEnds, M!Return, StaticType
  <2>q. QED
    BY <1>2, <1>9, <2>1, ShutdownEndsKeeps
<1>q. QED
  BY <1>1, <1>3, <1>4, <1>5, <1>6, <1>7, <1>8, <1>9, <1>s DEF M!Next

LEMMA StaticHolds == StaticInv => M!OneObject /\ M!UsedAreThere
<1> SUFFICES ASSUME StaticInv PROVE M!OneObject /\ M!UsedAreThere
    OBVIOUS
<1>0. /\ StaticType /\ CallsNest /\ ListIsPtr /\ AliveIsExact
      /\ UsedAreOlder /\ UsedOutlive /\ UsedAreComing
  BY StaticParts
<1>1. Range(StaticList) \subseteq 1 .. StaticCount /\ Deleting \subseteq 1 .. StaticCount
  BY <1>0, RangeOfSeq DEF StaticType, Deleting
<1>2. M!OneObject
  BY <1>0 DEF AliveIsExact, M!OneObject, M!Statics
<1>3. ASSUME NEW s \in Ptr, NEW v \in uses[s] PROVE v \in Range(StaticList)
  <2>1. CASE s \in Deleting
    BY <1>0, <1>3, <2>1 DEF UsedOutlive
  <2>2. CASE s \in Range(StaticList)
    <3>1. DOMAIN StaticList = 1 .. Len(StaticList) /\ Len(StaticList) \in Nat
      BY <1>0, LenProperties DEF StaticType
    <3>2. PICK i \in 1 .. Len(StaticList) : StaticList[i] = s
      BY <2>2, <3>1 DEF Range
    <3>3. PICK j \in i + 1 .. Len(StaticList) : StaticList[j] = v
      BY <1>0, <1>3, <3>2 DEF UsedAreOlder
    <3>q. QED
      BY <3>1, <3>3 DEF Range
  <2>q. QED
    BY <1>0, <2>1, <2>2 DEF ListIsPtr
<1>4. M!UsedAreThere
  BY <1>0, <1>1, <1>3 DEF M!UsedAreThere, AliveIsExact, ListIsPtr
<1>q. QED
  BY <1>2, <1>4

(***************************************************************************)
(* The four parts in one run.  A part that was not chosen stays as it was  *)
(* initialised, which satisfies its invariant.                             *)
(***************************************************************************)
MCInv == PoolInv /\ GroupInv /\ LInv /\ StaticInv

LEMMA PartsAssumed == GroupAssumed /\ F!ProcessAssumption /\ M!StaticsAssumption
  BY PartsAssumption DEF GroupAssumed

LEMMA RunInit == MCInit => MCInv
  BY PartsAssumed, PoolInit, GroupInit, LockInit, StaticInit DEF MCInit, MCInv

(* Every step of the run is one of the chosen part or leaves it alone.      *)
LEMMA RunSteps ==
  [MCNext]_mcvars => [Next]_vars /\ [G!Next]_(G!vars) /\ [F!Next]_(F!vars) /\ [M!Next]_(M!vars)
  BY DEF MCNext, mcvars, gvars, lvars, svars, vars, G!vars, F!vars, M!vars

LEMMA RunNext == MCInv /\ [MCNext]_mcvars => MCInv'
<1>1. MCInv /\ [MCNext]_mcvars => PoolInv'
  BY RunSteps, PoolNext DEF MCInv, PoolStep
<1>2. MCInv /\ [MCNext]_mcvars => GroupInv'
  BY RunSteps, PartsAssumed, GroupNext DEF MCInv, GroupStep
<1>3. MCInv /\ [MCNext]_mcvars => LInv'
  BY RunSteps, PartsAssumed, LockNext DEF MCInv
<1>4. MCInv /\ [MCNext]_mcvars => StaticInv'
  BY RunSteps, PartsAssumed, StaticNext DEF MCInv
<1>q. QED
  BY <1>1, <1>2, <1>3, <1>4 DEF MCInv

LEMMA RunKeeps == MCSpec => []MCInv
  BY RunInit, RunNext, PTL DEF MCSpec

(* A process that ends leaves neither its own file nor a link to it, and a  *)
(* client that was told that the lock is gone finds an output, whatever the *)
(* processes, their hosts and the crashes (LockFileManager.cpp).            *)
THEOREM RunReleasesLocks == MCSpec => []LocksAreReleased
  BY RunKeeps, PartsAssumed, LockHolds, PTL DEF MCInv

(* The same of the run's thread pools: run once, and wait() means all done  *)
(* (llvm/lib/Support/ThreadPool.cpp).                                       *)
THEOREM RunPoolImplements == MCSpec => ImplementsBarrier
<1>1. MCInit => TB!Init
  BY PoolBarrierInit DEF MCInit
<1>2. MCInv /\ [MCNext]_mcvars => [TB!Next]_(TB!vars)
  BY RunSteps, PoolNext DEF MCInv, PoolStep
<1>q. QED
  BY <1>1, <1>2, RunKeeps, PTL DEF MCSpec, ImplementsBarrier, TB!Spec

(* TaskGroup::sync() returns only when every closure spawned into the       *)
(* group, also from within its closures, has returned, and each is run once *)
(* (lld/Core/Parallel.h), for any tree of spawned tasks whose number is     *)
(* below the latch's modulus.                                               *)
THEOREM RunGroupImplements == MCSpec => GroupImplementsBarrier
<1>1. MCInit => G!TB!Init
  BY GroupBarrierInit, PartsAssumed DEF MCInit
<1>2. MCInv /\ [MCNext]_mcvars => [G!TB!Next]_(G!TB!vars)
  BY RunSteps, PartsAssumed, GroupNext DEF MCInv, GroupStep
<1>q. QED
  BY <1>1, <1>2, RunKeeps, PTL DEF MCSpec, GroupImplementsBarrier, G!ImplementsBarrier, G!TB!Spec

(* However many threads and statics: one object at a time, what an object's *)
(* creator used outlives it, and llvm_shutdown() leaves nothing, also of    *)
(* what destructors made (ManagedStatic.cpp).                               *)
THEOREM RunOrdersStatics == MCSpec => StaticsAreOrdered
<1>1. MCInv => M!OneObject /\ M!UsedAreThere
  BY StaticHolds DEF MCInv
<1>2. MCInv /\ [MCNext]_mcvars => [M!StaticsGone]_(M!vars)
  BY RunSteps, PartsAssumed, StaticNext DEF MCInv
<1>q. QED
  BY <1>1, <1>2, RunKeeps, PTL DEF MCSpec, StaticsAreOrdered, M!NothingLeft
===============================================================================
