--------------------------- MODULE DeadlockDetector ---------------------------
(***************************************************************************)
(* The deadlock detector of the sanitizers: sanitizer_deadlock_detector.h  *)
(* (nodes, edges, what a thread holds) under sanitizer_deadlock_detector1, *)
(* as tsan calls it: both hooks of a lock run after the real lock, the one *)
(* of an unlock before the real unlock.  Slow paths run under one spin     *)
(* mutex and are steps.  Fast paths read the graph without it, an edge     *)
(* after the other (hasAllEdges, "*racy*"), while others change or flush   *)
(* it.                                                                     *)
(*                                                                         *)
(* The locks are read-write locks; the program unlocks what it holds and   *)
(* destroys what nobody uses.  A node is an epoch and an index.  The stack *)
(* traces of edges are left out.                                           *)
(***************************************************************************)
EXTENDS Naturals, FiniteSets, TLC

CONSTANTS
  Threads, Mutexes, None,
  Size,          (* BV::kSize: nodes of an epoch                              *)
  Modes,         (* how locks are taken: "write", "read", "try"               *)
  PathSize,      (* path[10] in ReportDeadlock                                *)
  MaxLoopSize,   (* DDReport::kMaxLoopSize: 8                                 *)
  Transient,     (* the mutexes that the program destroys                     *)
  MaxAlive,      (* bound on the mutexes in use at a time                     *)
  MaxHeld,       (* bound on the locks a thread holds                         *)
  MaxWaits,      (* bound on the waits between mutexes in use                 *)
  MaxEpoch       (* bound on the number of flushes                            *)

Idx == 0 .. Size - 1
NoNode == <<0, 0>>

VARIABLES
  writer, readers,   (* the real locks; readers[m]: who holds it for reading  *)
  order,     (* <<m, n>>: somebody waited for n while it held m               *)
  id,        (* id[m]: DDMutex::id                                            *)
  epoch, available, recycled, g, data,   (* DeadlockDetector                  *)
  tls,       (* tls[t]: the epoch and the locks that t holds in it            *)
  hook,      (* hook[t]: the hook t is in and its locals                      *)
  reports,   (* lengths of the loops that were reported, 0 for none found     *)
  looked,    (* ghost: who has looked for a loop since the last edge was added *)
  missed     (* ghost: edges that closed a loop, added without such a look    *)

dd == <<epoch, available, recycled, g, data>>
real == <<writer, readers, order>>
ghosts == <<looked, missed>>
vars == <<real, id, dd, tls, hook, reports, ghosts>>

Idle == [at |-> "idle"]

Init ==
  /\ writer = [m \in Mutexes |-> None] /\ readers = [m \in Mutexes |-> {}]
  /\ order = {}
  /\ id = [m \in Mutexes |-> NoNode]
  /\ epoch = 0 /\ available = {} /\ recycled = {} /\ g = {}
  /\ data = [i \in Idx |-> None]
  /\ tls = [t \in Threads |-> [epoch |-> 0, locks |-> {}]]
  /\ hook = [t \in Threads |-> Idle]
  /\ reports = {}
  /\ looked = {} /\ missed = {}

Holds(t) == {m \in Mutexes : writer[m] = t \/ t \in readers[m]}
Used == {m \in Mutexes : id[m] # NoNode \/ writer[m] # None \/ readers[m] # {}}
Enter(t, h) == hook' = [hook EXCEPT ![t] = h]

-----------------------------------------------------------------------------
(* The real lock.                                                             *)
RealLock(t, m, mode) ==
  /\ hook[t] = Idle /\ m \notin Holds(t) /\ writer[m] = None
  /\ Cardinality(Holds(t)) < MaxHeld /\ Cardinality(Used \union {m}) <= MaxAlive
  /\ IF mode = "read"
     THEN readers' = [readers EXCEPT ![m] = @ \union {t}] /\ UNCHANGED writer
     ELSE /\ readers[m] = {}
          /\ writer' = [writer EXCEPT ![m] = t] /\ UNCHANGED readers
  /\ order' = IF mode = "try" THEN order ELSE order \union (Holds(t) \X {m})
  /\ Cardinality(order') <= MaxWaits
  /\ Enter(t, [at |-> IF mode = "try" THEN "after" ELSE "before", m |-> m, mode |-> mode])
  /\ UNCHANGED <<id, dd, tls, reports, ghosts>>

-----------------------------------------------------------------------------
(* DeadlockDetector.                                                          *)
GetAvailable(s, m) ==
  LET i == CHOOSE j \in s.available : \A k \in s.available : j <= k
  IN  [s EXCEPT !.available = @ \ {i}, !.data[i] = m, !.node = <<s.epoch, i>>]

newNode(s, m) ==
  IF s.available # {} THEN GetAvailable(s, m)
  ELSE IF s.recycled # {}
  THEN GetAvailable([s EXCEPT !.available = s.recycled, !.recycled = {},
                              !.g = {e \in @ : e[2] \notin s.recycled}], m)
  ELSE GetAvailable([s EXCEPT !.epoch = @ + 1, !.available = Idx, !.g = {}], m)

(* MutexEnsureID: the state of the detector after it, and the node of m.      *)
EnsureID(m) ==
  LET s == [epoch |-> epoch, available |-> available, recycled |-> recycled,
            g |-> g, data |-> data, node |-> id[m]]
  IN  IF id[m][1] # 0 /\ id[m][1] = epoch THEN s ELSE newNode(s, m)

StaleLocksMutant(v, e) == [v EXCEPT !.epoch = e]
ensureCurrentEpoch(v, e) == IF v.epoch = e THEN v ELSE [epoch |-> e, locks |-> {}]

Become(s, m, edges) ==
  /\ s.epoch <= MaxEpoch
  /\ epoch' = s.epoch /\ available' = s.available /\ recycled' = s.recycled
  /\ g' = s.g \union edges /\ data' = s.data
  /\ id' = [id EXCEPT ![m] = s.node]

(* Who had looked has not seen the edges that are added now.                  *)
Unseen(s, edges) == IF edges \subseteq s.g THEN looked ELSE {}

(* What is reached from a node in at most k steps.                            *)
Reach(edges, i) ==
  LET r[k \in 0 .. Size] ==
        IF k = 0 THEN {i} ELSE r[k - 1] \union {e[2] : e \in {f \in edges : f[1] \in r[k - 1]}}
  IN  r

isReachable(edges, i, targets) == Reach(edges, i)[Size] \intersect targets # {}

(* The length of the path that is found, or 0 (findShortestPath).             *)
PathLength(edges, i, targets) ==
  LET near == {k \in 0 .. PathSize - 1 : k <= Size /\ Reach(edges, i)[k] \intersect targets # {}}
  IN  IF near = {} THEN 0 ELSE 1 + (CHOOSE k \in near : \A j \in near : k <= j)

-----------------------------------------------------------------------------
(* hasAllEdges: first the epochs, then an edge per lock.                      *)
FastMay(t, m) == id[m] # NoNode /\ tls[t].epoch = epoch /\ epoch = id[m][1]

Look(t, fast, slow) ==
  LET m == hook[t].m IN
  Enter(t, IF FastMay(t, m)
           THEN [hook[t] EXCEPT !.at = fast] @@ [node |-> id[m], todo |-> tls[t].locks]
           ELSE [hook[t] EXCEPT !.at = slow])

(* MutexBeforeLock.                                                           *)
MutexBeforeLock(t) ==
  /\ hook[t].at = "before"
  /\ IF tls[t].locks = {} THEN Enter(t, [hook[t] EXCEPT !.at = "after"])
     ELSE Look(t, "beforeFast", "beforeSlow")
  /\ UNCHANGED <<real, id, dd, tls, reports, ghosts>>

hasEdge(t) ==
  LET h == hook[t] IN
  /\ h.at \in {"beforeFast", "afterFast"} /\ h.todo # {}
  /\ \E l \in h.todo :
       Enter(t, IF <<l, h.node[2]>> \in g THEN [h EXCEPT !.todo = @ \ {l}]
                ELSE [at |-> IF h.at = "beforeFast" THEN "beforeSlow" ELSE "afterSlow",
                      m |-> h.m, mode |-> h.mode])
  /\ UNCHANGED <<real, id, dd, tls, reports, ghosts>>

BeforeFast(t) ==
  LET h == hook[t] IN
  /\ h.at = "beforeFast" /\ h.todo = {}
  /\ Enter(t, [at |-> "after", m |-> h.m, mode |-> h.mode])
  /\ looked' = looked \union {t}
  /\ UNCHANGED <<real, id, dd, tls, reports, missed>>

BeforeDirectMutant(t) ==
  LET h == hook[t]
      s == EnsureID(h.m)
      v == ensureCurrentEpoch(tls[t], s.epoch)
      loop == s.node[2] \notin v.locks /\ \E l \in v.locks : <<s.node[2], l>> \in s.g
      edges == IF loop THEN v.locks \X {s.node[2]} ELSE {}
  IN
  /\ h.at = "beforeSlow"
  /\ Become(s, h.m, edges)
  /\ tls' = [tls EXCEPT ![t] = v]
  /\ reports' = IF loop
                THEN reports \union {PathLength(s.g \union edges, s.node[2], v.locks)}
                ELSE reports
  /\ Enter(t, [h EXCEPT !.at = "after"])
  /\ looked' = Unseen(s, edges) \union {t} /\ missed' = missed \intersect s.g
  /\ UNCHANGED real

BeforeSlow(t) ==
  LET h == hook[t]
      s == EnsureID(h.m)
      v == ensureCurrentEpoch(tls[t], s.epoch)
      loop == s.node[2] \notin v.locks /\ isReachable(s.g, s.node[2], v.locks)
      edges == IF loop THEN v.locks \X {s.node[2]} ELSE {}
  IN
  /\ h.at = "beforeSlow"
  /\ Become(s, h.m, edges)
  /\ tls' = [tls EXCEPT ![t] = v]
  /\ reports' = IF loop
                THEN reports \union {PathLength(s.g \union edges, s.node[2], v.locks)}
                ELSE reports
  /\ Enter(t, [h EXCEPT !.at = "after"])
  /\ looked' = Unseen(s, edges) \union {t} /\ missed' = missed \intersect s.g
  /\ UNCHANGED real

addLock(t, v, node) == tls' = [tls EXCEPT ![t] = [v EXCEPT !.locks = @ \union {node[2]}]]

(* MutexAfterLock.                                                            *)
onFirstLock(t) ==
  LET h == hook[t] IN
  /\ h.at = "after"
  /\ IF tls[t].locks = {} /\ tls[t].epoch # 0 /\ tls[t].epoch = id[h.m][1]
     THEN addLock(t, tls[t], id[h.m]) /\ Enter(t, Idle)
     ELSE UNCHANGED tls /\ Look(t, "afterFast", "afterSlow")
  /\ UNCHANGED <<real, id, dd, reports, ghosts>>

onLockFast(t) ==
  LET h == hook[t] IN
  /\ h.at = "afterFast" /\ h.todo = {}
  /\ addLock(t, tls[t], h.node)
  /\ Enter(t, Idle)
  /\ looked' = looked \ {t}
  /\ UNCHANGED <<real, id, dd, reports, missed>>

AfterSlow(t) ==
  LET h == hook[t]
      s == EnsureID(h.m)
      v == ensureCurrentEpoch(tls[t], s.epoch)
      edges == IF h.mode = "try" THEN {} ELSE v.locks \X {s.node[2]}
      unseen == t \notin looked /\ isReachable(s.g, s.node[2], v.locks)
  IN
  /\ h.at = "afterSlow"
  /\ Become(s, h.m, edges)
  /\ looked' = Unseen(s, edges) \ {t}
  /\ missed' = (missed \intersect s.g) \union (IF unseen THEN edges \ s.g ELSE {})
  /\ addLock(t, v, s.node)
  /\ reports' = IF h.mode # "read" /\ s.node[2] \in v.locks THEN reports \union {0} ELSE reports
  /\ Enter(t, Idle)
  /\ UNCHANGED real

(* The hook, onUnlock, touches only what the thread holds; the real unlock    *)
(* follows.                                                                   *)
Unlock(t, m) ==
  /\ hook[t] = Idle /\ m \in Holds(t)
  /\ tls' = IF tls[t].epoch = id[m][1]
            THEN [tls EXCEPT ![t].locks = @ \ {id[m][2]}] ELSE tls
  /\ writer' = [writer EXCEPT ![m] = IF @ = t THEN None ELSE @]
  /\ readers' = [readers EXCEPT ![m] = @ \ {t}]
  /\ UNCHANGED <<order, id, dd, hook, reports, ghosts>>

(* MutexDestroy and MutexInit; the edges to the node stay until it is used    *)
(* again.                                                                     *)
MutexDestroy(m) ==
  /\ m \in Transient
  /\ writer[m] = None /\ readers[m] = {} /\ id[m] # NoNode
  /\ IF id[m][1] = epoch
     THEN /\ recycled' = recycled \union {id[m][2]}
          /\ g' = {e \in g : e[1] # id[m][2]}
     ELSE UNCHANGED <<recycled, g>>
  /\ id' = [id EXCEPT ![m] = NoNode]
  /\ order' = {e \in order : m \notin {e[1], e[2]}}
  /\ missed' = missed \intersect g'
  /\ UNCHANGED <<writer, readers, epoch, available, data, tls, hook, reports, looked>>

Next ==
  \/ \E t \in Threads :
       \/ \E m \in Mutexes : Unlock(t, m) \/ \E mode \in Modes : RealLock(t, m, mode)
       \/ MutexBeforeLock(t) \/ hasEdge(t) \/ BeforeFast(t) \/ BeforeSlow(t)
       \/ onFirstLock(t) \/ onLockFast(t) \/ AfterSlow(t)
  \/ \E m \in Mutexes : MutexDestroy(m)

Spec == Init /\ [][Next]_vars

-----------------------------------------------------------------------------
(* Two numbers name the same mutex as long as it lives.                       *)
Live == Idx \ (available \union recycled)
Edges == {<<data[e[1]], data[e[2]]>> : e \in {f \in g : f[1] \in Live /\ f[2] \in Live}}
Quiet == \A t \in Threads : hook[t] = Idle

(* Every edge stands for a wait that happened while both mutexes lived, also  *)
(* after nodes were recycled, the graph was flushed and fast paths read it    *)
(* meanwhile: no loop is reported that the program did not order              *)
(* (newNode, ensureCurrentEpoch, removeNode).                                 *)
EdgesHappened == Edges \subseteq order

(* As long as the graph has not been flushed every wait has left its edge.    *)
WaitsAreEdges == (epoch <= 1 /\ Quiet) => order \subseteq Edges

(* "Returns true if there is a cycle in the graph after this lock event"      *)
(* (onLockBefore), and what returns true is reported.  The edge is added in a *)
(* later hook, though (MutexAfterLock), and not looked at again: two threads  *)
(* that both look before either adds its edge close a loop that nobody        *)
(* reports.  So: as long as the graph has not been flushed, every loop of it  *)
(* that nobody reported has an edge that closed it (missed) and was added     *)
(* after another thread had added one since the look.                         *)
CyclesAreReported ==
  (epoch <= 1 /\ Quiet /\ reports = {}) =>
    LET known == g \ missed
    IN  \A i \in Live : ~isReachable(known, i, {e[1] : e \in {f \in known : f[2] = i}})

(* The CHECKs hold: a path is found, no lock is taken twice.  What is found   *)
(* fits "enum { kMaxLoopSize = 8 }; int n;  // number of entries in loop".    *)
NoCheckFails == 0 \notin reports
LoopFits == \A n \in reports : n <= MaxLoopSize
=============================================================================
