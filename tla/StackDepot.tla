------------------------------ MODULE StackDepot ------------------------------
(***************************************************************************)
(* StackDepotBase, where the sanitizers keep every stack trace once under  *)
(* a 32-bit id, and what msan does around fork().  A bucket is one word:   *)
(* the head of a list of nodes, and in its lowest bit a spin lock.  Nodes  *)
(* never change and only go in at the head, so a list is the sequence of   *)
(* its nodes, and two heads are the same pointer when the sequences are    *)
(* equal.                                                                  *)
(*                                                                         *)
(* A stack is what eq() tells apart; hashes, use counts and the statistics *)
(* (n_uniq_ids is bumped without a lock that is common to all buckets) are *)
(* left out.  A second depot, which msan locks after this one, never takes *)
(* the locks of this one.                                                  *)
(*                                                                         *)
(* Memory for nodes comes from the PersistentAllocator, whose steps run    *)
(* between those of the depot: threads bump the position in the current    *)
(* region without a lock, and the one that finds no room maps another      *)
(* region under a mutex.  Nothing is ever freed.  Addresses are small      *)
(* numbers; region_pos is 0 between regions.  The kernel may place a       *)
(* region anywhere that is not mapped, so also right below an older one:   *)
(* then a position comes back, and a thread that stood still while a       *)
(* region was used up can win its swap with the position of another one.   *)
(* stale remembers that it happened.                                       *)
(***************************************************************************)
EXTENDS Integers, FiniteSets, SequencesExt

-------------------------------------------------------------------------------
(* The persistent allocator.                                                *)
CONSTANTS
  Procs,           (* threads *)
  Sizes,           (* sizes asked for *)
  RegionSize,      (* 64 * 1024 *)
  Top              (* bound: addresses are 1 .. Top *)

ASSUME AllocatorAssumption ==
  /\ Sizes \subseteq Nat \ {0} /\ RegionSize \in Nat \ {0} /\ Top \in Nat

VARIABLES
  region_pos, region_end,
  holder,          (* mtx: the threads that hold it *)
  regions,         (* what mmap() gave: records [start, end] *)
  step, slow,      (* where a call is; is it in the loop under mtx? *)
  size, cmp, mem,  (* its argument, its locals and, once "done", its result *)
  stale            (* was a swap won for which the current region has no room? *)

shared == <<region_pos, region_end, holder, regions, stale>>
allocVars == <<shared, step, slow, size, cmp, mem>>

AllocInit ==
  /\ region_pos = 0 /\ region_end = 0 /\ holder = {} /\ regions = {}
  /\ step = [p \in Procs |-> "done"] /\ slow = [p \in Procs |-> FALSE]
  /\ size = [p \in Procs |-> 0]
  /\ cmp = [p \in Procs |-> 0] /\ mem = [p \in Procs |-> 0]
  /\ stale = FALSE

At(p, from, to) == step[p] = from /\ step' = [step EXCEPT ![p] = to]

(* A thread calls alloc(n).                                                 *)
PersistentAlloc(p, n) ==
  /\ At(p, "done", "pos")
  /\ size' = [size EXCEPT ![p] = n]
  /\ UNCHANGED <<shared, slow, cmp, mem>>

-------------------------------------------------------------------------------
(* tryAlloc(): two loads and a compare-and-swap, in a loop.                 *)
LoadPos(p) ==
  /\ At(p, "pos", "end")
  /\ cmp' = [cmp EXCEPT ![p] = region_pos]
  /\ UNCHANGED <<shared, slow, size, mem>>

LoadEnd(p) ==
  /\ At(p, "end", IF cmp[p] # 0 /\ cmp[p] + size[p] <= region_end THEN "swap"
                  ELSE IF slow[p] THEN "reset" ELSE "lock")
  /\ UNCHANGED <<shared, slow, size, cmp, mem>>

(* The call returns its block, and the mutex if it was in the loop under    *)
(* it, where ~SpinMutexLock() releases it.                                  *)
Return(p) ==
  /\ At(p, "swap", "done")
  /\ region_pos' = cmp[p] + size[p]
  /\ stale' = (stale \/ cmp[p] + size[p] > region_end)
  /\ mem' = [mem EXCEPT ![p] = cmp[p]]
  /\ holder' = holder \ {p}
  /\ slow' = [slow EXCEPT ![p] = FALSE]
  /\ cmp' = [cmp EXCEPT ![p] = 0] /\ size' = [size EXCEPT ![p] = 0]   (* not read again *)
  /\ UNCHANGED <<region_end, regions>>

(* It returns when it wins.  When it loses, or when the weak form fails for *)
(* no reason, it starts over.                                               *)
Swap(p) ==
  \/ region_pos = cmp[p] /\ Return(p)
  \/ At(p, "swap", "pos") /\ UNCHANGED <<shared, slow, size, cmp, mem>>

-------------------------------------------------------------------------------
(* alloc(): the mutex, and then the loop that maps regions.                 *)
LockMtx(p) ==
  /\ At(p, "lock", "pos")
  /\ holder = {} /\ holder' = {p}
  /\ slow' = [slow EXCEPT ![p] = TRUE]
  /\ UNCHANGED <<region_pos, region_end, regions, stale, size, cmp, mem>>

Reset(p) ==
  /\ At(p, "reset", "map")
  /\ region_pos' = 0
  /\ UNCHANGED <<region_end, holder, regions, stale, slow, size, cmp, mem>>

(* MmapOrDie(), which gives memory that is not mapped, and the store of the *)
(* new end.                                                                 *)
Places(p) ==
  LET allocsz == IF RegionSize < size[p] THEN size[p] ELSE RegionSize
  IN  {r \in [start : 1 .. Top, end : 2 .. Top + 1] :
         /\ r.end = r.start + allocsz
         /\ \A o \in regions : r.end <= o.start \/ o.end <= r.start}

Map(p) ==
  /\ At(p, "map", "publish")
  /\ \E r \in Places(p) :
       /\ regions' = regions \cup {r}
       /\ mem' = [mem EXCEPT ![p] = r.start]
       /\ region_end' = r.end
  /\ UNCHANGED <<region_pos, holder, stale, slow, size, cmp>>

SetPos(p) ==
  /\ At(p, "publish", "pos")
  /\ region_pos' = mem[p]
  /\ UNCHANGED <<region_end, holder, regions, stale, slow, size, cmp, mem>>

(* The process ends when there is no room.                                  *)
OutOfMemory(p) == step[p] = "map" /\ Places(p) = {}

AllocStep(p) ==
  LoadPos(p) \/ LoadEnd(p) \/ Swap(p) \/ LockMtx(p) \/ Reset(p) \/ Map(p) \/ SetPos(p)

-------------------------------------------------------------------------------
(* The types of the variables.                                              *)
AllocTypeOK ==
  /\ region_pos \in 0 .. Top + 1 /\ region_end \in 0 .. Top + 1
  /\ holder \subseteq Procs /\ regions \subseteq [start : 1 .. Top, end : 2 .. Top + 1]
  /\ step \in [Procs -> {"done", "pos", "end", "swap", "lock", "reset", "map", "publish"}]
  /\ slow \in [Procs -> BOOLEAN] /\ size \in [Procs -> Sizes \cup {0}]
  /\ cmp \in [Procs -> 0 .. Top + 1] /\ mem \in [Procs -> 0 .. Top]
  /\ stale \in BOOLEAN

-------------------------------------------------------------------------------
(* The depot.                                                               *)
CONSTANTS
  Stacks,
  StorageSize(_),  (* Node::storage_size(): the size of a stack's node *)
  Bucket(_),       (* h % kTabSize, for the hash h of a stack *)
  PartSize,        (* kPartSize: buckets whose ids come from one counter *)
  PartCount,       (* kPartCount *)
  MaxId,           (* kMaxId: ids of one part are below it *)
  NoStack,
  MaxCalls         (* bound: calls in one behaviour *)

TabSize == PartSize * PartCount
Buckets == 0 .. TabSize - 1
Part(b) == b \div PartSize

ASSUME DepotAssumption ==
  /\ PartSize \in Nat \ {0} /\ PartCount \in Nat \ {0} /\ MaxId \in Nat \ {0}
  /\ \A s \in Stacks : Bucket(s) \in Buckets /\ StorageSize(s) \in Sizes
  /\ NoStack \notin Stacks

VARIABLES
  list,     (* tab: the nodes of a bucket, newest first *)
  locked,   (* tab: the lowest bit *)
  seq,      (* seq: the ids taken in a part *)
  pc, arg,  (* where a thread is, and the stack it puts or expects *)
  snap,     (* s, and once locked s2 *)
  num,      (* id in Put() and Get(); i in LockAll() and UnlockAll() *)
  pos,      (* i in Get() *)
  answer,   (* what Get() found *)
  given,    (* the stacks and ids that calls of Put() returned *)
  calls

depotVars == <<list, locked, seq>>
callVars  == <<pc, arg, snap, num, pos, answer, given, calls>>
vars == <<depotVars, callVars, allocVars>>

Init ==
  /\ list = [b \in Buckets |-> <<>>]
  /\ locked = [b \in Buckets |-> FALSE]
  /\ seq = [q \in 0 .. PartCount - 1 |-> 0]
  /\ AllocInit
  /\ pc = [p \in Procs |-> "idle"]
  /\ arg = [p \in Procs |-> NoStack]
  /\ snap = [p \in Procs |-> <<>>]
  /\ num = [p \in Procs |-> 0]
  /\ pos = [p \in Procs |-> 0]
  /\ answer = [p \in Procs |-> NoStack]
  /\ given = {} /\ calls = 0

NodesOf(l) == {l[i] : i \in 1 .. Len(l)}
find(l, s) == {n \in NodesOf(l) : n.stack = s}
Id(part, n) == part * MaxId + n          (* id |= part << kPartShift *)
Hands(s, n) == given' = given \cup {[stack |-> s, id |-> n.id]}
Goto(p, l) == pc' = [pc EXCEPT ![p] = l]

(* A call returns; its locals are gone.                                     *)
Finish(p) ==
  /\ Goto(p, "idle")
  /\ arg' = [arg EXCEPT ![p] = NoStack] /\ answer' = [answer EXCEPT ![p] = NoStack]
  /\ snap' = [snap EXCEPT ![p] = <<>>]
  /\ num' = [num EXCEPT ![p] = 0] /\ pos' = [pos EXCEPT ![p] = 0]

-------------------------------------------------------------------------------
(* Put(): one look at the list without the lock.                            *)
Put(p, s) ==
  LET l == list[Bucket(s)]
  IN
  /\ pc[p] = "idle" /\ calls < MaxCalls
  /\ calls' = calls + 1
  /\ \/ (\E n \in find(l, s) : Hands(s, n)) /\ UNCHANGED <<pc, arg, snap>>
     \/ /\ find(l, s) = {}
        /\ Goto(p, "lock")
        /\ arg' = [arg EXCEPT ![p] = s] /\ snap' = [snap EXCEPT ![p] = l]
        /\ UNCHANGED given
  /\ UNCHANGED <<allocVars, depotVars, num, pos, answer>>

(* lock(), and a second search when the head is not the one that was        *)
(* searched.                                                                *)
Lock(p) ==
  LET b == Bucket(arg[p])
  IN
  /\ pc[p] = "lock" /\ ~locked[b]
  /\ locked' = [locked EXCEPT ![b] = TRUE]
  /\ snap' = [snap EXCEPT ![p] = list[b]]
  /\ Goto(p, IF list[b] # snap[p] /\ find(list[b], arg[p]) # {} THEN "found" ELSE "id")
  /\ UNCHANGED <<allocVars, list, seq, arg, num, pos, answer, given, calls>>

(* unlock(p, s2) stores the head, with the bit clear.                       *)
Found(p) ==
  LET b == Bucket(arg[p])
  IN
  /\ pc[p] = "found"
  /\ list' = [list EXCEPT ![b] = snap[p]] /\ locked' = [locked EXCEPT ![b] = FALSE]
  /\ \E n \in find(snap[p], arg[p]) : Hands(arg[p], n)
  /\ Finish(p)
  /\ UNCHANGED <<allocVars, seq, calls>>

(* Mutant: every part has one id too many.                                  *)
TakeIdOneMore(p) ==
  LET part == Part(Bucket(arg[p]))
  IN
  /\ pc[p] = "id" /\ seq[part] + 1 <= MaxId
  /\ seq' = [seq EXCEPT ![part] = @ + 1]
  /\ num' = [num EXCEPT ![p] = Id(part, seq[part] + 1)]
  /\ Goto(p, "alloc")
  /\ UNCHANGED <<allocVars, list, locked, arg, snap, pos, answer, given, calls>>

(* The next id of the part.                                                 *)
TakeId(p) ==
  LET part == Part(Bucket(arg[p]))
  IN
  /\ pc[p] = "id" /\ seq[part] + 1 < MaxId
  /\ seq' = [seq EXCEPT ![part] = @ + 1]
  /\ num' = [num EXCEPT ![p] = Id(part, seq[part] + 1)]
  /\ Goto(p, "alloc")
  /\ UNCHANGED <<allocVars, list, locked, arg, snap, pos, answer, given, calls>>

(* When there is none CHECK_LT ends the process, with every thread.         *)
Die(p) ==
  /\ pc[p] = "id" /\ seq[Part(Bucket(arg[p]))] + 1 >= MaxId
  /\ pc' = [q \in Procs |-> "gone"]
  /\ UNCHANGED <<allocVars, depotVars, arg, snap, num, pos, answer, given, calls>>

(* PersistentAlloc(memsz), and its steps.                                   *)
Alloc(p) ==
  /\ pc[p] = "alloc"
  /\ Goto(p, "publish")
  /\ PersistentAlloc(p, StorageSize(arg[p]))
  /\ UNCHANGED <<depotVars, arg, snap, num, pos, answer, given, calls>>

Allocate(p) ==
  /\ pc[p] = "publish" /\ AllocStep(p)
  /\ UNCHANGED <<depotVars, callVars>>

(* A process without memory ends, with every thread.                        *)
NoMemory(p) ==
  /\ pc[p] = "publish" /\ OutOfMemory(p)
  /\ pc' = [q \in Procs |-> "gone"]
  /\ UNCHANGED <<allocVars, depotVars, arg, snap, num, pos, answer, given, calls>>

(* The node is filled in and linked, and unlock(p, s) makes it the head.    *)
Publish(p) ==
  LET b == Bucket(arg[p])
      n == [stack |-> arg[p], id |-> num[p], at |-> mem[p]]
  IN
  /\ pc[p] = "publish" /\ step[p] = "done"
  /\ list' = [list EXCEPT ![b] = <<n>> \o snap[p]]
  /\ locked' = [locked EXCEPT ![b] = FALSE]
  /\ Hands(arg[p], n)
  /\ Finish(p)
  /\ UNCHANGED <<allocVars, seq, calls>>

-------------------------------------------------------------------------------
(* Get() of an id that was handed out, one bucket of its part at a time.    *)
Get(p, g) ==
  /\ pc[p] = "idle" /\ calls < MaxCalls
  /\ calls' = calls + 1
  /\ arg' = [arg EXCEPT ![p] = g.stack]
  /\ num' = [num EXCEPT ![p] = g.id]
  /\ pos' = [pos EXCEPT ![p] = 0]
  /\ answer' = [answer EXCEPT ![p] = NoStack]
  /\ Goto(p, "scan")
  /\ UNCHANGED <<allocVars, depotVars, snap, given>>

Scan(p) ==
  LET b  == (num[p] \div MaxId) * PartSize + pos[p]
      ns == {n \in NodesOf(list[b]) : n.id = num[p]}
  IN
  /\ pc[p] = "scan"
  /\ b \in Buckets                       (* CHECK_LT(idx, kTabSize) *)
  /\ IF ns # {}
     THEN (\E n \in ns : answer' = [answer EXCEPT ![p] = n.stack]) /\ Goto(p, "got") /\ UNCHANGED pos
     ELSE /\ pos' = [pos EXCEPT ![p] = @ + 1]
          /\ IF pos'[p] = PartSize THEN Goto(p, "got") ELSE UNCHANGED pc
          /\ UNCHANGED answer
  /\ UNCHANGED <<allocVars, depotVars, arg, snap, num, given, calls>>

Got(p) ==
  /\ pc[p] = "got"
  /\ Finish(p)
  /\ UNCHANGED <<allocVars, depotVars, given, calls>>

-------------------------------------------------------------------------------
(* msan's fork(): every bucket is locked in turn, and after the fork        *)
(* unlocked in turn.                                                        *)
BeforeFork(p) ==
  /\ pc[p] = "idle" /\ calls < MaxCalls
  /\ calls' = calls + 1
  /\ num' = [num EXCEPT ![p] = 0]
  /\ Goto(p, "lockall")
  /\ UNCHANGED <<allocVars, depotVars, arg, snap, pos, answer, given>>

LockAll(p) ==
  /\ pc[p] = "lockall" /\ ~locked[num[p]]
  /\ locked' = [locked EXCEPT ![num[p]] = TRUE]
  /\ num' = [num EXCEPT ![p] = @ + 1]
  /\ IF num'[p] = TabSize THEN Goto(p, "fork") ELSE UNCHANGED pc
  /\ UNCHANGED <<allocVars, list, seq, arg, snap, pos, answer, given, calls>>

(* What follows is the parent, where nothing changed, or the child, where   *)
(* the other threads are gone and what they held is held for ever.          *)
Fork(p) ==
  /\ pc[p] = "fork"
  /\ \/ Goto(p, "unlockall")
     \/ pc' = [q \in Procs |-> IF q = p THEN "unlockall" ELSE "gone"]
  /\ num' = [num EXCEPT ![p] = 0]
  /\ UNCHANGED <<allocVars, depotVars, arg, snap, pos, answer, given, calls>>

UnlockAll(p) ==
  /\ pc[p] = "unlockall"
  /\ locked' = [locked EXCEPT ![num[p]] = FALSE]
  /\ IF num[p] + 1 = TabSize THEN Finish(p)
     ELSE num' = [num EXCEPT ![p] = @ + 1] /\ UNCHANGED <<pc, arg, snap, pos, answer>>
  /\ UNCHANGED <<allocVars, list, seq, given, calls>>

-------------------------------------------------------------------------------
Stopped ==
  /\ \A p \in Procs : pc[p] = "gone" \/ (pc[p] = "idle" /\ calls = MaxCalls)
  /\ UNCHANGED vars

Step(p) ==
  \/ Lock(p) \/ Found(p) \/ TakeId(p) \/ Die(p) \/ Alloc(p) \/ Allocate(p)
  \/ NoMemory(p) \/ Publish(p)
  \/ Scan(p) \/ Got(p) \/ LockAll(p) \/ Fork(p) \/ UnlockAll(p)

Next ==
  \/ \E p \in Procs : \/ \E s \in Stacks : Put(p, s)
                      \/ \E g \in given : Get(p, g)
                      \/ BeforeFork(p) \/ Step(p)
  \/ Stopped

Spec == Init /\ [][Next]_vars

-------------------------------------------------------------------------------
NodeSet == [stack : Stacks, id : Nat \ {0}, at : 1 .. Top]
Labels == {"idle", "lock", "found", "id", "alloc", "publish", "scan", "got",
           "lockall", "fork", "unlockall", "gone"}

(* The types of the variables.                                              *)
TypeOK ==
  /\ AllocTypeOK
  /\ \A b \in Buckets : /\ list[b] \in Seq(NodeSet) /\ locked[b] \in BOOLEAN
                        /\ \A n \in NodesOf(list[b]) : Bucket(n.stack) = b
  /\ \A q \in 0 .. PartCount - 1 : seq[q] \in 0 .. MaxId - 1
  /\ pc \in [Procs -> Labels]
  /\ arg \in [Procs -> Stacks \cup {NoStack}] /\ answer \in [Procs -> Stacks \cup {NoStack}]
  /\ \A p \in Procs : /\ snap[p] \in Seq(NodeSet)
                      /\ num[p] \in Nat /\ pos[p] \in 0 .. PartSize
  /\ given \subseteq [stack : Stacks, id : Nat \ {0}] /\ calls \in 0 .. MaxCalls

AllNodes == UNION {NodesOf(list[b]) : b \in Buckets}

(* "Maps stack trace to an unique id" (sanitizer_stackdepotbase.h): a stack *)
(* is stored once whoever puts it when, an id names one stack, and what a   *)
(* call returned stays true.                                                *)
Interned ==
  /\ \A b \in Buckets : \A i, j \in 1 .. Len(list[b]) :
       list[b][i].stack = list[b][j].stack => i = j
  /\ \A m, n \in AllNodes : m.id = n.id => m = n
  /\ given \subseteq {[stack |-> n.stack, id |-> n.id] : n \in AllNodes}

(* Get() finds the stack of every id that Put() returned, while nodes are   *)
(* added in front of the ones it walks over.                                *)
GetIsRight == \A p \in Procs : pc[p] = "got" => answer[p] = arg[p]

(* Who has the lock of bucket b: a thread in Put(), or one that forks.      *)
Holds(p, b) ==
  \/ pc[p] \in {"found", "id", "alloc", "publish"} /\ Bucket(arg[p]) = b
  \/ pc[p] = "lockall" /\ b < num[p]
  \/ pc[p] = "fork"
  \/ pc[p] = "unlockall" /\ b >= num[p]

(* A lock has one holder, and one that still exists: a child process finds  *)
(* no bucket, and no allocator, locked by a thread it does not have.        *)
LocksHaveOwners ==
  (\E p \in Procs : pc[p] # "gone") =>
    /\ \A b \in Buckets : locked[b] <=> \E p \in Procs : Holds(p, b)
    /\ \A b \in Buckets, p, q \in Procs : Holds(p, b) /\ Holds(q, b) => p = q
    /\ \A p \in holder : pc[p] = "publish"

(* "All allocations are forever" (sanitizer_persistent_allocator.h): nodes  *)
(* are in memory that was mapped in one piece, and share no byte of it,     *)
(* until a thread wins a swap with the position of another region; which    *)
(* takes two regions of which one ends where the other starts.              *)
Memory(n) == n.at .. n.at + StorageSize(n.stack) - 1
Touching == \E r, o \in regions : r.end = o.start

NodesAreForever ==
  /\ ~stale => /\ \A m, n \in AllNodes : m # n => Memory(m) \cap Memory(n) = {}
               /\ \A n \in AllNodes : \E r \in regions : Memory(n) \subseteq r.start .. r.end - 1
  /\ stale => Touching
===============================================================================
