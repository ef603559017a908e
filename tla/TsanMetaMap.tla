----------------------------- MODULE TsanMetaMap -----------------------------
(***************************************************************************)
(* MetaMap of tsan_sync.cc: from an address of the program to its SyncVar  *)
(* and to the heap block it lies in.  A word per cell of memory is the     *)
(* head of a chain: SyncVars, the newest first, and at its end the block.  *)
(* Threads add to a chain with a compare-and-swap and no lock.  SyncVars   *)
(* are numbers from a DenseSlabAlloc (tsan_dense_alloc.h), which hands     *)
(* them out through a cache per thread.                                    *)
(*                                                                         *)
(* The program frees, unmaps or moves memory that nobody uses.  Blocks     *)
(* come from an allocator of the same type and are not told apart.  A      *)
(* page of the map is one cell here.                                       *)
(***************************************************************************)
EXTENDS Integers, FiniteSets, SequencesExt

CONSTANTS
  Threads,
  NumCells,      (* cells of memory                                           *)
  Offsets,       (* the addresses in a cell                                   *)
  SlabSize,      (* kL2Size                                                   *)
  NumSlabs,      (* kL1Size                                                   *)
  CacheSize,     (* kSize                                                     *)
  SmallPages     (* a range of at most this many pages is freed as a whole: 4 *)

Cells == 0 .. NumCells - 1
Addrs == Cells \X Offsets
Ids == 1 .. SlabSize * NumSlabs - 1
Block == -1                       (* kFlagBlock; 0 ends a chain              *)
NoAddr == <<-1, 0>>

VARIABLES
  meta,      (* meta[c]: the head of the chain of cell c                      *)
  addr, next,                     (* fields of the SyncVars                   *)
  cache,     (* cache[t]: numbers that t may hand out, the top last           *)
  freelist, fillpos,
  pc, at, idx0, myidx,            (* the locals of GetAndLock                 *)
  lost       (* numbers that were in a mapping when it was thrown away        *)

alloc == <<cache, freelist, fillpos>>
local == <<at, idx0, myidx>>
vars == <<meta, addr, next, alloc, pc, local, lost>>

Init ==
  /\ meta = [c \in Cells |-> 0]
  /\ addr = [i \in Ids |-> NoAddr] /\ next = [i \in Ids |-> 0]
  /\ cache = [t \in Threads |-> <<>>] /\ freelist = <<>> /\ fillpos = 0
  /\ pc = [t \in Threads |-> "idle"]
  /\ at = [t \in Threads |-> NoAddr]
  /\ idx0 = [t \in Threads |-> 0] /\ myidx = [t \in Threads |-> 0]
  /\ lost = {}

-----------------------------------------------------------------------------
(* DenseSlabAlloc.                                                            *)
Slab(k) == [j \in 1 .. SlabSize - (IF k = 0 THEN 1 ELSE 0) |->
              k * SlabSize + j - (IF k = 0 THEN 0 ELSE 1)]

(* After Refill the cache of the thread; with it the free list and the slabs. *)
Refill ==
  LET mapped == IF freelist = <<>> THEN Slab(fillpos) ELSE freelist
      n == IF Len(mapped) < CacheSize \div 2 THEN Len(mapped) ELSE CacheSize \div 2
  IN  [cache |-> SubSeq(mapped, 1, n),
       freelist |-> SubSeq(mapped, n + 1, Len(mapped)),
       fillpos |-> IF freelist = <<>> THEN fillpos + 1 ELSE fillpos]

(* A full cache gives half of it back before it takes a number (Free, Drain). *)
Put(s, i) ==
  IF Len(s.cache) < CacheSize
  THEN [s EXCEPT !.cache = Append(@, i)]
  ELSE LET keep == CacheSize - CacheSize \div 2
       IN  [cache |-> Append(SubSeq(s.cache, 1, keep), i),
            freelist |-> Reverse(SubSeq(s.cache, keep + 1, CacheSize)) \o s.freelist]

(* SyncVar::Reset and Free.                                                   *)
PutAll(t, ids) ==
  LET s == FoldLeft(Put, [cache |-> cache[t], freelist |-> freelist], ids)
  IN  /\ cache' = [cache EXCEPT ![t] = s.cache] /\ freelist' = s.freelist
      /\ addr' = [i \in Ids |-> IF i \in ToSet(ids) THEN NoAddr ELSE addr[i]]
      /\ next' = [i \in Ids |-> IF i \in ToSet(ids) THEN 0 ELSE next[i]]

(* OnThreadIdle, when a thread ends or says that it is idle.                  *)
OnThreadIdle(t) ==
  /\ pc[t] = "idle" /\ cache[t] # <<>>
  /\ freelist' = Reverse(cache[t]) \o freelist
  /\ cache' = [cache EXCEPT ![t] = <<>>]
  /\ UNCHANGED <<meta, addr, next, fillpos, pc, local, lost>>

-----------------------------------------------------------------------------
(* The SyncVars of a chain from its first.                                    *)
Chain(i) ==
  LET from[k \in 0 .. Cardinality(Ids)] ==
        IF k = 0 THEN <<i>> ELSE Append(from[k - 1], IF from[k - 1][k] \in Ids
                                                     THEN next[from[k - 1][k]] ELSE 0)
  IN  SelectSeq(from[Cardinality(Ids)], LAMBDA j : j \in Ids)

Find(i, a) == SelectSeq(Chain(i), LAMBDA j : addr[j] = a)

InUse(c) == \E t \in Threads : pc[t] # "idle" /\ at[t][1] = c

Leave(t) ==
  /\ pc' = [pc EXCEPT ![t] = "idle"]
  /\ myidx' = [myidx EXCEPT ![t] = 0]
  /\ at' = [at EXCEPT ![t] = NoAddr] /\ idx0' = [idx0 EXCEPT ![t] = 0]

(* GetAndLock.  What a chain holds does not change while its cell is in use,  *)
(* so that a walk over it is one step and not a step per load.                *)
Load(t, a) ==
  /\ pc[t] = "idle"
  /\ \E create \in BOOLEAN : pc' = [pc EXCEPT ![t] = IF create THEN "create" ELSE "find"]
  /\ at' = [at EXCEPT ![t] = a]
  /\ idx0' = [idx0 EXCEPT ![t] = meta[a[1]]]
  /\ UNCHANGED <<meta, addr, next, alloc, myidx, lost>>

FoundKeepsMutant(t) ==
  /\ pc[t] \in {"find", "create"} /\ Find(idx0[t], at[t]) # <<>>
  /\ UNCHANGED <<cache, freelist>>
  /\ myidx' = [myidx EXCEPT ![t] = Find(idx0[t], at[t])[1]]
  /\ pc' = [pc EXCEPT ![t] = "locked"]
  /\ UNCHANGED <<meta, addr, next, fillpos, at, idx0, lost>>

(* It is there; a SyncVar of one's own that came too late is given back.      *)
Found(t) ==
  /\ pc[t] \in {"find", "create"} /\ Find(idx0[t], at[t]) # <<>>
  /\ PutAll(t, IF myidx[t] = 0 THEN <<>> ELSE <<myidx[t]>>)
  /\ myidx' = [myidx EXCEPT ![t] = Find(idx0[t], at[t])[1]]
  /\ pc' = [pc EXCEPT ![t] = "locked"]
  /\ UNCHANGED <<meta, fillpos, at, idx0, lost>>

NotFound(t) ==
  /\ pc[t] \in {"find", "create"} /\ Find(idx0[t], at[t]) = <<>>
  /\ IF pc[t] = "create"
     THEN pc' = [pc EXCEPT ![t] = "check"] /\ UNCHANGED local
     ELSE Leave(t)
  /\ UNCHANGED <<meta, addr, next, alloc, lost>>

(* Before it allocates it looks whether the head is still the same.           *)
Check(t) ==
  /\ pc[t] = "check"
  /\ idx0' = [idx0 EXCEPT ![t] = meta[at[t][1]]]
  /\ pc' = [pc EXCEPT ![t] = IF idx0[t] # meta[at[t][1]] THEN "create"
                             ELSE IF myidx[t] = 0 THEN "alloc" ELSE "insert"]
  /\ UNCHANGED <<meta, addr, next, alloc, at, myidx, lost>>

(* Alloc and SyncVar::Init.  With all slabs mapped and in use the run-time    *)
(* dies.                                                                      *)
AllocSync(t) ==
  /\ pc[t] = "alloc"
  /\ \/ cache[t] # <<>> /\ UNCHANGED <<freelist, fillpos>>
     \/ cache[t] = <<>> /\ (freelist # <<>> \/ fillpos < NumSlabs)
        /\ freelist' = Refill.freelist /\ fillpos' = Refill.fillpos
  /\ LET from == IF cache[t] = <<>> THEN Refill.cache ELSE cache[t]
     IN  /\ myidx' = [myidx EXCEPT ![t] = Last(from)]
         /\ addr' = [addr EXCEPT ![Last(from)] = at[t]]
         /\ cache' = [cache EXCEPT ![t] = Front(from)]
  /\ pc' = [pc EXCEPT ![t] = "insert"]
  /\ UNCHANGED <<meta, next, at, idx0, lost>>

(* The compare-and-swap; when it fails the search begins again at the head.   *)
Insert(t) ==
  LET c == at[t][1] IN
  /\ pc[t] = "insert"
  /\ next' = [next EXCEPT ![myidx[t]] = idx0[t]]
  /\ IF meta[c] = idx0[t]
     THEN meta' = [meta EXCEPT ![c] = myidx[t]] /\ pc' = [pc EXCEPT ![t] = "locked"]
     ELSE meta' = meta /\ pc' = [pc EXCEPT ![t] = "create"]
  /\ idx0' = [idx0 EXCEPT ![t] = meta[c]]
  /\ UNCHANGED <<addr, alloc, at, myidx, lost>>

(* The caller has the SyncVar's lock for a while.                             *)
Unlock(t) ==
  /\ pc[t] = "locked"
  /\ Leave(t)
  /\ UNCHANGED <<meta, addr, next, alloc, lost>>

-----------------------------------------------------------------------------
HasBlock(c) == meta[c] = Block \/ \E i \in ToSet(Chain(meta[c])) : next[i] = Block

(* malloc.  The word is 0 then: a debug build checks it.                      *)
AllocBlock(c) ==
  /\ meta[c] = 0 /\ ~InUse(c)
  /\ meta' = [meta EXCEPT ![c] = Block]
  /\ UNCHANGED <<addr, next, alloc, pc, local, lost>>

(* FreeRange of some cells: the range of a block, of a Java object or of      *)
(* pages that are unmapped.                                                   *)
Free(t, cells) ==
  /\ meta' = [c \in Cells |-> IF c \in cells THEN 0 ELSE meta[c]]
  /\ PutAll(t, FoldLeft(LAMBDA s, c : s \o Chain(meta[c]), <<>>, SetToSortSeq(cells, <)))

FreeBlock(t, c) ==
  /\ pc[t] = "idle" /\ ~InUse(c) /\ HasBlock(c)
  /\ Free(t, {c})
  /\ UNCHANGED <<fillpos, pc, local, lost>>

(* ResetRange of the pages a .. b.  From the start pages are freed up to the  *)
(* first that is empty.  The loop for the end of the range frees the last of  *)
(* these again, finds nothing there and stops.                                *)
FirstEmpty(a, b) == {c \in a .. b : meta[c] = 0 /\ \A d \in a .. c - 1 : meta[d] # 0}
Probed(a, b) == IF FirstEmpty(a, b) = {} THEN a .. b
                ELSE a .. CHOOSE c \in FirstEmpty(a, b) : TRUE

ResetRange(t, a, b) ==
  /\ pc[t] = "idle" /\ \A c \in a .. b : ~InUse(c)
  /\ LET freed == IF b - a + 1 <= SmallPages THEN a .. b ELSE Probed(a, b)
         left == (a .. b) \ freed
     IN  /\ lost' = lost \union UNION {ToSet(Chain(meta[c])) : c \in left}
         /\ PutAll(t, FoldLeft(LAMBDA s, c : s \o Chain(meta[c]), <<>>, SetToSortSeq(freed, <)))
  /\ meta' = [c \in Cells |-> IF c \in a .. b THEN 0 ELSE meta[c]]
  /\ UNCHANGED <<fillpos, pc, local>>

(* The order in which cells are moved, so that ranges may overlap.            *)
MoveOrder(src, dst, n) == [k \in 1 .. n |-> IF dst > src THEN src + n - k ELSE src + k - 1]

(* MoveMemory while everybody else is stopped: the collector has freed what   *)
(* was at the destination.                                                    *)
MoveMemory(src, dst, n) ==
  /\ src # dst /\ \A t \in Threads : pc[t] = "idle"
  /\ \A c \in (dst .. dst + n - 1) \ (src .. src + n - 1) : meta[c] = 0
  /\ meta' = FoldLeft(LAMBDA m, c : [m EXCEPT ![c + dst - src] = m[c], ![c] = 0],
                      meta, MoveOrder(src, dst, n))
  /\ addr' = [i \in Ids |->
               IF \E c \in src .. src + n - 1 : i \in ToSet(Chain(meta[c]))
               THEN <<addr[i][1] + dst - src, addr[i][2]>> ELSE addr[i]]
  /\ UNCHANGED <<next, alloc, pc, local, lost>>

GetAndLock(t) ==
  \/ \E a \in Addrs : Load(t, a)
  \/ Found(t) \/ NotFound(t) \/ Check(t) \/ AllocSync(t) \/ Insert(t)

Next ==
  \/ \E t \in Threads :
       \/ GetAndLock(t) \/ Unlock(t) \/ OnThreadIdle(t)
       \/ \E c \in Cells : FreeBlock(t, c)
       \/ \E a \in Cells : \E b \in a .. NumCells - 1 : ResetRange(t, a, b)
  \/ \E c \in Cells : AllocBlock(c)
  \/ \E src, dst \in Cells, n \in 1 .. NumCells :
       src + n <= NumCells /\ dst + n <= NumCells /\ MoveMemory(src, dst, n)

Spec == Init /\ [][Next]_vars

-----------------------------------------------------------------------------
InMap == UNION {ToSet(Chain(meta[c])) : c \in Cells}

(* An address has at most one SyncVar, in the chain of its own cell, also     *)
(* when two threads look for it at once or the collector moves it: otherwise  *)
(* a mutex has two clocks (Insert, MoveMemory).                               *)
OneSyncPerAddress ==
  /\ \A i, j \in InMap : addr[i] = addr[j] => i = j
  /\ \A c \in Cells : \A i \in ToSet(Chain(meta[c])) : addr[i][1] = c

(* What a thread has locked is what the map has for the address.              *)
LockedIsCurrent ==
  \A t \in Threads : pc[t] = "locked" => myidx[t] \in InMap /\ addr[myidx[t]] = at[t]

(* A number is in one place: in the map, with a thread, in a cache, in the    *)
(* free list, or thrown away with a mapping.  None is handed out twice and    *)
(* none is forgotten (Found, Put, Refill, OnThreadIdle).                      *)
IndexInOnePlace ==
  LET held == {myidx[t] : t \in {u \in Threads : pc[u] \in {"check", "create", "insert"}}} \ {0}
      cached == UNION {ToSet(cache[t]) : t \in Threads}
      all == UNION {ToSet(Slab(k)) : k \in 0 .. fillpos - 1}
  IN  /\ InMap \union held \union cached \union ToSet(freelist) \union lost = all
      /\ Cardinality(InMap) + Cardinality(held) + Cardinality(lost)
           + FoldLeft(LAMBDA n, t : n + Len(cache[t]), 0, SetToSeq(Threads)) + Len(freelist)
         = Cardinality(all)

(* "The function probes pages one-by-one until it finds a page without meta   *)
(* objects, at this point it stops freeing meta objects.  Because thread      *)
(* stacks grow top-down, we do the same starting from end as well": what is   *)
(* in the last page of a range is never lost (ResetRange).                    *)
EndIsProbed ==
  [][\A t \in Threads, a, b \in Cells :
       ResetRange(t, a, b) => lost' \intersect ToSet(Chain(meta[b])) = {}]_vars
=============================================================================
