--------------------------- MODULE MCSanitizerHeap ---------------------------
(***************************************************************************)
(* One run for the concurrent data structures of sanitizer_common and for  *)
(* asan's chunks: the stack depot on its persistent allocator ("depot"),   *)
(* the lock-free stack ("stack"), the regions and caches of a size class   *)
(* ("class"), the address hash map ("map") and asan's chunks with their    *)
(* quarantine ("asan").  They share nothing here.  A behaviour chooses one *)
(* of them at the start (part) and the others stay as they were            *)
(* initialised.                                                            *)
(***************************************************************************)
EXTENDS StackDepot

CONSTANTS
  s1, s2, s3, s4,
  Users, None,                            (* the threads of the other parts  *)
  Links, PushMod,                         (* nodes of the lock-free stack    *)
  MaxCached, UserMapSize, MetaMapSize, ClassSize,
  MapUsers, Addrs, BucketSize, InitCap, MaxOps,
  Chunks, ChunkSize, BatchBytes, BatchSize, MaxSize, MaxCacheSize

(* Four buckets in two parts; the first two stacks fall into one bucket,    *)
(* the third into another of the same part.                                 *)
BucketOf(s) == CASE s \in {s1, s2} -> 1 [] s = s3 -> 0 [] s = s4 -> 3
SizeOf(s)   == IF s = s3 THEN 2 ELSE 1

VARIABLES
  part,
  head, next, own, lfPc, item, lfCmp, nxt, missed, stack,         (* LFStack *)
  free_list, cache, user, scPc, batch, mutex,          (* SizeClassAllocator *)
  mapped_user, allocated_user, mapped_meta, allocated_meta, scDied,
  cells, vals, add, cap, writer, readers, ahPc, handle, index,  (* AddrHashMap *)
  cell, created, ops,
  chunk_state, poisoned, free, acCache, global, acSize,        (* AsanChunks *)
  recycle_mutex, acPc, chunk, tmp, acDied

lfVars == <<head, next, own, lfPc, item, lfCmp, nxt, missed, stack>>
scVars == <<free_list, cache, user, scPc, batch, mutex,
            mapped_user, allocated_user, mapped_meta, allocated_meta, scDied>>
ahVars == <<cells, vals, add, cap, writer, readers, ahPc, handle, index, cell, created, ops>>
acVars == <<chunk_state, poisoned, free, acCache, global, acSize, recycle_mutex,
            acPc, chunk, tmp, acDied>>

L == INSTANCE LFStack WITH
       Threads <- Users, Nodes <- Links, Null <- None, CounterMod <- PushMod,
       pc <- lfPc, cmp <- lfCmp

C == INSTANCE SizeClassAllocator WITH
       Threads <- Users, Nobody <- None, RegionSize <- ClassSize,
       pc <- scPc, b <- batch, died <- scDied

H == INSTANCE AddrHashMap WITH
       Threads <- MapUsers, Nobody <- None, UserExcludes <- TRUE,
       pc <- ahPc, h <- handle, i <- index

Q == INSTANCE AsanChunks WITH
       Threads <- Users, Nobody <- None, NoChunk <- None,
       cache <- acCache, size <- acSize, pc <- acPc, m <- chunk, died <- acDied

ASSUME PartsAssumption ==
  /\ L!LFStackAssumption /\ C!ClassAssumption
  /\ H!AddrHashMapAssumption /\ Q!AsanAssumption

mcvars == <<part, vars, lfVars, scVars, ahVars, acVars>>

MCInit ==
  /\ part \in {"depot", "stack", "class", "map", "asan"}
  /\ Init /\ L!Init /\ C!Init /\ H!Init /\ Q!Init
  /\ part # "stack" => /\ \A t \in Users : own[t] = {}
                       /\ \A n \in DOMAIN next : next[n] = None

MCNext ==
  \/ part = "depot" /\ Next   /\ UNCHANGED <<part, lfVars, scVars, ahVars, acVars>>
  \/ part = "stack" /\ L!Next /\ UNCHANGED <<part, vars, scVars, ahVars, acVars>>
  \/ part = "class" /\ C!Next /\ UNCHANGED <<part, vars, lfVars, ahVars, acVars>>
  \/ part = "map"   /\ H!Next /\ UNCHANGED <<part, vars, lfVars, scVars, acVars>>
  \/ part = "asan"  /\ Q!Next /\ UNCHANGED <<part, vars, lfVars, scVars, ahVars>>

MCSpec == MCInit /\ [][MCNext]_mcvars

(* What the depot has returned stays true: a stack is stored once and an id *)
(* names one stack, Get() finds the stack of every id that Put() returned   *)
(* while nodes are added, locks have holders that exist also in the child   *)
(* of a fork, and no two nodes share memory.                                *)
DepotIsSound == Interned /\ GetIsRight /\ LocksHaveOwners /\ NodesAreForever

(* The lock-free stack works as if each operation were one step, although   *)
(* a node can be popped and pushed again between the load and the swap, and *)
(* its owner writes to it meanwhile.                                        *)
ImplementsAtomicStack == L!ImplementsAtomicStack

(* A chunk is with a user, in one cache, in one batch of a thread or in one *)
(* batch of the list, once; it is backed by mapped memory and metadata; no  *)
(* cache or batch overflows.  A node is in the lock-free stack, linked to   *)
(* the one below, or with one thread, once.                                 *)
ChunksOnce ==
  /\ C!ChunksOnce /\ C!MemoryIsThere /\ C!BatchesFit
  /\ L!NodesOnce /\ L!Linked

(* An address has one element, a handle that found an element keeps finding *)
(* it initialized whatever is added, moved or removed meanwhile, and who    *)
(* makes or removes an element is alone with it.                            *)
HandlesHold == H!ElementsOnce /\ H!HandlesHold /\ H!Exclusive

(* A freed chunk is in one place and stays poisoned until it leaves the     *)
(* quarantine, the oldest first, and the counted size is the size.          *)
QuarantineHolds ==
  [](Q!ChunksOnce /\ Q!FreedIsPoisoned /\ Q!SizeIsRight) /\ Q!OldestFirst
===============================================================================
