------------------------------- MODULE AsanChunks -------------------------------
(***************************************************************************)
(* The life of a chunk of asan's heap: allocated, freed into a thread's    *)
(* quarantine, moved to the global one, recycled.  Any thread may free any *)
(* chunk at any time, also twice: asan is there for programs that do.      *)
(* Each chunk has one size, and shadow memory that is poisoned or not.     *)
(***************************************************************************)
EXTENDS Integers, FiniteSets, SequencesExt

CONSTANTS Threads, Chunks, Nobody, NoChunk,
          ChunkSize, BatchBytes,        (* of a chunk, sizeof(QuarantineBatch)*)
          BatchSize,                    (* QuarantineBatch::kSize             *)
          MaxSize, MaxCacheSize         (* the quarantine's limits            *)

AsanAssumption ==
  /\ Nobody \notin Threads /\ NoChunk \notin Chunks
  /\ ChunkSize \in Nat \ {0} /\ BatchBytes \in Nat /\ BatchSize \in Nat \ {0}
  /\ MaxSize \in Nat /\ MaxCacheSize \in Nat

min_size == (MaxSize \div 10) * 9

VARIABLES
  chunk_state, poisoned,    (* of each chunk                                  *)
  free,                     (* the chunks in the allocator                    *)
  cache, global,            (* quarantines: batches, the oldest first         *)
  size,                     (* size_ of the global one                        *)
  recycle_mutex,
  pc, m, tmp,               (* a thread's place, chunk, batches to recycle    *)
  died                      (* an error is reported                           *)

heap == <<chunk_state, poisoned, free>>
vars == <<heap, cache, global, size, recycle_mutex, pc, m, tmp, died>>

Init ==
  /\ chunk_state = [c \in Chunks |-> "available"] /\ poisoned = Chunks /\ free = Chunks
  /\ cache = [t \in Threads |-> << >>] /\ global = << >> /\ size = 0
  /\ recycle_mutex = Nobody
  /\ pc = [t \in Threads |-> "out"] /\ m = [t \in Threads |-> NoChunk]
  /\ tmp = [t \in Threads |-> << >>] /\ died = FALSE

Goto(t, l) == pc' = [pc EXCEPT ![t] = l]
Hold(t, c) == m' = [m EXCEPT ![t] = c]
Slots(batches) ==
  UNION {{<<i, j>> : j \in DOMAIN batches[i]} : i \in DOMAIN batches}
BytesOf(batches) == BatchBytes * Len(batches) + ChunkSize * Cardinality(Slots(batches))

(* Allocate(): the chunk is taken, its shadow cleared, and then its state is  *)
(* set, last.                                                                 *)
Allocate(t) ==
  /\ pc[t] = "out"
  /\ \E c \in free : free' = free \ {c} /\ Hold(t, c)
  /\ Goto(t, "unpoison")
  /\ UNCHANGED <<chunk_state, poisoned, cache, global, size, recycle_mutex, tmp, died>>

Unpoison(t) ==
  /\ pc[t] = "unpoison" /\ poisoned' = poisoned \ {m[t]} /\ Goto(t, "publish")
  /\ UNCHANGED <<chunk_state, free, cache, global, size, recycle_mutex, m, tmp, died>>

Publish(t) ==
  /\ pc[t] = "publish"
  /\ chunk_state' = [chunk_state EXCEPT ![m[t]] = "allocated"]
  /\ Hold(t, NoChunk) /\ Goto(t, "out")
  /\ UNCHANGED <<poisoned, free, cache, global, size, recycle_mutex, tmp, died>>

(* AtomicallySetQuarantineFlag(): of two that free a chunk, one reports.      *)
SetQuarantineFlag(t, c) ==
  /\ pc[t] = "out"
  /\ \/ /\ chunk_state[c] = "allocated"
        /\ chunk_state' = [chunk_state EXCEPT ![c] = "quarantine"]
        /\ Hold(t, c) /\ Goto(t, "poison") /\ UNCHANGED died
     \/ chunk_state[c] # "allocated" /\ died' = TRUE /\ UNCHANGED <<chunk_state, pc, m>>
  /\ UNCHANGED <<poisoned, free, cache, global, size, recycle_mutex, tmp>>

Poison(t) ==
  /\ pc[t] = "poison" /\ poisoned' = poisoned \union {m[t]} /\ Goto(t, "put")
  /\ UNCHANGED <<chunk_state, free, cache, global, size, recycle_mutex, m, tmp, died>>

(* QuarantineCache::Enqueue(), and Put()'s look at the size of the cache.     *)
Enqueue(batches, c) ==
  IF batches = << >> \/ Len(Last(batches)) = BatchSize THEN Append(batches, <<c>>)
  ELSE Append(Front(batches), Append(Last(batches), c))

Put(t) ==
  /\ pc[t] = "put"
  /\ cache' = [cache EXCEPT ![t] = Enqueue(@, m[t])]
  /\ Hold(t, NoChunk)
  /\ Goto(t, IF BytesOf(cache'[t]) > MaxCacheSize THEN "drain" ELSE "out")
  /\ UNCHANGED <<heap, global, size, recycle_mutex, tmp, died>>

TransferMutant(t) ==
  /\ pc[t] = "drain"
  /\ global' = cache[t] \o global /\ size' = size + BytesOf(cache[t])
  /\ cache' = [cache EXCEPT ![t] = << >>] /\ Goto(t, "try")
  /\ UNCHANGED <<heap, recycle_mutex, m, tmp, died>>

(* Drain(): Transfer() under the cache mutex.                                 *)
Transfer(t) ==
  /\ pc[t] = "drain"
  /\ global' = global \o cache[t] /\ size' = size + BytesOf(cache[t])
  /\ cache' = [cache EXCEPT ![t] = << >>] /\ Goto(t, "try")
  /\ UNCHANGED <<heap, recycle_mutex, m, tmp, died>>

(* A thread ends: CommitBack().                                               *)
CommitBack(t) ==
  /\ pc[t] = "out" /\ cache[t] # << >> /\ Goto(t, "drain")
  /\ UNCHANGED <<heap, cache, global, size, recycle_mutex, m, tmp, died>>

(* Who does not get the mutex leaves the work to who has it.                  *)
TryRecycle(t) ==
  /\ pc[t] = "try"
  /\ IF size > MaxSize /\ recycle_mutex = Nobody
       THEN recycle_mutex' = t /\ Goto(t, "recycle")
       ELSE Goto(t, "out") /\ UNCHANGED recycle_mutex
  /\ UNCHANGED <<heap, cache, global, size, m, tmp, died>>

(* Recycle(): the oldest batches until the rest is small, under the cache     *)
(* mutex.                                                                     *)
TakeOld(t) ==
  LET Enough(k) == BytesOf(SubSeq(global, k + 1, Len(global))) <= min_size IN
  /\ pc[t] = "recycle"
  /\ \E k \in 0 .. Len(global) :
       /\ Enough(k) /\ \A j \in 0 .. k - 1 : ~Enough(j)
       /\ tmp' = [tmp EXCEPT ![t] = SubSeq(global, 1, k)]
       /\ global' = SubSeq(global, k + 1, Len(global))
  /\ size' = size - BytesOf(tmp'[t])
  /\ Goto(t, "unlock")
  /\ UNCHANGED <<heap, cache, recycle_mutex, m, died>>

UnlockRecycle(t) ==
  /\ pc[t] = "unlock" /\ recycle_mutex' = Nobody /\ Goto(t, "give")
  /\ UNCHANGED <<heap, cache, global, size, m, tmp, died>>

(* DoRecycle() and QuarantineCallback::Recycle(), chunk by chunk.             *)
GiveBack(t) ==
  /\ pc[t] = "give"
  /\ IF tmp[t] = << >>
       THEN Goto(t, "out") /\ UNCHANGED <<heap, tmp>>
       ELSE LET c == Head(Head(tmp[t])) rest == Tail(Head(tmp[t])) IN
            /\ chunk_state' = [chunk_state EXCEPT ![c] = "available"]
            /\ poisoned' = poisoned \union {c} /\ free' = free \union {c}
            /\ tmp' = [tmp EXCEPT ![t] = IF rest = << >> THEN Tail(@) ELSE <<rest>> \o Tail(@)]
            /\ UNCHANGED pc
  /\ UNCHANGED <<cache, global, size, recycle_mutex, m, died>>

Dead == died /\ UNCHANGED vars

Next ==
  \/ ~died /\ \E t \in Threads :
       \/ Allocate(t) \/ Unpoison(t) \/ Publish(t)
       \/ (\E c \in Chunks : SetQuarantineFlag(t, c)) \/ Poison(t) \/ Put(t)
       \/ Transfer(t) \/ CommitBack(t) \/ TryRecycle(t) \/ TakeOld(t)
       \/ UnlockRecycle(t) \/ GiveBack(t)
  \/ Dead

Spec == Init /\ [][Next]_vars

-----------------------------------------------------------------------------
(* Where a chunk is: in the allocator, in a quarantine or on the way out of   *)
(* one, in a thread's hand, or with a user; in one place, and its state says  *)
(* which.                                                                     *)
In(batches, c) == {p \in Slots(batches) : batches[p[1]][p[2]] = c}

Places(c) ==
  {<<"global", Nobody, p>> : p \in In(global, c)} \union
  (UNION {{<<"cache", t, p>> : p \in In(cache[t], c)} \union
          {<<"tmp", t, p>> : p \in In(tmp[t], c)} : t \in Threads}) \union
  {<<"hand", t, <<0, 0>>>> : t \in {u \in Threads : m[u] = c}}

ChunksOnce ==
  \A c \in Chunks :
    IF c \in free \/ chunk_state[c] = "allocated"
    THEN Places(c) = {} /\ (c \in free => chunk_state[c] = "available")
    ELSE Places(c) # {} /\ \A x, y \in Places(c) : x = y

(* Memory that is not a user's is poisoned, but for the moments before an     *)
(* allocation is published and after a free is decided: a use after free is   *)
(* seen as long as the chunk is in quarantine.                                *)
FreedIsPoisoned ==
  \A c \in Chunks \ poisoned :
    \/ chunk_state[c] = "allocated"
    \/ \E t \in Threads : m[t] = c /\ pc[t] \in {"publish", "poison"}

(* The counted size is the size.                                              *)
SizeIsRight == size = BytesOf(global)

(* First in, first out: chunks leave the global quarantine oldest first.      *)
OldestFirst ==
  [][\/ IsPrefix(global, global')
     \/ IsSuffix(global', global)]_vars
=============================================================================
