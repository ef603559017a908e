--------------------------- MODULE SizeClassAllocator ---------------------------
(***************************************************************************)
(* One size class of SizeClassAllocator64 and the caches of threads before *)
(* it: chunks go between users, caches and, in batches, the free list,     *)
(* which is a lock-free stack (see LFStack).  A region of memory grows by  *)
(* mapping at its start for users and at its end for metadata.  Sizes and  *)
(* offsets are counted in chunks.                                          *)
(***************************************************************************)
EXTENDS Integers, Sequences, SequencesExt

CONSTANTS Threads, Nobody,
          MaxCached,      (* chunks in a batch; a cache has room for two      *)
          UserMapSize,    (* kUserMapSize                                     *)
          MetaMapSize,    (* kMetaMapSize, in chunks whose metadata it holds  *)
          RegionSize      (* kRegionSize                                      *)

ClassAssumption ==
  /\ Nobody \notin Threads
  /\ MaxCached \in Nat \ {0} /\ UserMapSize \in Nat \ {0} /\ MetaMapSize \in Nat \ {0}
  /\ RegionSize \in Nat

VARIABLES
  free_list,                              (* batches, the last pushed first   *)
  cache,                                  (* per_class_[].batch of threads    *)
  user,                                   (* the chunks that users have       *)
  pc, b,                                  (* where a thread is, its batch     *)
  mutex,                                  (* who has the region's mutex       *)
  mapped_user, allocated_user,
  mapped_meta, allocated_meta,
  died

region == <<mapped_user, allocated_user, mapped_meta, allocated_meta, died>>
vars == <<free_list, cache, user, pc, b, mutex, region>>

max_count == 2 * MaxCached

Init ==
  /\ free_list = << >> /\ user = {} /\ mutex = Nobody
  /\ cache = [t \in Threads |-> << >>] /\ b = [t \in Threads |-> << >>]
  /\ pc = [t \in Threads |-> "out"]
  /\ mapped_user = 0 /\ allocated_user = 0 /\ mapped_meta = 0 /\ allocated_meta = 0
  /\ died = FALSE

Goto(t, l) == pc' = [pc EXCEPT ![t] = l]

Pop(t, l) ==
  /\ free_list # << >>
  /\ b' = [b EXCEPT ![t] = Head(free_list)] /\ free_list' = Tail(free_list)
  /\ Goto(t, l)

Allocate(t) ==
  /\ pc[t] = "out" /\ cache[t] # << >>
  /\ user' = user \union {Last(cache[t])}
  /\ cache' = [cache EXCEPT ![t] = Front(@)]
  /\ UNCHANGED <<free_list, pc, b, mutex, region>>

(* Allocate() with an empty cache: Refill() and AllocateBatch().              *)
AllocateBatch(t) ==
  /\ pc[t] = "out" /\ cache[t] = << >>
  /\ \/ Pop(t, "take")
     \/ free_list = << >> /\ Goto(t, "populate") /\ UNCHANGED <<free_list, b>>
  /\ UNCHANGED <<cache, user, mutex, region>>

(* PopulateFreeList(), which looks at the list again under the mutex.         *)
Populate(t) ==
  /\ pc[t] = "populate" /\ mutex = Nobody /\ ~died
  /\ \/ Pop(t, "take") /\ UNCHANGED mutex
     \/ /\ free_list = << >> /\ mutex' = t /\ Goto(t, "map")
        /\ UNCHANGED <<free_list, b>>
  /\ UNCHANGED <<cache, user, region>>

(* What is mapped, in steps of s, until it is at least what is needed.        *)
GrowTo(mapped, s, need) ==
  IF need <= mapped THEN mapped ELSE mapped + s * ((need - mapped + s - 1) \div s)

(* One chunk more than needed is mapped.  The program dies when the region is *)
(* full.                                                                      *)
Map(t) ==
  LET user1 == GrowTo(mapped_user, UserMapSize, allocated_user + MaxCached + 1)
      total == ((user1 - allocated_user - 1) \div MaxCached) * MaxCached
      meta1 == GrowTo(mapped_meta, MetaMapSize, allocated_meta + total) IN
  /\ pc[t] = "map"
  /\ mapped_user' = user1 /\ allocated_meta' = allocated_meta + total
  /\ mapped_meta' = meta1
  /\ died' = (user1 + meta1 > RegionSize)
  /\ IF died' THEN UNCHANGED pc ELSE Goto(t, "slice")
  /\ UNCHANGED <<free_list, cache, user, b, mutex, allocated_user>>

(* The loop that makes batches: the last one is kept, the others are pushed.  *)
Slice(t) ==
  LET batch == [i \in 1 .. MaxCached |-> allocated_user + i - 1]
      end == allocated_user + MaxCached IN
  /\ pc[t] = "slice" /\ ~died
  /\ allocated_user' = end
  /\ IF end + MaxCached + 1 > mapped_user
       THEN /\ b' = [b EXCEPT ![t] = batch]
            /\ Goto(t, "take") /\ mutex' = Nobody /\ UNCHANGED free_list
       ELSE free_list' = <<batch>> \o free_list /\ UNCHANGED <<pc, b, mutex>>
  /\ UNCHANGED <<cache, user, mapped_user, mapped_meta, allocated_meta, died>>

(* The rest of Refill() and Allocate().                                       *)
Take(t) ==
  /\ pc[t] = "take"
  /\ cache' = [cache EXCEPT ![t] = Front(b[t])] /\ user' = user \union {Last(b[t])}
  /\ b' = [b EXCEPT ![t] = << >>] /\ Goto(t, "out")
  /\ UNCHANGED <<free_list, mutex, region>>

(* Drain(): what goes to the free list, and what stays.                       *)
Drained(c) == SubSeq(c, 1, IF Len(c) < MaxCached THEN Len(c) ELSE MaxCached)
KeptMutant(c) == SubSeq(c, MaxCached, Len(c))
Kept(c) == SubSeq(c, MaxCached + 1, Len(c))

(* Any thread may free a chunk.                                               *)
Deallocate(t, p) ==
  /\ pc[t] = "out" /\ p \in user /\ user' = user \ {p}
  /\ IF Len(cache[t]) = max_count
       THEN /\ free_list' = <<Drained(cache[t])>> \o free_list
            /\ cache' = [cache EXCEPT ![t] = Append(Kept(@), p)]
       ELSE cache' = [cache EXCEPT ![t] = Append(@, p)] /\ UNCHANGED free_list
  /\ UNCHANGED <<pc, b, mutex, region>>

(* Destroy() of a cache, when its thread ends; a new thread may use the slot. *)
Destroy(t) ==
  /\ pc[t] \in {"out", "drain"} /\ cache[t] # << >>
  /\ free_list' = <<Drained(cache[t])>> \o free_list
  /\ cache' = [cache EXCEPT ![t] = Kept(@)]
  /\ Goto(t, IF cache'[t] = << >> THEN "out" ELSE "drain")
  /\ UNCHANGED <<user, b, mutex, region>>

Dead == died /\ UNCHANGED vars

Next ==
  \/ ~died /\ \E t \in Threads :
       \/ Allocate(t) \/ AllocateBatch(t) \/ Populate(t) \/ Map(t) \/ Slice(t)
       \/ Take(t) \/ Destroy(t) \/ \E p \in user : Deallocate(t, p)
  \/ Dead

Spec == Init /\ [][Next]_vars

-----------------------------------------------------------------------------
(* A chunk is with a user, in one cache, in one batch of a thread or in one   *)
(* batch of the list, once; and none is lost.                                 *)
InList == UNION {Range(free_list[n]) : n \in DOMAIN free_list}
With(t) == Range(cache[t]) \union Range(b[t])

ChunksOnce ==
  /\ \A n \in DOMAIN free_list : IsInjective(free_list[n])
  /\ \A m, n \in DOMAIN free_list :
       m # n => Range(free_list[m]) \intersect Range(free_list[n]) = {}
  /\ \A t \in Threads : /\ IsInjective(cache[t]) /\ IsInjective(b[t])
                       /\ Range(cache[t]) \intersect Range(b[t]) = {}
  /\ \A t, u \in Threads : t # u => With(t) \intersect With(u) = {}
  /\ \A t \in Threads : With(t) \intersect (user \union InList) = {}
  /\ user \intersect InList = {}
  /\ user \union InList \union UNION {With(t) : t \in Threads} = 0 .. allocated_user - 1

(* Every chunk lies in mapped memory and so does its metadata, which does not *)
(* reach the chunks.                                                          *)
MemoryIsThere ==
  ~died => /\ allocated_user <= mapped_user
           /\ allocated_user <= allocated_meta /\ allocated_meta <= mapped_meta
           /\ mapped_user + mapped_meta <= RegionSize

(* No cache overflows, and no batch is empty or too large.                    *)
BatchesFit ==
  /\ \A t \in Threads : Len(cache[t]) <= max_count /\ Len(b[t]) <= MaxCached
  /\ \A i \in DOMAIN free_list : Len(free_list[i]) \in 1 .. MaxCached
=============================================================================
