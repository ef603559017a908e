------------------------------ MODULE TsanClock ------------------------------
(***************************************************************************)
(* The vector clocks of ThreadSanitizer: ThreadClock and SyncClock of      *)
(* compiler-rt/lib/tsan/rtl/tsan_clock.cc, driven the way the run-time     *)
(* drives them (AcquireImpl, ReleaseImpl, ... of tsan_rtl_mutex.cc and the *)
(* thread callbacks of tsan_rtl_thread.cc).  A sync clock remembers which  *)
(* threads acquired it last, which elements changed since and who wrote it *)
(* whole, so that most operations touch one element.                       *)
(*                                                                         *)
(* An operation on a sync clock holds that sync variable's mutex and a     *)
(* thread clock is private to its thread, so an operation is one step.     *)
(* AcquireGlobal is the exception: it reads the other threads' epochs one  *)
(* by one while they run.                                                  *)
(***************************************************************************)
EXTENDS Integers, FiniteSets, Functions, TLC

CONSTANTS
  N,          (* thread ids are 0 .. N-1; the code's kMaxTid *)
  Syncs,      (* the sync variables *)
  MaxEpoch,   (* the last epoch; kClkBits bits in the code *)
  MaxTicks,   (* how many epochs all threads together may begin: the bound *)
  GlobalTicks,  (* the same where some thread may run AcquireGlobal          *)
  MaxReuse,   (* how often one tid may be taken over *)
  kDirtyTids, (* slots for changed elements; 2 in the code *)
  Finalizers  (* the threads that may run AcquireGlobal, for Java finalizers *)

(* Sync variables are interchangeable.                                      *)
Symmetry == Permutations(Syncs)

ASSUME NAssumption == N \in Nat \ {0}
ASSUME BoundsAssumption == MaxEpoch \in Nat /\ MaxReuse \in Nat

Tids       == 0 .. N - 1
kInvalidTid == N
NoFinalizer == N + 1
Epochs     == 0 .. MaxEpoch
Reuses     == 0 .. MaxReuse + 1   (* 0 has a special meaning *)

VARIABLES
  epoch,   (* epoch[t]: thr->fast_state.epoch() *)
  thr,     (* thr[t]: the ThreadClock of the thread that has tid t now *)
  sync,    (* sync[s]: the SyncClock of sync variable s *)
  global   (* global[t]: the tid AcquireGlobal reads next; N when it does not    *)
           (* run; NoFinalizer in a thread that never runs it                  *)

vars == <<epoch, thr, sync, global>>

ThreadClocks ==
  [clk : [Tids -> Epochs], nclk : 1 .. N, last_acquire : Epochs, reused : Reuses]

SyncClocks ==
  [clk : [Tids -> Epochs], reused : [Tids -> Reuses], size : 0 .. N,
   dirty_tids : SUBSET Tids,
   release_store_tid : Tids \cup {kInvalidTid}, release_store_reused : Reuses]

Larger(a, b) == IF a >= b THEN a ELSE b

(* ThreadClock's constructor: the reuse count starts at 1.                  *)
NewThreadClock(t, reuse) ==
  [clk |-> [i \in Tids |-> 0], nclk |-> t + 1, last_acquire |-> 0, reused |-> reuse + 1]

(* SyncClock's constructor, and what Reset leaves.  Elements at size and    *)
(* beyond are zero: blocks are cleared when they are allocated.             *)
EmptySyncClock ==
  [clk |-> [i \in Tids |-> 0], reused |-> [i \in Tids |-> 0], size |-> 0,
   dirty_tids |-> {},
   release_store_tid |-> kInvalidTid, release_store_reused |-> 0]

(* thr->clock.set(thr->fast_state.epoch()), before every operation.         *)
SetOwn(t, th, e) == [th EXCEPT !.clk[t] = e]

-------------------------------------------------------------------------------
(* acquire(): is the "acquired" flag of thread t up?                        *)
Flagged(t, th, sy) == sy.size > t /\ sy.reused[t] = th.reused

(* The elements acquire() looks at: the dirty ones, or all of them.         *)
Scanned(t, th, sy) == IF Flagged(t, th, sy) THEN sy.dirty_tids ELSE 0 .. sy.size - 1

(* The elements that are news to the thread.                                *)
News(t, th, sy) == {i \in Scanned(t, th, sy) : th.clk[i] < sy.clk[i]}

Learned(t, th, sy) ==
  [i \in Tids |-> IF i \in News(t, th, sy) THEN sy.clk[i] ELSE th.clk[i]]

(* Mutant: the time of the acquire is recorded on the slow path only.       *)
AcquireThreadForgetsTime(t, th, sy) ==
  [th EXCEPT !.clk = Learned(t, th, sy),
             !.nclk = IF Flagged(t, th, sy) THEN @ ELSE Larger(@, sy.size),
             !.last_acquire = IF News(t, th, sy) # {} /\ ~Flagged(t, th, sy)
                              THEN Learned(t, th, sy)[t] ELSE @]

(* acquire() on the thread's side.                                          *)
AcquireThread(t, th, sy) ==
  [th EXCEPT !.clk = Learned(t, th, sy),
             !.nclk = IF Flagged(t, th, sy) THEN @ ELSE Larger(@, sy.size),
             !.last_acquire = IF News(t, th, sy) # {} THEN Learned(t, th, sy)[t] ELSE @]

(* The flag goes up, when the clock has an element to hold it.              *)
AcquireSync(t, th, sy) ==
  IF sy.size > t THEN [sy EXCEPT !.reused[t] = th.reused] ELSE sy

(* Resize(), as the callers use it: only ever larger.                       *)
Resized(sy, n) == [sy EXCEPT !.size = Larger(@, n)]

(* Mutant: when dirty_tids is full the flags stay up.                       *)
UpdateKeepsFlags(t, th, sy) ==
  LET fits == t \in sy.dirty_tids \/ Cardinality(sy.dirty_tids) < kDirtyTids
  IN [sy EXCEPT !.clk[t] = th.clk[t],
                !.dirty_tids = IF fits THEN @ \cup {t} ELSE {}]

(* UpdateCurrentThread(): one element changes; the flags survive while the  *)
(* changed elements fit into dirty_tids.  The code fills the slots of       *)
(* dirty_tids in order and clears them together, so they are a set.         *)
UpdateCurrentThread(t, th, sy) ==
  LET fits == t \in sy.dirty_tids \/ Cardinality(sy.dirty_tids) < kDirtyTids
  IN [sy EXCEPT !.clk[t] = th.clk[t],
                !.reused = IF fits THEN @ ELSE [i \in Tids |-> 0],
                !.dirty_tids = IF fits THEN @ \cup {t} ELSE {}]

(* Mutant: >= for >.                                                        *)
AcquiredNothingSinceOrAt(t, th, sy) == sy.clk[t] >= th.last_acquire

(* The thread released into this clock after its last acquire.              *)
AcquiredNothingSince(t, th, sy) == sy.clk[t] > th.last_acquire

(* Mutant: the reuse count is not compared.                                 *)
StoredByMeOrBefore(t, th, sy) == sy.release_store_tid = t

(* Nobody but this very thread wrote the clock since its last store.        *)
StoredByMe(t, th, sy) ==
  /\ sy.release_store_tid = t
  /\ sy.release_store_reused = th.reused

ReleaseStoreSync(t, th, old) ==
  LET sy == Resized(old, th.nclk) IN
  IF StoredByMe(t, th, sy) /\ AcquiredNothingSince(t, th, sy)
  THEN UpdateCurrentThread(t, th, sy)
  ELSE [sy EXCEPT !.clk = [i \in Tids |-> IF i < th.nclk THEN th.clk[i] ELSE 0],
                  !.reused = [i \in Tids |-> IF i = t THEN th.reused ELSE 0],
                  !.dirty_tids = {},
                  !.release_store_tid = t,
                  !.release_store_reused = th.reused]

IsAlreadyAcquired(t, th, sy) ==
  /\ sy.reused[t] = th.reused
  /\ \A i \in sy.dirty_tids : th.clk[i] >= sy.clk[i]

(* release() into a clock that is not empty.                                *)
ReleaseIntoSync(t, th, old) ==
  LET sy  == Resized(old, th.nclk)
      one == UpdateCurrentThread(t, th, sy)
  IN IF AcquiredNothingSince(t, th, sy)
     THEN IF StoredByMe(t, th, sy) THEN one
          ELSE [one EXCEPT !.release_store_tid = kInvalidTid]
     ELSE [sy EXCEPT
             !.clk = [i \in Tids |-> IF i < th.nclk THEN Larger(sy.clk[i], th.clk[i])
                                     ELSE sy.clk[i]],
             !.reused = [i \in Tids |-> IF i = t /\ IsAlreadyAcquired(t, th, sy)
                                        THEN th.reused ELSE 0],
             !.dirty_tids = {},
             !.release_store_tid = kInvalidTid,
             !.release_store_reused = 0]

ReleaseSync(t, th, sy) ==
  IF sy.size = 0 THEN ReleaseStoreSync(t, th, sy) ELSE ReleaseIntoSync(t, th, sy)

-------------------------------------------------------------------------------
Init ==
  /\ epoch = [t \in Tids |-> 0]
  /\ thr = [t \in Tids |-> NewThreadClock(t, 0)]
  /\ sync = [s \in Syncs |-> EmptySyncClock]
  /\ \E F \in SUBSET (Finalizers \cap Tids) :
       global = [t \in Tids |-> IF t \in F THEN N ELSE NoFinalizer]

(* Is the thread registry's lock free of AcquireGlobal?                     *)
RegistryFree == \A t \in Tids : global[t] >= N

(* A process in which no thread ever runs AcquireGlobal.                    *)
NoFinalizers == \A t \in Tids : global[t] = NoFinalizer

(* IncrementEpoch(), within the bounds.                                     *)
Tick(t) ==
  /\ global[t] >= N
  /\ epoch[t] < MaxEpoch
  /\ FoldFunction(+, 0, epoch) < IF NoFinalizers THEN MaxTicks ELSE GlobalTicks
  /\ epoch' = [epoch EXCEPT ![t] = @ + 1]

(* A memory access or any other traced event of thread t.                   *)
Access(t) == Tick(t) /\ UNCHANGED <<thr, sync, global>>

(* AcquireImpl(): its callers may have ticked (Access) or not.              *)
Acquire(t, s) ==
  LET now == SetOwn(t, thr[t], epoch[t]) IN
  /\ global[t] >= N
  /\ thr' = [thr EXCEPT ![t] = AcquireThread(t, now, sync[s])]
  /\ sync' = [sync EXCEPT ![s] = AcquireSync(t, now, @)]
  /\ UNCHANGED <<epoch, global>>

(* Release(), MutexReadUnlock(), AtomicStore(): every caller of ReleaseImpl *)
(* increments the epoch first.                                              *)
Release(t, s) ==
  LET now == SetOwn(t, thr[t], epoch'[t]) IN
  /\ Tick(t)
  /\ thr' = [thr EXCEPT ![t] = now]
  /\ sync' = [sync EXCEPT ![s] = ReleaseSync(t, now, @)]
  /\ UNCHANGED global

(* ReleaseStore(), MutexUnlock().                                           *)
ReleaseStore(t, s) ==
  LET now == SetOwn(t, thr[t], epoch'[t]) IN
  /\ Tick(t)
  /\ thr' = [thr EXCEPT ![t] = now]
  /\ sync' = [sync EXCEPT ![s] = ReleaseStoreSync(t, now, @)]
  /\ UNCHANGED global

(* AcquireReleaseImpl(): acquire, then ReleaseStore.                        *)
AcqRel(t, s) ==
  LET now == SetOwn(t, thr[t], epoch'[t])
      th  == AcquireThread(t, now, sync[s])
  IN
  /\ Tick(t)
  /\ thr' = [thr EXCEPT ![t] = th]
  /\ sync' = [sync EXCEPT ![s] = ReleaseStoreSync(t, th, AcquireSync(t, now, @))]
  /\ UNCHANGED global

(* SyncVar::Reset() and OnDetached().                                       *)
Reset(s) ==
  /\ sync' = [sync EXCEPT ![s] = EmptySyncClock]
  /\ UNCHANGED <<epoch, thr, global>>

(* OnJoined(): the joiner acquires the thread's clock and empties it.       *)
Join(t, s) ==
  LET now == SetOwn(t, thr[t], epoch[t]) IN
  /\ RegistryFree
  /\ thr' = [thr EXCEPT ![t] = AcquireThread(t, now, sync[s])]
  /\ sync' = [sync EXCEPT ![s] = EmptySyncClock]
  /\ UNCHANGED <<epoch, global>>

(* OnStarted(): a new thread takes over the tid of a finished one, with a   *)
(* later epoch and the next reuse count; it acquires the clock its creator  *)
(* released into s and empties it.                                          *)
Start(t, s) ==
  LET new == SetOwn(t, NewThreadClock(t, thr[t].reused), epoch'[t]) IN
  /\ RegistryFree
  /\ Tick(t)
  /\ thr[t].reused <= MaxReuse
  /\ thr' = [thr EXCEPT ![t] = AcquireThread(t, new, sync[s])]
  /\ sync' = [sync EXCEPT ![s] = EmptySyncClock]
  /\ UNCHANGED global

(* AcquireGlobal(): takes the thread registry's lock, which a thread also   *)
(* needs to start or to be joined, and calls UpdateClockCallback for every  *)
(* tid in turn.                                                             *)
AcquireGlobal(t) ==
  /\ global[t] = N /\ RegistryFree
  /\ global' = [global EXCEPT ![t] = 0]
  /\ UNCHANGED <<epoch, thr, sync>>

(* set(tid, v): every time last_acquire becomes the thread's own time.      *)
UpdateClockCallback(t) ==
  LET u   == global[t]
      clk == [thr[t].clk EXCEPT ![u] = epoch[u]]
  IN
  /\ u < N
  /\ thr' = [thr EXCEPT ![t].clk = clk,
                        ![t].nclk = Larger(@, u + 1),
                        ![t].last_acquire = clk[t]]
  /\ global' = [global EXCEPT ![t] = u + 1]
  /\ UNCHANGED <<epoch, sync>>

Next ==
  \/ \E t \in Tids :
       \/ Access(t)
       \/ AcquireGlobal(t) \/ UpdateClockCallback(t)
       \/ \E s \in Syncs :
            \/ Acquire(t, s) \/ Release(t, s) \/ ReleaseStore(t, s) \/ AcqRel(t, s)
            \/ Join(t, s) \/ Start(t, s)
  \/ \E s \in Syncs : Reset(s)

Spec == Init /\ [][Next]_vars

-------------------------------------------------------------------------------
TypeOK ==
  /\ epoch \in [Tids -> Epochs]
  /\ thr \in [Tids -> ThreadClocks]
  /\ sync \in [Syncs -> SyncClocks]
  /\ global \in [Tids -> 0 .. NoFinalizer]

(* Every vector there is.                                                   *)
Vectors == {thr[t].clk : t \in Tids} \cup {sync[s].clk : s \in Syncs}

(* No vector shows a time of a thread that the thread has not reached; and  *)
(* only AcquireGlobal can know more of a thread than its own clock does.    *)
NeverAhead == \A v \in Vectors : \A t \in Tids : v[t] <= epoch[t]

(* The reason why one element is enough in the fast paths of release: a     *)
(* vector that shows a time of t after t's last acquire carries everything  *)
(* t knows.  AcquireGlobal, which reads times without what they carry,      *)
(* breaks it.                                                               *)
LateTimesCarryAll ==
  NoFinalizers => \A v \in Vectors : \A t \in Tids :
    v[t] > thr[t].last_acquire => \A i \in Tids \ {t} : v[i] >= thr[t].clk[i]

(* The reason why a flagged thread may look at the dirty elements only: it  *)
(* knows all others already.                                                *)
FlaggedKnowsCleanElements ==
  \A s \in Syncs : \A t \in Tids :
    Flagged(t, thr[t], sync[s]) =>
      \A i \in Tids \ sync[s].dirty_tids : thr[t].clk[i] >= sync[s].clk[i]

(* The part of a vector beyond its size is zero, so nothing is lost by      *)
(* looking at the first nclk_ or size_ elements only.                       *)
NothingBeyondSize ==
  /\ \A t, i \in Tids : i >= thr[t].nclk => thr[t].clk[i] = 0
  /\ \A s \in Syncs, i \in Tids : i >= sync[s].size => sync[s].clk[i] = 0

(* A thread never forgets what it knows of another one, until its tid is    *)
(* taken over.  This is the DCHECK_GE of both set() functions.              *)
ThreadsNeverForget ==
  [][\A t, i \in Tids :
       thr'[t].reused = thr[t].reused => thr'[t].clk[i] >= thr[t].clk[i]]_vars

VC == INSTANCE VectorClock WITH
        tclk <- [t \in Tids |-> thr[t].clk],
        sclk <- [s \in Syncs |-> sync[s].clk]

(* Every behaviour of the clocks is one of the naive vectors, in a process  *)
(* where nobody runs AcquireGlobal.                                         *)
ImplementsVectorClock == VC!Init /\ [][NoFinalizers => VC!Next]_(VC!vars)

(* "Conformance to this model" (tsan_clock.cc, header comment), operation   *)
(* by operation: whatever thread t acquires next, it learns the pointwise   *)
(* maximum, although it may look at two elements only ...                   *)
AcquireConforms ==
  \A t \in Tids, s \in Syncs :
    LET now == SetOwn(t, thr[t], epoch[t])
    IN AcquireThread(t, now, sync[s]).clk = VC!Join(now.clk, sync[s].clk)

(* ... whatever it releases into next, the clock becomes the pointwise      *)
(* maximum, although only one element may be written ...                    *)
ReleaseConforms ==
  NoFinalizers => \A t \in Tids, s \in Syncs : epoch[t] < MaxEpoch =>
    LET now == SetOwn(t, thr[t], epoch[t] + 1)
    IN ReleaseSync(t, now, sync[s]).clk = VC!Join(sync[s].clk, now.clk)

(* ... and a release-store makes the clock a copy of the thread's.          *)
ReleaseStoreConforms ==
  \A t \in Tids, s \in Syncs : epoch[t] < MaxEpoch =>
    LET now == SetOwn(t, thr[t], epoch[t] + 1)
    IN ReleaseStoreSync(t, now, sync[s]).clk = now.clk

(* An operation that does less than it should and changes nothing would be  *)
(* a stutter of the naive vectors.  So these are asked in every state, of   *)
(* every operation that any thread may begin there, taken in full: stale    *)
(* flags, dirty elements, last acquires and release-store marks, also those *)
(* of a thread whose tid was taken over, must mislead none of them.         *)
OperationsConform == AcquireConforms /\ ReleaseConforms /\ ReleaseStoreConforms
===============================================================================
