----------------------------- MODULE TsanShadow -----------------------------
(***************************************************************************)
(* How ThreadSanitizer notices a data race: the shadow cell of one granule *)
(* of eight bytes of application memory.  The cell has ShadowCnt words,    *)
(* each of which describes an earlier access; an access scans the words,   *)
(* reports a race or leaves a word of its own (tsan_rtl.cc,                *)
(* tsan_update_shadow_word_inl.h).  Threads synchronize over objects whose *)
(* clocks are those of VectorClock, which TsanClock implements.            *)
(*                                                                         *)
(* A word is read and written without a lock: a step is one load or one    *)
(* store of a word.  With Serial = TRUE no two accesses to the granule     *)
(* overlap in time.                                                        *)
(***************************************************************************)
EXTENDS Integers, Sequences, FiniteSets

CONSTANTS
  Tids, Syncs,
  ShadowCnt,     (* words in a cell (4 in the code)                          *)
  Ranges,        (* <<addr0, size>>: the parts of the granule that are used  *)
  Serial,        (* accesses do not overlap                                  *)
  FastBits,      (* width of the comparison of epochs in the fast scan (32)  *)
  MaxAccesses, MaxSyncs, MaxFrees   (* bounds of the instance                *)

Whole == <<0, 8>>

ShadowAssumption ==
  /\ ShadowCnt \in Nat \ {0} /\ FastBits \in Nat \ {0} /\ Serial \in BOOLEAN
  /\ Ranges \subseteq (0..7) \X {1, 2, 4, 8}
  /\ {MaxAccesses, MaxSyncs, MaxFrees} \subseteq Nat

VARIABLES
  epoch,    (* epoch[t]: thr->fast_state.epoch()                              *)
  synch,    (* synch[t]: thr->fast_synch_epoch                                *)
  clk,      (* clk[t]: thr->clock                                             *)
  sclk,     (* sclk[s]: the clock of a synchronization object                 *)
  shadow,   (* the words of the cell                                          *)
  op,       (* op[t]: the access, or the malloc() or free(), that t performs  *)
  live,     (* the memory is allocated                                        *)
  reports,  (* <<current, old>>: the pairs of accesses that were reported     *)
  (* What really happened, for the properties only.                           *)
  hist,     (* all accesses, each with the accesses that happen before it     *)
  seen,     (* seen[t]: the accesses that happen before t's next one          *)
  carried,  (* carried[s]: the accesses released to a synchronization object  *)
  excused,  (* accesses the cell need not know of any more                    *)
  syncs, frees

vars == <<epoch, synch, clk, sclk, shadow, op, live, reports,
          hist, seen, carried, excused, syncs, frees>>
clocks == <<epoch, synch, clk, sclk, carried, syncs>>

ZeroWord == [id |-> 0]
Idle == [pc |-> "idle", heap |-> FALSE]

Join(v, w) == [t \in Tids |-> IF v[t] >= w[t] THEN v[t] ELSE w[t]]

Intersect(r, q) == r[1] < q[1] + q[2] /\ q[1] < r[1] + r[2]

(* A word for an access of t at time e; id names the access in hist.          *)
Word(t, e, range, write, atomic, freed) ==
  [tid |-> t, epoch |-> e, range |-> range, write |-> write, atomic |-> atomic,
   freed |-> freed, id |-> Len(hist) + 1]

(* Plain writes are the strongest accesses, atomic reads the weakest.         *)
Weakness(w) == (IF w.write THEN 0 ELSE 1) + (IF w.atomic THEN 2 ELSE 0)

(* The freed bit takes part in comparisons of tids.                           *)
SameTid(w, v) == w.tid = v.tid /\ w.freed = v.freed

(***************************************************************************)
(* ContainsSameAccess: the same thread has made this access, or a stronger *)
(* one, since it last released something.  The fast version compares the   *)
(* low FastBits bits of the epochs as signed numbers.                      *)
(***************************************************************************)
SameAs(w, cur) ==
  /\ w # ZeroWord
  /\ w.range = cur.range /\ SameTid(w, cur)
  /\ w.atomic = cur.atomic
  /\ cur.write => w.write

ContainsSameAccessSlow(cur) ==
  \E i \in DOMAIN shadow : SameAs(shadow[i], cur) /\ shadow[i].epoch > synch[cur.tid]

Signed(e) ==
  LET low == e % 2 ^ FastBits
  IN  IF low < 2 ^ (FastBits - 1) THEN low ELSE low - 2 ^ FastBits

Known(w, cur) == SameAs(w, cur) /\ Signed(w.epoch) > Signed(synch[cur.tid])

ContainsSameAccessFast(cur) == \E i \in DOMAIN shadow : Known(shadow[i], cur)

ContainsSameAccess(cur) == ContainsSameAccessFast(cur)

(* A freed word belongs to no thread that anyone ever synchronized with.      *)
HappensBefore(old, t) == ~old.freed /\ clk[t][old.tid] >= old.epoch

(***************************************************************************)
(* What an access does about one word: leave it, store over it, or report. *)
(***************************************************************************)
BothReadsMutant(old, cur) == ~old.write /\ ~cur.write
Harmless(old, cur) == (~old.write /\ ~cur.write) \/ (old.atomic /\ cur.atomic)

Verdict(old, cur, stored) ==
  LET ordered == SameTid(old, cur) \/ HappensBefore(old, cur.tid)
      weaker == old.range = cur.range /\ Weakness(old) >= Weakness(cur)
  IN  IF old = ZeroWord THEN IF stored THEN "leave" ELSE "store"
      ELSE IF ~Intersect(old.range, cur.range) THEN "leave"
      ELSE IF ordered THEN IF weaker THEN "store" ELSE "leave"
      ELSE IF Harmless(old, cur) THEN "leave" ELSE "race"

-----------------------------------------------------------------------------
Init ==
  /\ epoch = [t \in Tids |-> 0]
  /\ synch = [t \in Tids |-> 0]
  /\ clk = [t \in Tids |-> [u \in Tids |-> 0]]
  /\ sclk = [s \in Syncs |-> [u \in Tids |-> 0]]
  /\ shadow = [i \in 0..ShadowCnt-1 |-> ZeroWord]
  /\ op = [t \in Tids |-> Idle]
  /\ live = TRUE
  /\ reports = {}
  /\ hist = <<>>
  /\ seen = [t \in Tids |-> {}]
  /\ carried = [s \in Syncs |-> {}]
  /\ excused = {}
  /\ syncs = 0 /\ frees = 0

MayStart(t) == op[t] = Idle /\ (Serial => \A u \in Tids : op[u] = Idle)

(* Access number Len(hist) + 1 happens.                                       *)
Record(w, alive) ==
  /\ hist' = Append(hist, [word |-> w, knew |-> seen[w.tid], alive |-> alive])
  /\ seen' = [seen EXCEPT ![w.tid] = @ \union {w.id}]

(* A scan ends at its first race and may have left its word by then, which    *)
(* was never compared with the words behind.                                  *)
HalfScanned(w) == \E r \in reports : r[1] = w.id

(* An access that the cell knows already: MemoryAccess returns early.         *)
Same(t) ==
  /\ MayStart(t) /\ Len(hist) < MaxAccesses
  /\ \E range \in Ranges, write, atomic \in BOOLEAN :
       LET cur == Word(t, epoch[t], range, write, atomic, FALSE)
       IN  /\ ContainsSameAccess(cur) /\ Record(cur, live)
           /\ excused' = IF \E i \in DOMAIN shadow :
                              Known(shadow[i], cur) /\ ~HalfScanned(shadow[i])
                         THEN excused ELSE excused \union {cur.id}
  /\ UNCHANGED <<clocks, shadow, op, live, reports, frees>>

MemoryAccess(t) ==
  /\ MayStart(t) /\ Len(hist) < MaxAccesses
  /\ \E range \in Ranges, write, atomic \in BOOLEAN :
       LET cur == Word(t, epoch[t] + 1, range, write, atomic, FALSE)
       IN  /\ ~ContainsSameAccess([cur EXCEPT !.epoch = epoch[t]])
           /\ Record(cur, live)
           /\ op' = [op EXCEPT ![t] = [pc |-> "load", cur |-> cur, idx |-> 0,
                                       stored |-> FALSE, heap |-> FALSE]]
  /\ epoch' = [epoch EXCEPT ![t] = @ + 1]
  /\ UNCHANGED <<synch, clk, sclk, carried, syncs, shadow, live, reports, excused, frees>>

(* MemoryRangeFreed: a write of the whole range, then MemoryRangeSet.         *)
MemoryRangeFreed(t) ==
  /\ MayStart(t) /\ live /\ frees < MaxFrees /\ Len(hist) < MaxAccesses
  /\ LET cur == Word(t, epoch[t] + 1, Whole, TRUE, FALSE, FALSE)
     IN  /\ Record(cur, TRUE)
         /\ op' = [op EXCEPT ![t] =
                     [pc |-> IF ContainsSameAccess(cur) THEN "mark" ELSE "load",
                      cur |-> cur, idx |-> 0, stored |-> FALSE, heap |-> TRUE]]
  /\ epoch' = [epoch EXCEPT ![t] = @ + 1]
  /\ live' = FALSE /\ frees' = frees + 1
  /\ UNCHANGED <<synch, clk, sclk, carried, syncs, shadow, reports, excused>>

Mark(t) ==
  /\ op[t].pc = "mark"
  /\ op' = [op EXCEPT ![t].pc = "set", ![t].idx = 0,
                      ![t].cur = [@ EXCEPT !.epoch = epoch[t] + 1, !.freed = TRUE]]
  /\ epoch' = [epoch EXCEPT ![t] = @ + 1]
  /\ UNCHANGED <<synch, clk, sclk, carried, syncs, shadow, live, reports, hist, seen,
                 excused, frees>>

(* OnUserAlloc: the memory is handed out again.                               *)
MemoryRangeImitateWrite(t) ==
  /\ MayStart(t) /\ ~live
  /\ \A u \in Tids : ~op[u].heap
  /\ LET cur == Word(t, epoch[t] + 1, Whole, TRUE, FALSE, FALSE)
     IN  /\ Record(cur, TRUE)
         /\ op' = [op EXCEPT ![t] = [pc |-> "set", cur |-> cur, idx |-> 0,
                                     stored |-> TRUE, heap |-> TRUE]]
  /\ epoch' = [epoch EXCEPT ![t] = @ + 1]
  /\ UNCHANGED <<synch, clk, sclk, carried, syncs, shadow, live, reports, excused, frees>>

(* MemoryRangeSet stores the word, then zeros.                                *)
Set(t) ==
  /\ op[t].pc = "set"
  /\ LET i == op[t].idx
         last == i + 1 = ShadowCnt
     IN  /\ shadow' = [shadow EXCEPT ![i] = IF i = 0 THEN op[t].cur ELSE ZeroWord]
         /\ op' = [op EXCEPT ![t] = IF last THEN Idle ELSE [@ EXCEPT !.idx = i + 1]]
         /\ live' = (last /\ ~op[t].cur.freed)
  /\ excused' = excused \union (1..op[t].cur.id - 1)
  /\ UNCHANGED <<clocks, reports, hist, seen, frees>>

-----------------------------------------------------------------------------
(* After the last word: finished, or the word of this access replaces another *)
(* one.  A free goes on with the range.                                       *)
End(o) == IF o.heap THEN [o EXCEPT !.pc = "mark"] ELSE Idle

AfterWord(o) ==
  IF o.idx + 1 < ShadowCnt THEN [o EXCEPT !.pc = "load", !.idx = o.idx + 1]
  ELSE IF o.stored THEN End(o) ELSE [o EXCEPT !.pc = "evict"]

Load(t) ==
  /\ op[t].pc = "load"
  /\ LET o == op[t]
         old == shadow[o.idx]
         v == Verdict(old, o.cur, o.stored)
     IN  /\ op' = [op EXCEPT ![t] = CASE v = "leave" -> AfterWord(o)
                                      [] v = "store" -> [o EXCEPT !.pc = "store"]
                                      [] v = "race" -> End(o)]
         /\ IF v = "race"
            THEN /\ reports' = reports \union {<<o.cur.id, old.id>>}
                 /\ excused' = 1..Len(hist)
            ELSE UNCHANGED <<reports, excused>>
  /\ UNCHANGED <<clocks, shadow, live, hist, seen, frees>>

(* StoreIfNotYetStored stores zero when the access has its word already.      *)
Store(t) ==
  /\ op[t].pc = "store"
  /\ LET o == op[t]
     IN  /\ shadow' = [shadow EXCEPT ![o.idx] = IF o.stored THEN ZeroWord ELSE o.cur]
         /\ op' = [op EXCEPT ![t] = AfterWord([o EXCEPT !.stored = TRUE])]
  /\ UNCHANGED <<clocks, live, reports, hist, seen, excused, frees>>

Evict(t) ==
  /\ op[t].pc = "evict"
  /\ shadow' = [shadow EXCEPT ![op[t].cur.epoch % ShadowCnt] = op[t].cur]
  /\ op' = [op EXCEPT ![t] = End(@)]
  /\ excused' = excused \union (1..op[t].cur.id - 1)
  /\ UNCHANGED <<clocks, live, reports, hist, seen, frees>>

-----------------------------------------------------------------------------
(* Synchronization between accesses of the thread.                            *)
Acquire(t, s) ==
  /\ MayStart(t) /\ syncs < MaxSyncs
  /\ clk' = [clk EXCEPT ![t] = Join([@ EXCEPT ![t] = epoch[t]], sclk[s])]
  /\ seen' = [seen EXCEPT ![t] = @ \union carried[s]]
  /\ syncs' = syncs + 1
  /\ UNCHANGED <<epoch, synch, sclk, carried, shadow, op, live, reports, hist, excused, frees>>

ReleaseKeepsSynchMutant(t, s) ==
  /\ MayStart(t) /\ syncs < MaxSyncs
  /\ LET e == epoch[t] + 1
         now == [clk[t] EXCEPT ![t] = e]
     IN  /\ epoch' = [epoch EXCEPT ![t] = e]
         /\ clk' = [clk EXCEPT ![t] = now]
         /\ sclk' = [sclk EXCEPT ![s] = Join(@, now)]
  /\ carried' = [carried EXCEPT ![s] = @ \union seen[t]]
  /\ syncs' = syncs + 1
  /\ UNCHANGED <<synch, shadow, op, live, reports, hist, seen, excused, frees>>

Release(t, s) ==
  /\ MayStart(t) /\ syncs < MaxSyncs
  /\ LET e == epoch[t] + 1
         now == [clk[t] EXCEPT ![t] = e]
     IN  /\ epoch' = [epoch EXCEPT ![t] = e]
         /\ synch' = [synch EXCEPT ![t] = e]
         /\ clk' = [clk EXCEPT ![t] = now]
         /\ sclk' = [sclk EXCEPT ![s] = Join(@, now)]
  /\ carried' = [carried EXCEPT ![s] = @ \union seen[t]]
  /\ syncs' = syncs + 1
  /\ UNCHANGED <<shadow, op, live, reports, hist, seen, excused, frees>>

Next ==
  \E t \in Tids :
    \/ Same(t) \/ MemoryAccess(t) \/ MemoryRangeFreed(t) \/ MemoryRangeImitateWrite(t)
    \/ Load(t) \/ Store(t) \/ Evict(t) \/ Mark(t) \/ Set(t)
    \/ \E s \in Syncs : Acquire(t, s) \/ Release(t, s)

Spec == Init /\ [][Next]_vars

-----------------------------------------------------------------------------
Conflict(i, j) ==
  LET w == hist[i].word
      v == hist[j].word
  IN  /\ w.tid # v.tid /\ Intersect(w.range, v.range)
      /\ w.write \/ v.write
      /\ ~(w.atomic /\ v.atomic)

Unordered(i, j) == i \notin hist[j].knew /\ j \notin hist[i].knew

InProgress(i) == \E t \in Tids : op[t] # Idle /\ op[t].cur.id = i

(* No false alarms: two accesses that are reported conflict and neither      *)
(* happens before the other, or the memory was freed by one of them.  This is *)
(* so however the loads and stores of the words interleave                    *)
(* (MemoryAccessImpl1).                                                       *)
EveryReportIsARace ==
  \A r \in reports :
    \/ Conflict(r[1], r[2]) /\ Unordered(r[1], r[2])
    \/ ~hist[r[1]].alive

(* As long as nothing was pushed out of the cell and nothing reported, all    *)
(* accesses the cell stands for are free of races: whatever word is           *)
(* overwritten, erased or not stored at all because the same access is there, *)
(* another word makes up for it.  Atomic accesses are the exception: a plain  *)
(* read may replace them.                                                     *)
EveryRaceIsReported ==
  Serial => \A i, j \in 1..Len(hist) \ excused :
    (i < j /\ Conflict(i, j) /\ ~hist[i].word.atomic /\ ~InProgress(j)) => ~Unordered(i, j)

(* Every access to freed memory is reported, by the thread that freed it too  *)
(* (MarkAsFreed).                                                             *)
FreedIsReported ==
  Serial => \A j \in 1..Len(hist) :
    (~hist[j].alive /\ ~InProgress(j)) => \E r \in reports : r[1] = j

(* The scan with vector instructions finds what the simple one finds.         *)
FastAgreesWithSlow ==
  \A t \in Tids : \A range \in Ranges, write, atomic \in BOOLEAN :
    LET cur == Word(t, epoch[t], range, write, atomic, FALSE)
    IN  ContainsSameAccessFast(cur) <=> ContainsSameAccessSlow(cur)
=============================================================================
