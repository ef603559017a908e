-------------------------------- MODULE MCTsan --------------------------------
(***************************************************************************)
(* One run for what tsan does at the program's accesses and locks: the     *)
(* shadow cell with accesses one after the other ("serial", "again") and   *)
(* with loads and stores of the words interleaved ("overlap"), the hooks of *)
(* mutexes ("mutex"), and the map of sync objects, in one cell of memory   *)
(* ("map") and in three that are unmapped and moved ("moves").  They share *)
(* nothing here.  A behaviour chooses one of them at the start (part) and  *)
(* the others stay as they were initialised.                               *)
(***************************************************************************)
EXTENDS Naturals, FiniteSets, TLC

CONSTANTS Tids, Syncs, NoTid

(* The threads of a cell and of a mutex are interchangeable.                *)
Symmetry == Permutations(Tids)

VARIABLES
  part,
  epoch, synch, clk, sclk, shadow, op, live, reports,          (* TsanShadow *)
  hist, seen, carried, excused, syncs, frees,
  kind, writer, depth, readers, released, readReleased, abandoned, know,  (* TsanMutex *)
  mPc, mEpoch, mClk, owner, recursion, broken, clock, readClock, misuses,
  meta, addr, next, cache, freelist, fillpos, pc, at, idx0, myidx, lost  (* TsanMetaMap *)

shVars == <<epoch, synch, clk, sclk, shadow, op, live, reports,
            hist, seen, carried, excused, syncs, frees>>
muVars == <<kind, writer, depth, readers, released, readReleased, abandoned, know,
            mPc, mEpoch, mClk, owner, recursion, broken, clock, readClock, misuses>>
mmVars == <<meta, addr, next, cache, freelist, fillpos, pc, at, idx0, myidx, lost>>

(* The whole granule, or its lower half.  Few accesses with synchronization *)
(* and a free, or more without, or such that overlap.                       *)
Sizes == [
  serial  |-> [cnt |-> 2, ranges |-> {<<0, 8>>, <<0, 4>>}, serial |-> TRUE, bits |-> 8,
               accesses |-> 3, syncs |-> 2, frees |-> 1],
  again   |-> [cnt |-> 2, ranges |-> {<<0, 4>>}, serial |-> TRUE, bits |-> 8,
               accesses |-> 5, syncs |-> 0, frees |-> 0],
  overlap |-> [cnt |-> 2, ranges |-> {<<0, 8>>}, serial |-> FALSE, bits |-> 8,
               accesses |-> 3, syncs |-> 1, frees |-> 0]]

Shadow(size) == INSTANCE TsanShadow WITH
  ShadowCnt <- size.cnt, Ranges <- size.ranges, Serial <- size.serial, FastBits <- size.bits,
  MaxAccesses <- size.accesses, MaxSyncs <- size.syncs, MaxFrees <- size.frees

Mutex == INSTANCE TsanMutex WITH
  MaxTicks <- 5, pc <- mPc, epoch <- mEpoch, clk <- mClk

OneCell == INSTANCE TsanMetaMap WITH
  Threads <- {"t1", "t2"}, NumCells <- 1, Offsets <- {0, 4},
  SlabSize <- 2, NumSlabs <- 2, CacheSize <- 2, SmallPages <- 1

(* One thread: these operations run with all others stopped, or on memory   *)
(* that nobody else uses.                                                   *)
Moves == INSTANCE TsanMetaMap WITH
  Threads <- {"t1"}, NumCells <- 3, Offsets <- {0, 4},
  SlabSize <- 3, NumSlabs <- 1, CacheSize <- 2, SmallPages <- 1

ASSUME PartsAssumption ==
  Mutex!MutexAssumption /\ \A p \in DOMAIN Sizes : Shadow(Sizes[p])!ShadowAssumption

mcvars == <<part, shVars, muVars, mmVars>>

MCInit ==
  /\ part \in {"serial", "again", "overlap", "mutex", "map", "moves"}
  /\ Shadow(Sizes.serial)!Init /\ Mutex!Init
  /\ part # "mutex" => kind = "mutex"
  /\ IF part = "moves" THEN Moves!Init ELSE OneCell!Init

MCNext ==
  \/ \E p \in DOMAIN Sizes : part = p /\ Shadow(Sizes[p])!Next /\ UNCHANGED <<part, muVars, mmVars>>
  \/ part = "mutex"   /\ Mutex!Next       /\ UNCHANGED <<part, shVars, mmVars>>
  \/ part = "map"     /\ OneCell!Next     /\ UNCHANGED <<part, shVars, muVars>>
  \/ part = "moves"   /\ Moves!Next       /\ UNCHANGED <<part, shVars, muVars>>

MCSpec == MCInit /\ [][MCNext]_mcvars

(* No false alarms: two accesses that are reported conflict and neither     *)
(* happens before the other, or the memory was freed, also when the loads   *)
(* and stores of the shadow words of several threads interleave.            *)
EveryReportIsARace ==
  \A p \in DOMAIN Sizes : part = p => Shadow(Sizes[p])!EveryReportIsARace

(* Accesses that do not overlap and that the cell still stands for are free *)
(* of races unless one was reported, and every access to freed memory is    *)
(* reported.                                                                *)
EveryRaceIsReported ==
  \A p \in DOMAIN Sizes : part = p => /\ Shadow(Sizes[p])!EveryRaceIsReported
                                      /\ Shadow(Sizes[p])!FreedIsReported

(* A thread that is not about to run a hook knows of the others exactly     *)
(* what POSIX orders before it, and a correct program is never told that it *)
(* misuses a mutex, whatever hooks of other threads run between a real call *)
(* and its hook.                                                            *)
OrderIsExact == Mutex!OrderIsExact /\ Mutex!NoFalseMisuse /\ Mutex!OwnerIsHolder

(* An address has one sync object, in the chain of its cell; what a thread  *)
(* has locked is what the map has; a number is in one place and none is     *)
(* handed out twice or forgotten.                                           *)
OneSyncPerAddress ==
  IF part = "moves" THEN Moves!OneSyncPerAddress /\ Moves!IndexInOnePlace
  ELSE OneCell!OneSyncPerAddress /\ OneCell!LockedIsCurrent /\ OneCell!IndexInOnePlace
===============================================================================
