--------------------------- MODULE TsanClockProofs ---------------------------
(***************************************************************************)
(* TsanClock conforms to the naive vector clocks for every number of       *)
(* threads, sync variables, epochs and dirty slots, as long as no thread   *)
(* runs AcquireGlobal.                                                     *)
(*                                                                         *)
(* The inductive invariant relates pairs: a thread clock with another      *)
(* vector (ThreadVector), and a thread clock with a sync clock             *)
(* (ThreadSync).  Every operation is a composition of five steps on one    *)
(* thread clock and one sync clock (set the own time, acquire, release,    *)
(* release-store, reset); each step has a lemma, about records only.       *)
(***************************************************************************)
EXTENDS TsanClock, TLAPS

ThreadOK(t, th) ==
  /\ th \in ThreadClocks
  /\ th.nclk > t
  /\ th.reused >= 1
  /\ th.last_acquire <= th.clk[t]
  /\ \A i \in Tids : i >= th.nclk => th.clk[i] = 0

SyncOK(sy) ==
  /\ sy \in SyncClocks
  /\ \A i \in Tids : i >= sy.size => sy.clk[i] = 0 /\ sy.reused[i] = 0

(* A vector that shows a time of t after t's last acquire carries all t     *)
(* knows of the others; and it never shows a time t has not reached.        *)
ThreadVector(t, th, v) ==
  /\ v[t] <= th.clk[t]
  /\ v[t] > th.last_acquire => \A i \in Tids \ {t} : v[i] >= th.clk[i]

FlagOK(t, th, sy) ==
  Flagged(t, th, sy) =>
    \A i \in Tids : /\ i \notin sy.dirty_tids => th.clk[i] >= sy.clk[i]
                    /\ sy.clk[i] > 0 => i < th.nclk

MarkOK(t, th, sy) ==
  StoredByMe(t, th, sy) /\ AcquiredNothingSince(t, th, sy) =>
    \A i \in Tids \ {t} : sy.clk[i] = th.clk[i]

ReuseOK(t, th, sy) ==
  /\ sy.reused[t] <= th.reused
  /\ sy.release_store_tid = t => sy.release_store_reused <= th.reused

ThreadSync(t, th, sy) ==
  /\ ThreadVector(t, th, sy.clk)
  /\ FlagOK(t, th, sy)
  /\ MarkOK(t, th, sy)
  /\ ReuseOK(t, th, sy)

LEMMA TidsInt == Tids \subseteq Int /\ Epochs \subseteq Int /\ Reuses \subseteq Int /\ kInvalidTid \notin Tids
BY NAssumption, BoundsAssumption DEF Tids, Epochs, Reuses, kInvalidTid

LEMMA ThreadInts ==
  ASSUME NEW th \in ThreadClocks
  PROVE  /\ th.nclk \in Int /\ th.last_acquire \in Int /\ th.reused \in Int
         /\ \A i \in Tids : th.clk[i] \in Int /\ th.clk[i] >= 0 /\ i \in Int
         /\ th.last_acquire >= 0
<1>1. th.nclk \in Int
  BY NAssumption DEF ThreadClocks
<1>2. th.last_acquire \in Int /\ th.reused \in Int
  BY TidsInt DEF ThreadClocks
<1>3. \A i \in Tids : th.clk[i] \in Epochs
  BY DEF ThreadClocks
<1>4. th.last_acquire \in Epochs
  BY DEF ThreadClocks
<1> QED  BY <1>1, <1>2, <1>3, <1>4, TidsInt DEF Epochs

LEMMA SyncInts ==
  ASSUME NEW sy \in SyncClocks
  PROVE  /\ sy.size \in Int /\ sy.release_store_reused \in Int
         /\ \A i \in Tids : /\ sy.clk[i] \in Int /\ sy.clk[i] >= 0
                           /\ sy.reused[i] \in Int /\ i \in Int
<1>1. sy.size \in Int
  BY NAssumption DEF SyncClocks
<1>2. sy.release_store_reused \in Int /\ \A i \in Tids : sy.reused[i] \in Int
  BY TidsInt DEF SyncClocks
<1>3. \A i \in Tids : sy.clk[i] \in Epochs
  BY DEF SyncClocks
<1> QED  BY <1>1, <1>2, <1>3, TidsInt DEF Epochs

-------------------------------------------------------------------------------
(* The fields of what the operators build.                                  *)
LEMMA SetOwnFields ==
  ASSUME NEW t \in Tids, NEW th \in ThreadClocks, NEW e \in Epochs
  PROVE  LET r == SetOwn(t, th, e) IN
         /\ r \in ThreadClocks
         /\ r.clk = [th.clk EXCEPT ![t] = e]
         /\ r.nclk = th.nclk
         /\ r.last_acquire = th.last_acquire
         /\ r.reused = th.reused
BY DEF SetOwn, ThreadClocks

LEMMA ResizedFields ==
  ASSUME NEW sy \in SyncClocks, NEW n \in 1 .. N
  PROVE  LET r == Resized(sy, n) IN
         /\ r \in SyncClocks
         /\ r.clk = sy.clk
         /\ r.reused = sy.reused
         /\ r.dirty_tids = sy.dirty_tids
         /\ r.release_store_tid = sy.release_store_tid
         /\ r.release_store_reused = sy.release_store_reused
         /\ r.size >= n
         /\ r.size >= sy.size
BY NAssumption DEF Resized, SyncClocks, Larger

LEMMA UpdateFields ==
  ASSUME NEW t \in Tids, NEW th \in ThreadClocks, NEW sy \in SyncClocks
  PROVE  LET r == UpdateCurrentThread(t, th, sy) IN
         /\ r \in SyncClocks
         /\ r.clk = [sy.clk EXCEPT ![t] = th.clk[t]]
         /\ \/ r.reused = sy.reused /\ r.dirty_tids = sy.dirty_tids \cup {t}
            \/ r.reused = [i \in Tids |-> 0] /\ r.dirty_tids = {}
         /\ r.release_store_tid = sy.release_store_tid
         /\ r.release_store_reused = sy.release_store_reused
         /\ r.size = sy.size
<1> DEFINE fits == t \in sy.dirty_tids \/ Cardinality(sy.dirty_tids) < kDirtyTids
           c == [sy.clk EXCEPT ![t] = th.clk[t]]
           f == IF fits THEN sy.reused ELSE [i \in Tids |-> 0]
           d == IF fits THEN sy.dirty_tids \cup {t} ELSE {}
<1>1. c \in [Tids -> Epochs]
  BY DEF ThreadClocks, SyncClocks
<1>2. f \in [Tids -> Reuses]
  BY BoundsAssumption DEF Reuses, SyncClocks
<1>3. d \in SUBSET Tids
  BY DEF SyncClocks
<1>4. UpdateCurrentThread(t, th, sy) = [sy EXCEPT !.clk = c, !.reused = f, !.dirty_tids = d]
  BY DEF UpdateCurrentThread, SyncClocks
<1>5. \/ f = sy.reused /\ d = sy.dirty_tids \cup {t}
      \/ f = [i \in Tids |-> 0] /\ d = {}
  OBVIOUS
<1> HIDE DEF fits, f, d
<1> QED  BY <1>1, <1>2, <1>3, <1>4, <1>5 DEF SyncClocks

LEMMA AcquireFields ==
  ASSUME NEW t \in Tids, NEW th \in ThreadClocks, NEW sy \in SyncClocks
  PROVE  LET r == AcquireThread(t, th, sy) IN
         /\ r \in ThreadClocks
         /\ r.clk = Learned(t, th, sy)
         /\ r.nclk = IF Flagged(t, th, sy) THEN th.nclk ELSE Larger(th.nclk, sy.size)
         /\ r.last_acquire = IF News(t, th, sy) # {} THEN Learned(t, th, sy)[t]
                             ELSE th.last_acquire
         /\ r.reused = th.reused
<1>1. Learned(t, th, sy) \in [Tids -> Epochs]
  BY DEF Learned, ThreadClocks, SyncClocks
<1>2. Larger(th.nclk, sy.size) \in 1 .. N
  BY NAssumption DEF Larger, ThreadClocks, SyncClocks
<1> QED  BY <1>1, <1>2 DEF AcquireThread, ThreadClocks

LEMMA AcquireSyncFields ==
  ASSUME NEW t \in Tids, NEW th \in ThreadClocks, NEW sy \in SyncClocks
  PROVE  LET r == AcquireSync(t, th, sy) IN
         /\ r \in SyncClocks
         /\ r.clk = sy.clk
         /\ r.reused = IF sy.size > t THEN [sy.reused EXCEPT ![t] = th.reused] ELSE sy.reused
         /\ r.dirty_tids = sy.dirty_tids
         /\ r.release_store_tid = sy.release_store_tid
         /\ r.release_store_reused = sy.release_store_reused
         /\ r.size = sy.size
BY DEF AcquireSync, ThreadClocks, SyncClocks

-------------------------------------------------------------------------------
(* acquire: the thread ends up with the pointwise maximum.                  *)
LEMMA AcquireIsJoin ==
  ASSUME NEW t \in Tids, NEW th, NEW sy,
         ThreadOK(t, th), SyncOK(sy), FlagOK(t, th, sy)
  PROVE  Learned(t, th, sy) = VC!Join(th.clk, sy.clk)
<1>1. \A i \in Tids : th.clk[i] \in Int /\ sy.clk[i] \in Int
  BY TidsInt DEF ThreadOK, SyncOK, ThreadClocks, SyncClocks
<1>2. CASE Flagged(t, th, sy)
  <2>1. \A i \in Tids : i \notin sy.dirty_tids => th.clk[i] >= sy.clk[i]
    BY <1>2 DEF FlagOK
  <2>2. News(t, th, sy) = {i \in sy.dirty_tids : th.clk[i] < sy.clk[i]}
    BY <1>2 DEF News, Scanned
  <2> QED  BY <1>1, <2>1, <2>2 DEF Learned, VC!Join
<1>3. CASE ~Flagged(t, th, sy)
  <2>1. News(t, th, sy) = {i \in 0 .. sy.size - 1 : th.clk[i] < sy.clk[i]}
    BY <1>3 DEF News, Scanned
  <2>2. \A i \in Tids : i \notin 0 .. sy.size - 1 => sy.clk[i] = 0 /\ th.clk[i] >= 0
    BY BoundsAssumption, NAssumption DEF ThreadOK, SyncOK, ThreadClocks, SyncClocks, Epochs, Tids
  <2> QED  BY <1>1, <2>1, <2>2 DEF Learned, VC!Join
<1> QED  BY <1>2, <1>3

LEMMA AcquireThreadOK ==
  ASSUME NEW t \in Tids, NEW th, NEW sy,
         ThreadOK(t, th), SyncOK(sy), ThreadSync(t, th, sy)
  PROVE  LET r == AcquireThread(t, th, sy) IN
         /\ ThreadOK(t, r)
         /\ r.clk = VC!Join(th.clk, sy.clk)
         /\ r.reused = th.reused
         /\ r.clk[t] = th.clk[t]
         /\ \/ r.last_acquire = r.clk[t]
            \/ r.last_acquire = th.last_acquire /\ r.clk = th.clk
<1> DEFINE r == AcquireThread(t, th, sy)
           J == VC!Join(th.clk, sy.clk)
<1>1. /\ th \in ThreadClocks /\ sy \in SyncClocks
      /\ FlagOK(t, th, sy) /\ sy.clk[t] <= th.clk[t]
  BY DEF ThreadOK, SyncOK, ThreadSync, ThreadVector
<1>2. /\ r \in ThreadClocks /\ r.clk = J /\ r.reused = th.reused
      /\ r.nclk = IF Flagged(t, th, sy) THEN th.nclk ELSE Larger(th.nclk, sy.size)
      /\ r.last_acquire = IF News(t, th, sy) # {} THEN J[t] ELSE th.last_acquire
  BY <1>1, AcquireFields, AcquireIsJoin
<1>3. \A i \in Tids : th.clk[i] \in Int /\ sy.clk[i] \in Int
  BY <1>1, TidsInt DEF ThreadClocks, SyncClocks
<1>4. J[t] = th.clk[t]
  BY <1>1, <1>3 DEF VC!Join
<1>5. \A i \in Tids : J[i] = IF th.clk[i] >= sy.clk[i] THEN th.clk[i] ELSE sy.clk[i]
  BY DEF VC!Join
<1>6. News(t, th, sy) = {} => J = th.clk
  <2>1. SUFFICES ASSUME News(t, th, sy) = {} PROVE Learned(t, th, sy) = th.clk
    BY <1>1, AcquireIsJoin
  <2> QED  BY <1>1, <2>1 DEF Learned, ThreadClocks
<1>7. th.nclk \in Int /\ sy.size \in Int /\ t \in Int
  BY <1>1, TidsInt, NAssumption DEF ThreadClocks, SyncClocks
<1>8. r.nclk > t /\ r.nclk >= th.nclk
  BY <1>2, <1>7 DEF ThreadOK, Larger
<1>9. ASSUME NEW i \in Tids, i >= r.nclk PROVE r.clk[i] = 0
  <2>0. i \in Int /\ r.nclk \in Int
    BY <1>2, TidsInt DEF ThreadClocks
  <2>1. th.clk[i] = 0
    BY <1>7, <1>8, <1>9, <2>0 DEF ThreadOK
  <2>2. sy.clk[i] >= 0
    BY <1>1 DEF SyncClocks, Epochs
  <2>3. sy.clk[i] = 0
    <3>1. CASE Flagged(t, th, sy)
      BY <1>1, <1>2, <1>3, <1>7, <1>9, <2>0, <2>2, <3>1 DEF FlagOK
    <3>2. CASE ~Flagged(t, th, sy)
      <4>1. i >= sy.size
        BY <1>2, <1>7, <1>9, <2>0, <3>2 DEF Larger
      <4> QED  BY <4>1 DEF SyncOK
    <3> QED  BY <3>1, <3>2
  <2> QED  BY <1>2, <1>5, <2>1, <2>3
<1>10. r.last_acquire <= r.clk[t]
  BY <1>2, <1>3, <1>4 DEF ThreadOK
<1> HIDE DEF r, J
<1>11. ThreadOK(t, r)
  BY <1>2, <1>8, <1>9, <1>10 DEF ThreadOK
<1> QED  BY <1>2, <1>4, <1>6, <1>11 DEF r, J

LEMMA AcquireSyncOK ==
  ASSUME NEW t \in Tids, NEW th, NEW sy,
         ThreadOK(t, th), SyncOK(sy), ThreadSync(t, th, sy)
  PROVE  /\ SyncOK(AcquireSync(t, th, sy))
         /\ AcquireSync(t, th, sy).clk = sy.clk
         /\ ThreadSync(t, AcquireThread(t, th, sy), AcquireSync(t, th, sy))
<1> DEFINE r == AcquireThread(t, th, sy)
           q == AcquireSync(t, th, sy)
           J == VC!Join(th.clk, sy.clk)
<1>1. /\ th \in ThreadClocks /\ sy \in SyncClocks
  BY DEF ThreadOK, SyncOK
<1>2. /\ ThreadOK(t, r) /\ r.clk = J /\ r.reused = th.reused /\ r.clk[t] = th.clk[t]
      /\ r.last_acquire = r.clk[t] \/ (r.last_acquire = th.last_acquire /\ r.clk = th.clk)
  BY AcquireThreadOK
<1>3. /\ q \in SyncClocks
      /\ q.clk = sy.clk
      /\ q.reused = IF sy.size > t THEN [sy.reused EXCEPT ![t] = th.reused] ELSE sy.reused
      /\ q.dirty_tids = sy.dirty_tids
      /\ q.release_store_tid = sy.release_store_tid
      /\ q.release_store_reused = sy.release_store_reused
      /\ q.size = sy.size
  BY <1>1, AcquireSyncFields
<1>4. \A i \in Tids : r.clk[i] \in Int /\ th.clk[i] \in Int /\ sy.clk[i] \in Int
  BY <1>1, <1>2, TidsInt DEF ThreadClocks, SyncClocks, ThreadOK
<1>5. \A i \in Tids : r.clk[i] >= th.clk[i] /\ r.clk[i] >= sy.clk[i]
  BY <1>2, <1>4 DEF VC!Join
<1>6. \A i \in Tids : th.reused \in Int /\ sy.reused[i] \in Int /\ i \in Int
  BY <1>1, TidsInt DEF ThreadClocks, SyncClocks
<1>7. sy.size \in Int /\ th.nclk \in Int /\ r.nclk \in Int
  BY <1>1, <1>2, NAssumption DEF ThreadClocks, SyncClocks, ThreadOK
<1>8. r.last_acquire \in Int /\ th.last_acquire \in Int
  BY <1>1, <1>2, TidsInt DEF ThreadClocks, ThreadOK
<1>9. r.nclk = IF Flagged(t, th, sy) THEN th.nclk ELSE Larger(th.nclk, sy.size)
  BY <1>1, AcquireFields
<1>a. SyncOK(q)
  BY <1>1, <1>3, <1>6, <1>7 DEF SyncOK, SyncClocks
<1>b. ThreadVector(t, r, q.clk)
  BY <1>2, <1>3, <1>4, <1>5, <1>8 DEF ThreadSync, ThreadVector
<1>c. FlagOK(t, r, q)
  <2>1. ASSUME NEW i \in Tids, sy.clk[i] > 0 PROVE i < r.nclk
    <3>1. CASE Flagged(t, th, sy)
      BY <1>9, <2>1, <3>1 DEF ThreadSync, FlagOK
    <3>2. CASE ~Flagged(t, th, sy)
      <4>1. i < sy.size
        BY <1>4, <1>6, <1>7, <2>1 DEF SyncOK
      <4> QED  BY <1>6, <1>7, <1>9, <3>2, <4>1 DEF Larger
    <3> QED  BY <3>1, <3>2
  <2> QED  BY <1>3, <1>5, <2>1 DEF FlagOK
<1>d. MarkOK(t, r, q)
  BY <1>2, <1>3, <1>4, <1>5, <1>8 DEF ThreadSync, ThreadVector, MarkOK, StoredByMe, AcquiredNothingSince
<1>e. ReuseOK(t, r, q)
  BY <1>1, <1>2, <1>3, <1>6 DEF ThreadSync, ReuseOK, SyncClocks
<1> QED  BY <1>3, <1>a, <1>b, <1>c, <1>d, <1>e DEF ThreadSync

LEMMA SetOwnOK ==
  ASSUME NEW t \in Tids, NEW th, ThreadOK(t, th), NEW e \in Epochs, e >= th.clk[t]
  PROVE  LET r == SetOwn(t, th, e) IN
         /\ ThreadOK(t, r)
         /\ r.clk[t] = e
         /\ r.reused = th.reused
         /\ \A sy : SyncOK(sy) /\ ThreadSync(t, th, sy) => ThreadSync(t, r, sy)
         /\ \A v \in [Tids -> Epochs] : ThreadVector(t, th, v) => ThreadVector(t, r, v)
<1> DEFINE r == SetOwn(t, th, e)
<1>1. th \in ThreadClocks
  BY DEF ThreadOK
<1>2. /\ r \in ThreadClocks /\ r.clk = [th.clk EXCEPT ![t] = e] /\ r.nclk = th.nclk
      /\ r.last_acquire = th.last_acquire /\ r.reused = th.reused
  BY <1>1, SetOwnFields
<1> HIDE DEF r
<1>3. \A i \in Tids : r.clk[i] = IF i = t THEN e ELSE th.clk[i]
  BY <1>1, <1>2 DEF ThreadClocks
<1>4. /\ e \in Int /\ th.last_acquire \in Int /\ t \in Int /\ th.nclk \in Int
      /\ \A i \in Tids : th.clk[i] \in Int /\ i \in Int
  <2>1. th.nclk \in Int
    BY <1>1, NAssumption DEF ThreadClocks
  <2>2. \A i \in Tids : th.clk[i] \in Int
    BY <1>1, TidsInt DEF ThreadClocks
  <2>3. th.last_acquire \in Int
    BY <1>1, TidsInt DEF ThreadClocks
  <2> QED  BY <2>1, <2>2, <2>3, TidsInt
<1>5. ThreadOK(t, r)
  BY <1>2, <1>3, <1>4 DEF ThreadOK
<1>6. ASSUME NEW v \in [Tids -> Epochs], ThreadVector(t, th, v)
      PROVE  ThreadVector(t, r, v)
  <2>1. v[t] \in Int
    BY TidsInt
  <2> QED  BY <1>2, <1>3, <1>4, <1>6, <2>1 DEF ThreadVector
<1>7. ASSUME NEW sy, SyncOK(sy), ThreadSync(t, th, sy)
      PROVE  ThreadSync(t, r, sy)
  <2>1. sy.clk \in [Tids -> Epochs] /\ \A i \in Tids : sy.clk[i] \in Int
    BY <1>7, TidsInt DEF SyncOK, SyncClocks
  <2>2. ThreadVector(t, r, sy.clk)
    BY <1>6, <1>7, <2>1 DEF ThreadSync
  <2>3. FlagOK(t, r, sy)
    <3>1. sy.clk[t] <= th.clk[t]
      BY <1>7 DEF ThreadSync, ThreadVector
    <3> QED  BY <1>2, <1>3, <1>4, <1>7, <2>1, <3>1 DEF ThreadSync, FlagOK, Flagged
  <2>4. MarkOK(t, r, sy)
    BY <1>2, <1>3, <1>7 DEF ThreadSync, MarkOK, StoredByMe, AcquiredNothingSince
  <2>5. ReuseOK(t, r, sy)
    BY <1>2, <1>7 DEF ThreadSync, ReuseOK
  <2> QED  BY <2>2, <2>3, <2>4, <2>5 DEF ThreadSync
<1> QED  BY <1>2, <1>3, <1>5, <1>6, <1>7 DEF r

(* What another thread's setting of its own time means to u.                *)
LEMMA OthersSetOwn ==
  ASSUME NEW t \in Tids, NEW th, ThreadOK(t, th), NEW e \in Epochs, e >= th.clk[t],
         NEW u \in Tids \ {t}, NEW uh, ThreadOK(u, uh), ThreadVector(u, uh, th.clk)
  PROVE  ThreadVector(u, uh, SetOwn(t, th, e).clk)
<1>1. th \in ThreadClocks /\ uh \in ThreadClocks
  BY DEF ThreadOK
<1>2. SetOwn(t, th, e).clk = [th.clk EXCEPT ![t] = e]
  BY <1>1, SetOwnFields
<1>3. \A i \in Tids : [th.clk EXCEPT ![t] = e][i] = IF i = t THEN e ELSE th.clk[i]
  BY <1>1 DEF ThreadClocks
<1>4. e \in Int /\ \A i \in Tids : th.clk[i] \in Int /\ uh.clk[i] \in Int
  BY <1>1, TidsInt DEF ThreadClocks
<1> QED  BY <1>2, <1>3, <1>4 DEF ThreadVector

(* What an acquire changes for the acquiring thread elsewhere.              *)
LEMMA AcquireElsewhere ==
  ASSUME NEW t \in Tids, NEW th, NEW sy,
         ThreadOK(t, th), SyncOK(sy), ThreadSync(t, th, sy)
  PROVE  LET r == AcquireThread(t, th, sy) IN
         /\ \A v \in [Tids -> Epochs] : ThreadVector(t, th, v) => ThreadVector(t, r, v)
         /\ \A w : SyncOK(w) /\ ThreadSync(t, th, w) => ThreadSync(t, r, w)
<1> DEFINE r == AcquireThread(t, th, sy)
<1>1. th \in ThreadClocks /\ sy \in SyncClocks
  BY DEF ThreadOK, SyncOK
<1>2. /\ r.clk = VC!Join(th.clk, sy.clk) /\ r.reused = th.reused /\ r.clk[t] = th.clk[t]
      /\ r.last_acquire = r.clk[t] \/ (r.last_acquire = th.last_acquire /\ r.clk = th.clk)
  BY AcquireThreadOK
<1>3. r.nclk = IF Flagged(t, th, sy) THEN th.nclk ELSE Larger(th.nclk, sy.size)
  BY <1>1, AcquireFields
<1> HIDE DEF r
<1>4. /\ th.nclk \in Int /\ sy.size \in Int /\ th.last_acquire \in Int
      /\ \A i \in Tids : th.clk[i] \in Int /\ sy.clk[i] \in Int /\ i \in Int
  <2>1. th.nclk \in Int /\ sy.size \in Int
    BY <1>1, NAssumption DEF ThreadClocks, SyncClocks
  <2>2. \A i \in Tids : th.clk[i] \in Int /\ sy.clk[i] \in Int
    BY <1>1, TidsInt DEF ThreadClocks, SyncClocks
  <2>3. th.last_acquire \in Int
    BY <1>1, TidsInt DEF ThreadClocks
  <2> QED  BY <2>1, <2>2, <2>3, TidsInt
<1>5. r.nclk \in Int /\ r.nclk >= th.nclk
  BY <1>3, <1>4 DEF Larger
<1>6. \A i \in Tids : r.clk[i] \in Int /\ r.clk[i] >= th.clk[i]
  BY <1>2, <1>4 DEF VC!Join
<1>7. ASSUME NEW v \in [Tids -> Epochs], ThreadVector(t, th, v)
      PROVE  ThreadVector(t, r, v)
  <2>1. v[t] \in Int
    BY TidsInt
  <2> QED  BY <1>2, <1>4, <1>7, <2>1 DEF ThreadVector
<1>8. ASSUME NEW w, SyncOK(w), ThreadSync(t, th, w)
      PROVE  ThreadSync(t, r, w)
  <2>1. w.clk \in [Tids -> Epochs] /\ \A i \in Tids : w.clk[i] \in Int
    BY <1>8, TidsInt DEF SyncOK, SyncClocks
  <2>2. ThreadVector(t, r, w.clk)
    BY <1>7, <1>8, <2>1 DEF ThreadSync
  <2>3. FlagOK(t, r, w)
    BY <1>2, <1>4, <1>5, <1>6, <1>8, <2>1 DEF ThreadSync, FlagOK, Flagged
  <2>4. MarkOK(t, r, w)
    BY <1>2, <1>4, <1>8, <2>1 DEF ThreadSync, ThreadVector, MarkOK, StoredByMe, AcquiredNothingSince
  <2>5. ReuseOK(t, r, w)
    BY <1>2, <1>8 DEF ThreadSync, ReuseOK
  <2> QED  BY <2>2, <2>3, <2>4, <2>5 DEF ThreadSync
<1> QED  BY <1>7, <1>8 DEF r

(* What a join of two vectors means to any thread.                          *)
LEMMA VectorJoin ==
  ASSUME NEW u \in Tids, NEW uh, ThreadOK(u, uh),
         NEW v \in [Tids -> Epochs], NEW w \in [Tids -> Epochs],
         ThreadVector(u, uh, v), ThreadVector(u, uh, w)
  PROVE  ThreadVector(u, uh, VC!Join(v, w))
<1>1. /\ uh.last_acquire \in Int
      /\ \A i \in Tids : uh.clk[i] \in Int /\ v[i] \in Int /\ w[i] \in Int
  BY TidsInt DEF ThreadOK, ThreadClocks
<1>2. \A i \in Tids : VC!Join(v, w)[i] = IF v[i] >= w[i] THEN v[i] ELSE w[i]
  BY DEF VC!Join
<1> QED  BY <1>1, <1>2 DEF ThreadVector

LEMMA OthersAcquireSync ==
  ASSUME NEW t \in Tids, NEW th, NEW sy, ThreadOK(t, th), SyncOK(sy),
         NEW u \in Tids \ {t}, NEW uh, ThreadSync(u, uh, sy)
  PROVE  ThreadSync(u, uh, AcquireSync(t, th, sy))
<1> DEFINE q == AcquireSync(t, th, sy)
<1>1. th \in ThreadClocks /\ sy \in SyncClocks
  BY DEF ThreadOK, SyncOK
<1>2. /\ q.clk = sy.clk
      /\ q.reused = IF sy.size > t THEN [sy.reused EXCEPT ![t] = th.reused] ELSE sy.reused
      /\ q.dirty_tids = sy.dirty_tids
      /\ q.release_store_tid = sy.release_store_tid
      /\ q.release_store_reused = sy.release_store_reused
      /\ q.size = sy.size
  BY <1>1, AcquireSyncFields
<1> HIDE DEF q
<1>3. q.reused[u] = sy.reused[u]
  BY <1>1, <1>2 DEF SyncClocks
<1>4. ThreadSync(u, uh, q)
  BY <1>2, <1>3 DEF ThreadSync, FlagOK, Flagged, MarkOK, StoredByMe, AcquiredNothingSince, ReuseOK
<1> QED  BY <1>4 DEF q

-------------------------------------------------------------------------------
(* release-store.                                                           *)
LEMMA ReleaseStoreFields ==
  ASSUME NEW t \in Tids, NEW th, NEW sy,
         ThreadOK(t, th), SyncOK(sy), ThreadSync(t, th, sy)
  PROVE  LET r == ReleaseStoreSync(t, th, sy) IN
         /\ r \in SyncClocks
         /\ r.clk = th.clk
         /\ r.size >= th.nclk /\ r.size >= sy.size
         /\ r.release_store_tid = t /\ r.release_store_reused = th.reused
         /\ \/ /\ StoredByMe(t, th, sy) /\ AcquiredNothingSince(t, th, sy)
               /\ \/ r.reused = sy.reused /\ r.dirty_tids = sy.dirty_tids \cup {t}
                  \/ r.reused = [i \in Tids |-> 0] /\ r.dirty_tids = {}
            \/ /\ r.reused = [i \in Tids |-> IF i = t THEN th.reused ELSE 0]
               /\ r.dirty_tids = {}
<1> DEFINE z == Resized(sy, th.nclk)
           r == ReleaseStoreSync(t, th, sy)
<1>1. th \in ThreadClocks /\ sy \in SyncClocks
  BY DEF ThreadOK, SyncOK
<1>2. th.nclk \in 1 .. N
  BY <1>1 DEF ThreadClocks
<1>3. /\ z \in SyncClocks /\ z.clk = sy.clk /\ z.reused = sy.reused
      /\ z.dirty_tids = sy.dirty_tids
      /\ z.release_store_tid = sy.release_store_tid
      /\ z.release_store_reused = sy.release_store_reused
      /\ z.size >= th.nclk /\ z.size >= sy.size
  BY <1>1, <1>2, ResizedFields
<1> HIDE DEF z
<1>4. StoredByMe(t, th, z) = StoredByMe(t, th, sy)
      /\ AcquiredNothingSince(t, th, z) = AcquiredNothingSince(t, th, sy)
  BY <1>3 DEF StoredByMe, AcquiredNothingSince
<1>5. CASE StoredByMe(t, th, sy) /\ AcquiredNothingSince(t, th, sy)
  <2>1. r = UpdateCurrentThread(t, th, z)
    BY <1>4, <1>5 DEF ReleaseStoreSync, z
  <2>2. /\ r \in SyncClocks
        /\ r.clk = [sy.clk EXCEPT ![t] = th.clk[t]]
        /\ \/ r.reused = sy.reused /\ r.dirty_tids = sy.dirty_tids \cup {t}
           \/ r.reused = [i \in Tids |-> 0] /\ r.dirty_tids = {}
        /\ r.release_store_tid = sy.release_store_tid
        /\ r.release_store_reused = sy.release_store_reused
        /\ r.size = z.size
    BY <1>1, <1>3, <2>1, UpdateFields
  <2>3. \A i \in Tids \ {t} : sy.clk[i] = th.clk[i]
    BY <1>5 DEF ThreadSync, MarkOK
  <2>4. [sy.clk EXCEPT ![t] = th.clk[t]] = th.clk
    BY <1>1, <2>3 DEF ThreadClocks, SyncClocks
  <2> QED  BY <1>3, <1>5, <2>2, <2>4 DEF StoredByMe
<1>6. CASE ~(StoredByMe(t, th, sy) /\ AcquiredNothingSince(t, th, sy))
  <2> DEFINE c == [i \in Tids |-> IF i < th.nclk THEN th.clk[i] ELSE 0]
             f == [i \in Tids |-> IF i = t THEN th.reused ELSE 0]
  <2>1. r = [z EXCEPT !.clk = c, !.reused = f, !.dirty_tids = {},
                      !.release_store_tid = t, !.release_store_reused = th.reused]
    BY <1>4, <1>6, Zenon DEF ReleaseStoreSync, z
  <2>2. c = th.clk
    <3>1. \A i \in Tids : i \in Int /\ th.nclk \in Int
      BY <1>2, TidsInt
    <3>2. \A i \in Tids : c[i] = th.clk[i]
      BY <3>1 DEF ThreadOK
    <3>3. th.clk \in [Tids -> Epochs]
      BY <1>1 DEF ThreadClocks
    <3> QED  BY <3>2, <3>3
  <2>3. f \in [Tids -> Reuses] /\ th.reused \in Reuses
    BY <1>1, BoundsAssumption DEF ThreadClocks, Reuses
  <2>4. th.clk \in [Tids -> Epochs]
    BY <1>1 DEF ThreadClocks
  <2> HIDE DEF c, f, r
  <2>5. /\ r \in SyncClocks /\ r.clk = c /\ r.reused = f /\ r.dirty_tids = {}
        /\ r.release_store_tid = t /\ r.release_store_reused = th.reused
        /\ r.size = z.size
    BY <1>3, <2>1, <2>2, <2>3, <2>4 DEF SyncClocks
  <2> QED  BY <1>3, <2>2, <2>5 DEF r, f
<1> QED  BY <1>5, <1>6

(* ... into the vector that the thread has, for the thread itself ...       *)
LEMMA ReleaseStoreOK ==
  ASSUME NEW t \in Tids, NEW th, NEW sy,
         ThreadOK(t, th), SyncOK(sy), ThreadSync(t, th, sy)
  PROVE  LET r == ReleaseStoreSync(t, th, sy) IN
         /\ SyncOK(r)
         /\ ThreadSync(t, th, r)
         /\ r.clk = th.clk
<1> DEFINE r == ReleaseStoreSync(t, th, sy)
<1>1. th \in ThreadClocks /\ sy \in SyncClocks
  BY DEF ThreadOK, SyncOK
<1>2. /\ r \in SyncClocks
      /\ r.clk = th.clk
      /\ r.size >= th.nclk /\ r.size >= sy.size
      /\ r.release_store_tid = t /\ r.release_store_reused = th.reused
      /\ \/ /\ StoredByMe(t, th, sy) /\ AcquiredNothingSince(t, th, sy)
            /\ \/ r.reused = sy.reused /\ r.dirty_tids = sy.dirty_tids \cup {t}
               \/ r.reused = [i \in Tids |-> 0] /\ r.dirty_tids = {}
         \/ /\ r.reused = [i \in Tids |-> IF i = t THEN th.reused ELSE 0]
            /\ r.dirty_tids = {}
  BY ReleaseStoreFields
<1>3. \A i \in Tids : i \in Int /\ th.clk[i] \in Int
  BY <1>1, TidsInt DEF ThreadClocks
<1>4. th.nclk \in Int /\ sy.size \in Int /\ r.size \in Int /\ th.reused \in Int
  BY <1>1, <1>2, ThreadInts, SyncInts
<1> HIDE DEF r
<1>6. SyncOK(r)
  <2>1. ASSUME NEW i \in Tids, i >= r.size PROVE r.clk[i] = 0
    BY <1>2, <1>3, <1>4, <2>1 DEF ThreadOK
  <2>2. ASSUME NEW i \in Tids, i >= r.size PROVE r.reused[i] = 0
    BY <1>2, <1>3, <1>4, <2>2 DEF ThreadOK, SyncOK
  <2> QED  BY <1>2, <2>1, <2>2 DEF SyncOK
<1>7. ThreadVector(t, th, r.clk)
  BY <1>2, <1>3 DEF ThreadVector
<1>8. FlagOK(t, th, r)
  <2>1. ASSUME NEW i \in Tids, th.clk[i] > 0 PROVE i < th.nclk
    BY <1>3, <1>4, <2>1 DEF ThreadOK
  <2> QED  BY <1>2, <1>3, <2>1 DEF FlagOK
<1>9. MarkOK(t, th, r)
  BY <1>2 DEF MarkOK
<1>10. ReuseOK(t, th, r)
  <2>1. r.reused[t] <= th.reused
    <3>1. sy.reused[t] <= th.reused /\ 0 <= th.reused
      BY <1>1, BoundsAssumption DEF ThreadSync, ReuseOK, ThreadClocks, Reuses
    <3> QED  BY <1>2, <1>4, <3>1
  <2> QED  BY <1>2, <1>4, <2>1 DEF ReuseOK
<1> QED  BY <1>2, <1>6, <1>7, <1>8, <1>9, <1>10 DEF ThreadSync, r

(* ... and for every other thread.                                          *)
LEMMA OthersReleaseStore ==
  ASSUME NEW t \in Tids, NEW th, NEW sy,
         ThreadOK(t, th), SyncOK(sy), ThreadSync(t, th, sy),
         NEW u \in Tids \ {t}, NEW uh, ThreadOK(u, uh),
         ThreadSync(u, uh, sy), ThreadVector(u, uh, th.clk)
  PROVE  ThreadSync(u, uh, ReleaseStoreSync(t, th, sy))
<1> DEFINE r == ReleaseStoreSync(t, th, sy)
<1>1. th \in ThreadClocks /\ sy \in SyncClocks /\ uh \in ThreadClocks
  BY DEF ThreadOK, SyncOK
<1>2. /\ r \in SyncClocks
      /\ r.clk = th.clk
      /\ r.size >= th.nclk /\ r.size >= sy.size
      /\ r.release_store_tid = t /\ r.release_store_reused = th.reused
      /\ \/ /\ StoredByMe(t, th, sy) /\ AcquiredNothingSince(t, th, sy)
            /\ \/ r.reused = sy.reused /\ r.dirty_tids = sy.dirty_tids \cup {t}
               \/ r.reused = [i \in Tids |-> 0] /\ r.dirty_tids = {}
         \/ /\ r.reused = [i \in Tids |-> IF i = t THEN th.reused ELSE 0]
            /\ r.dirty_tids = {}
  BY ReleaseStoreFields
<1> HIDE DEF r
<1>3. /\ uh.reused \in Int /\ uh.reused >= 1 /\ sy.size \in Int /\ r.size \in Int
      /\ th.last_acquire \in Int /\ th.last_acquire >= 0
      /\ \A i \in Tids : /\ th.clk[i] \in Int /\ uh.clk[i] \in Int /\ sy.clk[i] \in Int
                         /\ i \in Int /\ sy.reused[i] \in Int
  BY <1>1, <1>2, ThreadInts, SyncInts DEF ThreadOK
<1>4. FlagOK(u, uh, r)
  <2> SUFFICES ASSUME Flagged(u, uh, r), NEW i \in Tids
               PROVE  /\ i \notin r.dirty_tids => uh.clk[i] >= r.clk[i]
                      /\ r.clk[i] > 0 => i < uh.nclk
    BY DEF FlagOK
  <2>1. r.reused[u] = uh.reused
    BY DEF Flagged
  <2>2. /\ StoredByMe(t, th, sy) /\ AcquiredNothingSince(t, th, sy)
        /\ r.reused = sy.reused /\ r.dirty_tids = sy.dirty_tids \cup {t}
    BY <1>2, <1>3, <2>1
  <2>3. Flagged(u, uh, sy)
    BY <1>3, <2>1, <2>2 DEF Flagged, SyncOK
  <2>4. \A j \in Tids : /\ j \notin sy.dirty_tids => uh.clk[j] >= sy.clk[j]
                        /\ sy.clk[j] > 0 => j < uh.nclk
    BY <2>3 DEF ThreadSync, FlagOK
  <2>5. sy.clk[t] > 0
    BY <1>3, <2>2 DEF AcquiredNothingSince
  <2>6. i # t => r.clk[i] = sy.clk[i]
    BY <1>2, <2>2 DEF ThreadSync, MarkOK
  <2> QED  BY <2>2, <2>4, <2>5, <2>6
<1>5. MarkOK(u, uh, r)
  BY <1>2 DEF MarkOK, StoredByMe
<1>6. ReuseOK(u, uh, r)
  BY <1>2, <1>3 DEF ThreadSync, ReuseOK
<1> QED  BY <1>2, <1>4, <1>5, <1>6 DEF ThreadSync, r

-------------------------------------------------------------------------------
(* release into a clock that is not empty.                                  *)
LEMMA ReleaseIntoFields ==
  ASSUME NEW t \in Tids, NEW th, NEW sy,
         ThreadOK(t, th), SyncOK(sy), ThreadSync(t, th, sy)
  PROVE  LET r == ReleaseIntoSync(t, th, sy) IN
         /\ r \in SyncClocks
         /\ r.clk = VC!Join(sy.clk, th.clk)
         /\ r.size >= th.nclk /\ r.size >= sy.size
         /\ \/ r.release_store_tid = kInvalidTid
            \/ /\ r.release_store_tid = t /\ r.release_store_reused = th.reused
               /\ StoredByMe(t, th, sy) /\ AcquiredNothingSince(t, th, sy)
         /\ \/ /\ AcquiredNothingSince(t, th, sy)
               /\ r.clk = [sy.clk EXCEPT ![t] = th.clk[t]]
               /\ \/ r.reused = sy.reused /\ r.dirty_tids = sy.dirty_tids \cup {t}
                  \/ r.reused = [i \in Tids |-> 0] /\ r.dirty_tids = {}
            \/ /\ r.reused = [i \in Tids |-> IF i = t /\ IsAlreadyAcquired(t, th, sy)
                                             THEN th.reused ELSE 0]
               /\ r.dirty_tids = {}
<1> DEFINE z == Resized(sy, th.nclk)
           r == ReleaseIntoSync(t, th, sy)
           one == UpdateCurrentThread(t, th, z)
           J == VC!Join(sy.clk, th.clk)
<1>1. th \in ThreadClocks /\ sy \in SyncClocks
  BY DEF ThreadOK, SyncOK
<1>2. th.nclk \in 1 .. N
  BY <1>1 DEF ThreadClocks
<1>3. /\ z \in SyncClocks /\ z.clk = sy.clk /\ z.reused = sy.reused
      /\ z.dirty_tids = sy.dirty_tids
      /\ z.release_store_tid = sy.release_store_tid
      /\ z.release_store_reused = sy.release_store_reused
      /\ z.size >= th.nclk /\ z.size >= sy.size
  BY <1>1, <1>2, ResizedFields
<1> HIDE DEF z
<1>4. /\ StoredByMe(t, th, z) = StoredByMe(t, th, sy)
      /\ AcquiredNothingSince(t, th, z) = AcquiredNothingSince(t, th, sy)
      /\ IsAlreadyAcquired(t, th, z) = IsAlreadyAcquired(t, th, sy)
  BY <1>3 DEF StoredByMe, AcquiredNothingSince, IsAlreadyAcquired
<1>5. \A i \in Tids : J[i] = IF sy.clk[i] >= th.clk[i] THEN sy.clk[i] ELSE th.clk[i]
  BY DEF VC!Join
<1>6. /\ th.last_acquire \in Int
      /\ \A i \in Tids : sy.clk[i] \in Int /\ th.clk[i] \in Int /\ i \in Int
  BY <1>1, ThreadInts, SyncInts
<1>7. J \in [Tids -> Epochs]
  BY <1>1 DEF VC!Join, ThreadClocks, SyncClocks
<1>8. CASE AcquiredNothingSince(t, th, sy)
  <2>1. /\ one \in SyncClocks
        /\ one.clk = [sy.clk EXCEPT ![t] = th.clk[t]]
        /\ \/ one.reused = sy.reused /\ one.dirty_tids = sy.dirty_tids \cup {t}
           \/ one.reused = [i \in Tids |-> 0] /\ one.dirty_tids = {}
        /\ one.release_store_tid = sy.release_store_tid
        /\ one.release_store_reused = sy.release_store_reused
        /\ one.size = z.size
    BY <1>1, <1>3, UpdateFields
  <2> HIDE DEF one
  <2>2. one.clk = J
    <3>1. sy.clk[t] <= th.clk[t] /\ \A i \in Tids \ {t} : sy.clk[i] >= th.clk[i]
      BY <1>8 DEF ThreadSync, ThreadVector, AcquiredNothingSince
    <3>2. \A i \in Tids : J[i] = IF i = t THEN th.clk[t] ELSE sy.clk[i]
      BY <1>5, <1>6, <3>1
    <3>3. \A i \in Tids : one.clk[i] = J[i]
      BY <1>1, <2>1, <3>2 DEF SyncClocks
    <3> QED  BY <1>7, <2>1, <3>3 DEF SyncClocks
  <2>3. CASE StoredByMe(t, th, sy)
    <3>1. r = one
      BY <1>4, <1>8, <2>3 DEF ReleaseIntoSync, one, z
    <3> QED  BY <1>3, <1>8, <2>1, <2>2, <2>3, <3>1 DEF StoredByMe
  <2>4. CASE ~StoredByMe(t, th, sy)
    <3>1. r = [one EXCEPT !.release_store_tid = kInvalidTid]
      BY <1>4, <1>8, <2>4 DEF ReleaseIntoSync, one, z
    <3>2. /\ r \in SyncClocks /\ r.clk = one.clk /\ r.reused = one.reused
          /\ r.dirty_tids = one.dirty_tids /\ r.release_store_tid = kInvalidTid
          /\ r.size = one.size
      BY <2>1, <3>1 DEF SyncClocks
    <3> QED  BY <1>3, <1>8, <2>1, <2>2, <3>2
  <2> QED  BY <2>3, <2>4
<1>9. CASE ~AcquiredNothingSince(t, th, sy)
  <2> DEFINE c == [i \in Tids |-> IF i < th.nclk THEN Larger(z.clk[i], th.clk[i])
                                  ELSE z.clk[i]]
             f == [i \in Tids |-> IF i = t /\ IsAlreadyAcquired(t, th, z)
                                  THEN th.reused ELSE 0]
  <2>1. r = [z EXCEPT !.clk = c, !.reused = f, !.dirty_tids = {},
                      !.release_store_tid = kInvalidTid, !.release_store_reused = 0]
    BY <1>4, <1>9, Zenon DEF ReleaseIntoSync, z
  <2>2. c = J
    <3>1. \A i \in Tids : c[i] = J[i]
      <4> SUFFICES ASSUME NEW i \in Tids PROVE c[i] = J[i]
        OBVIOUS
      <4>1. CASE i < th.nclk
        BY <1>3, <1>5, <4>1 DEF Larger
      <4>2. CASE ~(i < th.nclk)
        <5>1. th.clk[i] = 0 /\ sy.clk[i] >= 0
          BY <1>1, <1>2, <1>6, <4>2, SyncInts DEF ThreadOK
        <5> QED  BY <1>3, <1>5, <1>6, <4>2, <5>1
      <4> QED  BY <4>1, <4>2
    <3>2. J = [i \in Tids |-> J[i]]
      BY DEF VC!Join
    <3> QED  BY <3>1, <3>2
  <2>3. f \in [Tids -> Reuses] /\ 0 \in Reuses
    BY <1>1, BoundsAssumption DEF ThreadClocks, Reuses
  <2>4. f = [i \in Tids |-> IF i = t /\ IsAlreadyAcquired(t, th, sy) THEN th.reused ELSE 0]
    BY <1>4
  <2> HIDE DEF c, f, r, J
  <2>5. /\ r \in SyncClocks /\ r.clk = c /\ r.reused = f /\ r.dirty_tids = {}
        /\ r.release_store_tid = kInvalidTid /\ r.size = z.size
    BY <1>3, <1>7, <2>1, <2>2, <2>3 DEF SyncClocks
  <2> QED  BY <1>3, <2>2, <2>4, <2>5 DEF r, J
<1> QED  BY <1>8, <1>9

LEMMA ReleaseIntoOK ==
  ASSUME NEW t \in Tids, NEW th, NEW sy,
         ThreadOK(t, th), SyncOK(sy), ThreadSync(t, th, sy)
  PROVE  LET r == ReleaseIntoSync(t, th, sy) IN
         /\ SyncOK(r)
         /\ ThreadSync(t, th, r)
         /\ r.clk = VC!Join(sy.clk, th.clk)
<1> DEFINE r == ReleaseIntoSync(t, th, sy)
<1>1. th \in ThreadClocks /\ sy \in SyncClocks
  BY DEF ThreadOK, SyncOK
<1>0. /\ r \in SyncClocks
      /\ r.clk = VC!Join(sy.clk, th.clk)
      /\ r.size >= th.nclk /\ r.size >= sy.size
      /\ \/ r.release_store_tid = kInvalidTid
         \/ /\ r.release_store_tid = t /\ r.release_store_reused = th.reused
            /\ StoredByMe(t, th, sy) /\ AcquiredNothingSince(t, th, sy)
      /\ \/ /\ AcquiredNothingSince(t, th, sy)
            /\ r.clk = [sy.clk EXCEPT ![t] = th.clk[t]]
            /\ \/ r.reused = sy.reused /\ r.dirty_tids = sy.dirty_tids \cup {t}
               \/ r.reused = [i \in Tids |-> 0] /\ r.dirty_tids = {}
         \/ /\ r.reused = [i \in Tids |-> IF i = t /\ IsAlreadyAcquired(t, th, sy)
                                          THEN th.reused ELSE 0]
            /\ r.dirty_tids = {}
  BY ReleaseIntoFields
<1> HIDE DEF r
<1>2. /\ r \in SyncClocks
      /\ r.clk = VC!Join(sy.clk, th.clk)
      /\ r.size >= th.nclk /\ r.size >= sy.size
      /\ \/ r.release_store_tid = kInvalidTid
         \/ /\ r.release_store_tid = t /\ r.release_store_reused = th.reused
            /\ StoredByMe(t, th, sy) /\ AcquiredNothingSince(t, th, sy)
  BY <1>0
<1>3. \/ /\ AcquiredNothingSince(t, th, sy)
         /\ r.clk = [sy.clk EXCEPT ![t] = th.clk[t]]
         /\ \/ r.reused = sy.reused /\ r.dirty_tids = sy.dirty_tids \cup {t}
            \/ r.reused = [i \in Tids |-> 0] /\ r.dirty_tids = {}
      \/ /\ r.reused = [i \in Tids |-> IF i = t /\ IsAlreadyAcquired(t, th, sy)
                                       THEN th.reused ELSE 0]
         /\ r.dirty_tids = {}
  BY <1>0
<1>4. /\ th.nclk \in Int /\ sy.size \in Int /\ r.size \in Int /\ th.reused \in Int
      /\ th.last_acquire \in Int /\ th.last_acquire >= 0 /\ th.reused >= 1
      /\ \A i \in Tids : /\ th.clk[i] \in Int /\ sy.clk[i] \in Int /\ i \in Int
                         /\ th.clk[i] >= 0 /\ sy.clk[i] >= 0 /\ sy.reused[i] \in Int
  BY <1>1, <1>2, ThreadInts, SyncInts DEF ThreadOK
<1>5. \A i \in Tids : r.clk[i] = IF sy.clk[i] >= th.clk[i] THEN sy.clk[i] ELSE th.clk[i]
  BY <1>2 DEF VC!Join
<1>6. \A i \in Tids : i >= th.nclk => th.clk[i] = 0
  BY DEF ThreadOK
<1>7. \A i \in Tids : i >= sy.size => sy.clk[i] = 0 /\ sy.reused[i] = 0
  BY DEF SyncOK
<1>8. th.nclk > t
  BY DEF ThreadOK
<1>9. SyncOK(r)
  <2>1. ASSUME NEW i \in Tids, i >= r.size PROVE r.clk[i] = 0
    <3>1. i >= th.nclk /\ i >= sy.size
      BY <1>2, <1>4, <2>1
    <3> QED  BY <1>4, <1>5, <1>6, <1>7, <3>1
  <2>2. ASSUME NEW i \in Tids, i >= r.size PROVE r.reused[i] = 0
    <3>1. i >= th.nclk /\ i >= sy.size /\ i # t
      BY <1>2, <1>4, <1>8, <2>2
    <3> QED  BY <1>3, <1>7, <3>1
  <2> QED  BY <1>2, <2>1, <2>2 DEF SyncOK
<1>10. sy.clk[t] <= th.clk[t]
  BY DEF ThreadSync, ThreadVector
<1>11. ThreadVector(t, th, r.clk)
  BY <1>4, <1>5, <1>10 DEF ThreadVector
<1>12. FlagOK(t, th, r)
  <2> SUFFICES ASSUME r.reused[t] = th.reused, NEW i \in Tids
               PROVE  /\ i \notin r.dirty_tids => th.clk[i] >= r.clk[i]
                      /\ r.clk[i] > 0 => i < th.nclk
    BY DEF FlagOK, Flagged
  <2>1. CASE /\ AcquiredNothingSince(t, th, sy)
             /\ r.clk = [sy.clk EXCEPT ![t] = th.clk[t]]
             /\ r.reused = sy.reused /\ r.dirty_tids = sy.dirty_tids \cup {t}
    <3>1. Flagged(t, th, sy)
      BY <1>4, <1>7, <2>1 DEF Flagged
    <3>2. /\ i \notin sy.dirty_tids => th.clk[i] >= sy.clk[i]
          /\ sy.clk[i] > 0 => i < th.nclk
      BY <3>1 DEF ThreadSync, FlagOK
    <3>3. i # t => r.clk[i] = sy.clk[i]
      BY <1>1, <2>1 DEF SyncClocks
    <3> QED  BY <1>8, <2>1, <3>2, <3>3
  <2>2. CASE r.reused = [j \in Tids |-> 0]
    BY <1>4, <2>2
  <2>3. CASE /\ r.reused = [j \in Tids |-> IF j = t /\ IsAlreadyAcquired(t, th, sy)
                                           THEN th.reused ELSE 0]
             /\ r.dirty_tids = {}
    <3>1. IsAlreadyAcquired(t, th, sy)
      BY <1>4, <2>3
    <3>2. Flagged(t, th, sy)
      BY <1>4, <1>7, <3>1 DEF Flagged, IsAlreadyAcquired
    <3>3. th.clk[i] >= sy.clk[i]
      BY <3>1, <3>2 DEF ThreadSync, FlagOK, IsAlreadyAcquired
    <3>4. r.clk[i] = th.clk[i]
      BY <1>4, <1>5, <3>3
    <3> QED  BY <1>4, <1>6, <3>4
  <2> QED  BY <1>3, <2>1, <2>2, <2>3
<1>13. MarkOK(t, th, r)
  <2> SUFFICES ASSUME StoredByMe(t, th, r), NEW i \in Tids \ {t}
               PROVE  r.clk[i] = th.clk[i]
    BY DEF MarkOK
  <2>1. StoredByMe(t, th, sy) /\ AcquiredNothingSince(t, th, sy)
    BY <1>2, TidsInt DEF StoredByMe
  <2>2. sy.clk[i] = th.clk[i]
    BY <2>1 DEF ThreadSync, MarkOK
  <2> QED  BY <1>4, <1>5, <2>2
<1>14. ReuseOK(t, th, r)
  <2>1. sy.reused[t] <= th.reused
    BY DEF ThreadSync, ReuseOK
  <2>2. r.reused[t] <= th.reused
    BY <1>3, <1>4, <2>1
  <2>3. r.release_store_tid = t => r.release_store_reused <= th.reused
    BY <1>2, <1>4, TidsInt
  <2> QED  BY <2>2, <2>3 DEF ReuseOK
<1> QED  BY <1>2, <1>9, <1>11, <1>12, <1>13, <1>14 DEF ThreadSync, r

LEMMA OthersReleaseInto ==
  ASSUME NEW t \in Tids, NEW th, NEW sy,
         ThreadOK(t, th), SyncOK(sy), ThreadSync(t, th, sy),
         NEW u \in Tids \ {t}, NEW uh, ThreadOK(u, uh),
         ThreadSync(u, uh, sy), ThreadVector(u, uh, th.clk)
  PROVE  ThreadSync(u, uh, ReleaseIntoSync(t, th, sy))
<1> DEFINE r == ReleaseIntoSync(t, th, sy)
<1>1. th \in ThreadClocks /\ sy \in SyncClocks /\ uh \in ThreadClocks
  BY DEF ThreadOK, SyncOK
<1>0. /\ r \in SyncClocks
      /\ r.clk = VC!Join(sy.clk, th.clk)
      /\ r.size >= th.nclk /\ r.size >= sy.size
      /\ \/ r.release_store_tid = kInvalidTid
         \/ /\ r.release_store_tid = t /\ r.release_store_reused = th.reused
            /\ StoredByMe(t, th, sy) /\ AcquiredNothingSince(t, th, sy)
      /\ \/ /\ AcquiredNothingSince(t, th, sy)
            /\ r.clk = [sy.clk EXCEPT ![t] = th.clk[t]]
            /\ \/ r.reused = sy.reused /\ r.dirty_tids = sy.dirty_tids \cup {t}
               \/ r.reused = [i \in Tids |-> 0] /\ r.dirty_tids = {}
         \/ /\ r.reused = [i \in Tids |-> IF i = t /\ IsAlreadyAcquired(t, th, sy)
                                          THEN th.reused ELSE 0]
            /\ r.dirty_tids = {}
  BY ReleaseIntoFields
<1> HIDE DEF r
<1>2. /\ r \in SyncClocks
      /\ r.clk = VC!Join(sy.clk, th.clk)
      /\ \/ r.release_store_tid = kInvalidTid
         \/ r.release_store_tid = t
  BY <1>0
<1>3. \/ /\ AcquiredNothingSince(t, th, sy)
         /\ r.clk = [sy.clk EXCEPT ![t] = th.clk[t]]
         /\ r.reused = sy.reused /\ r.dirty_tids = sy.dirty_tids \cup {t}
      \/ r.reused = [i \in Tids |-> 0]
      \/ r.reused = [i \in Tids |-> IF i = t /\ IsAlreadyAcquired(t, th, sy)
                                    THEN th.reused ELSE 0]
  BY <1>0
<1>4. /\ sy.size \in Int /\ uh.reused \in Int /\ uh.reused >= 1
      /\ th.last_acquire \in Int /\ th.last_acquire >= 0
      /\ \A i \in Tids : /\ th.clk[i] \in Int /\ sy.clk[i] \in Int /\ i \in Int
                         /\ sy.reused[i] \in Int
  BY <1>1, ThreadInts, SyncInts DEF ThreadOK
<1>5. r.reused[u] = 0 \/ /\ AcquiredNothingSince(t, th, sy)
                         /\ r.clk = [sy.clk EXCEPT ![t] = th.clk[t]]
                         /\ r.reused = sy.reused /\ r.dirty_tids = sy.dirty_tids \cup {t}
  BY <1>3
<1>6. ThreadVector(u, uh, r.clk)
  <2>1. th.clk \in [Tids -> Epochs] /\ sy.clk \in [Tids -> Epochs]
    BY <1>1 DEF ThreadClocks, SyncClocks
  <2> QED  BY <1>2, <2>1, VectorJoin DEF ThreadSync
<1>7. FlagOK(u, uh, r)
  <2> SUFFICES ASSUME r.reused[u] = uh.reused, NEW i \in Tids
               PROVE  /\ i \notin r.dirty_tids => uh.clk[i] >= r.clk[i]
                      /\ r.clk[i] > 0 => i < uh.nclk
    BY DEF FlagOK, Flagged
  <2>1. /\ AcquiredNothingSince(t, th, sy)
        /\ r.clk = [sy.clk EXCEPT ![t] = th.clk[t]]
        /\ r.reused = sy.reused /\ r.dirty_tids = sy.dirty_tids \cup {t}
    BY <1>4, <1>5
  <2>2. Flagged(u, uh, sy)
    BY <1>4, <2>1 DEF Flagged, SyncOK
  <2>3. \A j \in Tids : /\ j \notin sy.dirty_tids => uh.clk[j] >= sy.clk[j]
                        /\ sy.clk[j] > 0 => j < uh.nclk
    BY <2>2 DEF ThreadSync, FlagOK
  <2>4. sy.clk[t] > 0
    BY <1>4, <2>1 DEF AcquiredNothingSince
  <2>5. i # t => r.clk[i] = sy.clk[i]
    BY <1>1, <2>1 DEF SyncClocks
  <2> QED  BY <2>1, <2>3, <2>4, <2>5
<1>8. MarkOK(u, uh, r)
  BY <1>2, TidsInt DEF MarkOK, StoredByMe
<1>9. ReuseOK(u, uh, r)
  <2>1. sy.reused[u] <= uh.reused
    BY DEF ThreadSync, ReuseOK
  <2> QED  BY <1>2, <1>4, <1>5, <2>1, TidsInt DEF ReuseOK
<1> QED  BY <1>6, <1>7, <1>8, <1>9 DEF ThreadSync, r

-------------------------------------------------------------------------------
(* release, into any clock.                                                 *)
LEMMA ReleaseOK ==
  ASSUME NEW t \in Tids, NEW th, NEW sy,
         ThreadOK(t, th), SyncOK(sy), ThreadSync(t, th, sy)
  PROVE  LET r == ReleaseSync(t, th, sy) IN
         /\ SyncOK(r)
         /\ ThreadSync(t, th, r)
         /\ r.clk = VC!Join(sy.clk, th.clk)
<1>1. th \in ThreadClocks /\ sy \in SyncClocks
  BY DEF ThreadOK, SyncOK
<1>2. CASE sy.size = 0
  <2>1. \A i \in Tids : sy.clk[i] = 0
    BY <1>1, <1>2, SyncInts DEF SyncOK, Tids
  <2>2. VC!Join(sy.clk, th.clk) = th.clk
    <3>1. \A i \in Tids : VC!Join(sy.clk, th.clk)[i] = th.clk[i]
      BY <1>1, <2>1, ThreadInts DEF VC!Join
    <3>2. th.clk = [i \in Tids |-> th.clk[i]]
      BY <1>1 DEF ThreadClocks
    <3> QED  BY <3>1, <3>2 DEF VC!Join
  <2>3. ReleaseSync(t, th, sy) = ReleaseStoreSync(t, th, sy)
    BY <1>2 DEF ReleaseSync
  <2>4. /\ SyncOK(ReleaseStoreSync(t, th, sy)) /\ ThreadSync(t, th, ReleaseStoreSync(t, th, sy))
        /\ ReleaseStoreSync(t, th, sy).clk = th.clk
    BY ReleaseStoreOK
  <2> QED  BY <2>2, <2>3, <2>4
<1>3. CASE sy.size # 0
  <2>3. ReleaseSync(t, th, sy) = ReleaseIntoSync(t, th, sy)
    BY <1>3 DEF ReleaseSync
  <2>4. /\ SyncOK(ReleaseIntoSync(t, th, sy)) /\ ThreadSync(t, th, ReleaseIntoSync(t, th, sy))
        /\ ReleaseIntoSync(t, th, sy).clk = VC!Join(sy.clk, th.clk)
    BY ReleaseIntoOK
  <2> QED  BY <2>3, <2>4
<1> QED  BY <1>2, <1>3

LEMMA OthersRelease ==
  ASSUME NEW t \in Tids, NEW th, NEW sy,
         ThreadOK(t, th), SyncOK(sy), ThreadSync(t, th, sy),
         NEW u \in Tids \ {t}, NEW uh, ThreadOK(u, uh),
         ThreadSync(u, uh, sy), ThreadVector(u, uh, th.clk)
  PROVE  ThreadSync(u, uh, ReleaseSync(t, th, sy))
BY OthersReleaseStore, OthersReleaseInto DEF ReleaseSync

(* A reset clock, and a thread that takes a tid over.                       *)
LEMMA EmptyOK ==
  ASSUME NEW t \in Tids, NEW th, ThreadOK(t, th)
  PROVE  /\ SyncOK(EmptySyncClock)
         /\ ThreadSync(t, th, EmptySyncClock)
         /\ EmptySyncClock.clk = VC!Zero
<1>1. EmptySyncClock \in SyncClocks
  BY NAssumption, BoundsAssumption DEF EmptySyncClock, SyncClocks, Epochs, Reuses
<1>2. SyncOK(EmptySyncClock)
  BY <1>1 DEF SyncOK, EmptySyncClock
<1>3. th \in ThreadClocks
  BY DEF ThreadOK
<1>4. /\ th.last_acquire \in Int /\ th.last_acquire >= 0 /\ th.reused \in Int
      /\ t \in Int /\ t >= 0 /\ th.clk[t] >= 0 /\ th.reused >= 1 /\ t # kInvalidTid
  BY <1>3, ThreadInts, TidsInt DEF ThreadOK, Tids
<1>5. ThreadSync(t, th, EmptySyncClock)
  BY <1>4 DEF ThreadSync, ThreadVector, FlagOK, Flagged, MarkOK, StoredByMe, ReuseOK, EmptySyncClock
<1> QED  BY <1>2, <1>5 DEF EmptySyncClock, VC!Zero

LEMMA NewThreadOK ==
  ASSUME NEW t \in Tids, NEW th, ThreadOK(t, th), th.reused <= MaxReuse,
         NEW e \in Epochs, e > th.clk[t]
  PROVE  LET r == SetOwn(t, NewThreadClock(t, th.reused), e) IN
         /\ ThreadOK(t, r)
         /\ r.clk = [VC!Zero EXCEPT ![t] = e]
         /\ r.reused # th.reused
         /\ \A sy : SyncOK(sy) /\ ThreadSync(t, th, sy) => ThreadSync(t, r, sy)
         /\ \A v \in [Tids -> Epochs] : ThreadVector(t, th, v) => ThreadVector(t, r, v)
         /\ \A u \in Tids \ {t} : \A uh : ThreadOK(u, uh) => ThreadVector(u, uh, r.clk)
<1> DEFINE n == NewThreadClock(t, th.reused)
           r == SetOwn(t, n, e)
<1>1. th \in ThreadClocks
  BY DEF ThreadOK
<1>2. /\ th.reused \in Int /\ th.clk[t] \in Int /\ th.clk[t] >= 0 /\ e \in Int
      /\ th.reused >= 1
  BY <1>1, ThreadInts, TidsInt DEF ThreadOK
<1>3. /\ n \in ThreadClocks /\ n.clk = VC!Zero /\ n.nclk = t + 1
      /\ n.last_acquire = 0 /\ n.reused = th.reused + 1
  <2>1. t + 1 \in 1 .. N /\ th.reused + 1 \in Reuses
    BY <1>2, NAssumption, BoundsAssumption DEF Tids, Reuses
  <2> QED  BY <2>1, BoundsAssumption DEF NewThreadClock, ThreadClocks, Epochs, VC!Zero
<1> HIDE DEF n
<1>4. /\ r \in ThreadClocks /\ r.clk = [n.clk EXCEPT ![t] = e] /\ r.nclk = n.nclk
      /\ r.last_acquire = n.last_acquire /\ r.reused = n.reused
  BY <1>3, SetOwnFields
<1> HIDE DEF r
<1>5. \A i \in Tids : r.clk[i] = IF i = t THEN e ELSE 0
  BY <1>3, <1>4 DEF VC!Zero
<1>6. ThreadOK(t, r)
  <2>1. \A i \in Tids : i \in Int
    BY TidsInt
  <2> QED  BY <1>2, <1>3, <1>4, <1>5, <2>1 DEF ThreadOK
<1>7. ASSUME NEW v \in [Tids -> Epochs], ThreadVector(t, th, v)
      PROVE  ThreadVector(t, r, v)
  <2>1. \A i \in Tids : v[i] \in Int /\ v[i] >= 0
    BY BoundsAssumption DEF Epochs
  <2> QED  BY <1>2, <1>3, <1>4, <1>5, <1>7, <2>1 DEF ThreadVector
<1>8. ASSUME NEW sy, SyncOK(sy), ThreadSync(t, th, sy)
      PROVE  ThreadSync(t, r, sy)
  <2>1. /\ sy \in SyncClocks /\ sy.clk \in [Tids -> Epochs]
        /\ sy.reused[t] \in Int /\ sy.release_store_reused \in Int
    BY <1>8, SyncInts DEF SyncOK, SyncClocks
  <2>2. ThreadVector(t, r, sy.clk)
    BY <1>7, <1>8, <2>1 DEF ThreadSync
  <2>3. ReuseOK(t, th, sy)
    BY <1>8 DEF ThreadSync
  <2>4. ~Flagged(t, r, sy) /\ ~StoredByMe(t, r, sy) /\ ReuseOK(t, r, sy)
    BY <1>2, <1>3, <1>4, <2>1, <2>3 DEF ReuseOK, Flagged, StoredByMe
  <2> QED  BY <2>2, <2>4 DEF ThreadSync, FlagOK, MarkOK
<1>9. ASSUME NEW u \in Tids \ {t}, NEW uh, ThreadOK(u, uh)
      PROVE  ThreadVector(u, uh, r.clk)
  <2>1. uh \in ThreadClocks
    BY <1>9 DEF ThreadOK
  <2>2. uh.last_acquire \in Int /\ uh.last_acquire >= 0 /\ uh.clk[u] >= 0 /\ r.clk[u] = 0
    BY <1>5, <2>1, ThreadInts
  <2> QED  BY <2>2 DEF ThreadVector
<1>10. r.clk = [VC!Zero EXCEPT ![t] = e] /\ r.reused # th.reused
  BY <1>2, <1>3, <1>4
<1> QED  BY <1>6, <1>7, <1>8, <1>9, <1>10 DEF r, n

-------------------------------------------------------------------------------
(* The invariant, and what holds half-way through an operation of thread t  *)
(* on sync variable s, whose clocks are th and sy by then.                  *)
ClockInv ==
  /\ TypeOK
  /\ global = [t \in Tids |-> NoFinalizer]
  /\ \A t \in Tids : ThreadOK(t, thr[t]) /\ thr[t].clk[t] <= epoch[t]
  /\ \A s \in Syncs : SyncOK(sync[s])
  /\ \A t \in Tids : \A u \in Tids \ {t} : ThreadVector(u, thr[u], thr[t].clk)
  /\ \A t \in Tids : \A s \in Syncs : ThreadSync(t, thr[t], sync[s])

Fits(t, th, s, sy) ==
  /\ ThreadOK(t, th)
  /\ SyncOK(sy)
  /\ ThreadSync(t, th, sy)
  /\ \A u \in Tids \ {t} : /\ ThreadVector(u, thr[u], th.clk)
                           /\ ThreadVector(t, th, thr[u].clk)
                           /\ ThreadSync(u, thr[u], sy)
  /\ \A w \in Syncs \ {s} : ThreadSync(t, th, sync[w])

LEMMA StartFits ==
  ASSUME ClockInv, NEW t \in Tids, NEW s \in Syncs
  PROVE  Fits(t, thr[t], s, sync[s])
BY DEF ClockInv, Fits

LEMMA InvClocks ==
  ASSUME ClockInv
  PROVE  /\ \A u \in Tids : /\ ThreadOK(u, thr[u]) /\ thr[u] \in ThreadClocks
                            /\ thr[u].clk \in [Tids -> Epochs]
         /\ \A w \in Syncs : SyncOK(sync[w]) /\ sync[w].clk \in [Tids -> Epochs]
BY DEF ClockInv, ThreadOK, SyncOK, ThreadClocks, SyncClocks

LEMMA SetOwnFits ==
  ASSUME ClockInv, NEW t \in Tids, NEW s \in Syncs, NEW th, NEW sy, Fits(t, th, s, sy),
         NEW e \in Epochs, e >= th.clk[t]
  PROVE  Fits(t, SetOwn(t, th, e), s, sy)
<1> DEFINE r == SetOwn(t, th, e)
<1>1. ThreadOK(t, th) /\ SyncOK(sy) /\ ThreadSync(t, th, sy)
  BY DEF Fits
<1>2. /\ ThreadOK(t, r)
      /\ \A x : SyncOK(x) /\ ThreadSync(t, th, x) => ThreadSync(t, r, x)
      /\ \A v \in [Tids -> Epochs] : ThreadVector(t, th, v) => ThreadVector(t, r, v)
  BY <1>1, SetOwnOK
<1>3. \A u \in Tids \ {t} : ThreadVector(u, thr[u], r.clk)
  BY <1>1, InvClocks, OthersSetOwn DEF Fits
<1> HIDE DEF r
<1>4. Fits(t, r, s, sy)
  BY <1>1, <1>2, <1>3, InvClocks DEF Fits
<1> QED  BY <1>4 DEF r

LEMMA AcquireFits ==
  ASSUME ClockInv, NEW t \in Tids, NEW s \in Syncs, NEW th, NEW sy, Fits(t, th, s, sy)
  PROVE  Fits(t, AcquireThread(t, th, sy), s, AcquireSync(t, th, sy))
<1> DEFINE r == AcquireThread(t, th, sy)
           q == AcquireSync(t, th, sy)
<1>1. ThreadOK(t, th) /\ SyncOK(sy) /\ ThreadSync(t, th, sy)
  BY DEF Fits
<1>2. ThreadOK(t, r) /\ r.clk = VC!Join(th.clk, sy.clk)
  BY <1>1, AcquireThreadOK
<1>3. SyncOK(q) /\ ThreadSync(t, r, q)
  BY <1>1, AcquireSyncOK
<1>4. /\ \A v \in [Tids -> Epochs] : ThreadVector(t, th, v) => ThreadVector(t, r, v)
      /\ \A w : SyncOK(w) /\ ThreadSync(t, th, w) => ThreadSync(t, r, w)
  BY <1>1, AcquireElsewhere
<1>5. th.clk \in [Tids -> Epochs] /\ sy.clk \in [Tids -> Epochs]
  BY <1>1 DEF ThreadOK, SyncOK, ThreadClocks, SyncClocks
<1>6. \A u \in Tids \ {t} : ThreadVector(u, thr[u], r.clk)
  BY <1>2, <1>5, InvClocks, VectorJoin DEF Fits, ThreadSync
<1>7. \A u \in Tids \ {t} : ThreadSync(u, thr[u], q)
  BY <1>1, OthersAcquireSync DEF Fits
<1> HIDE DEF r, q
<1>8. Fits(t, r, s, q)
  BY <1>2, <1>3, <1>4, <1>6, <1>7, InvClocks DEF Fits
<1> QED  BY <1>8 DEF r, q

LEMMA ReleaseStoreFits ==
  ASSUME ClockInv, NEW t \in Tids, NEW s \in Syncs, NEW th, NEW sy, Fits(t, th, s, sy)
  PROVE  Fits(t, th, s, ReleaseStoreSync(t, th, sy))
<1> DEFINE q == ReleaseStoreSync(t, th, sy)
<1>1. ThreadOK(t, th) /\ SyncOK(sy) /\ ThreadSync(t, th, sy)
  BY DEF Fits
<1>2. SyncOK(q) /\ ThreadSync(t, th, q)
  BY <1>1, ReleaseStoreOK
<1>3. \A u \in Tids \ {t} : ThreadSync(u, thr[u], q)
  BY <1>1, InvClocks, OthersReleaseStore DEF Fits
<1> HIDE DEF q
<1>4. Fits(t, th, s, q)
  BY <1>2, <1>3 DEF Fits
<1> QED  BY <1>4 DEF q

LEMMA ReleaseFits ==
  ASSUME ClockInv, NEW t \in Tids, NEW s \in Syncs, NEW th, NEW sy, Fits(t, th, s, sy)
  PROVE  Fits(t, th, s, ReleaseSync(t, th, sy))
<1> DEFINE q == ReleaseSync(t, th, sy)
<1>1. ThreadOK(t, th) /\ SyncOK(sy) /\ ThreadSync(t, th, sy)
  BY DEF Fits
<1>2. SyncOK(q) /\ ThreadSync(t, th, q)
  BY <1>1, ReleaseOK
<1>3. \A u \in Tids \ {t} : ThreadSync(u, thr[u], q)
  BY <1>1, InvClocks, OthersRelease DEF Fits
<1> HIDE DEF q
<1>4. Fits(t, th, s, q)
  BY <1>2, <1>3 DEF Fits
<1> QED  BY <1>4 DEF q

LEMMA ResetFits ==
  ASSUME ClockInv, NEW t \in Tids, NEW s \in Syncs, NEW th, NEW sy, Fits(t, th, s, sy)
  PROVE  Fits(t, th, s, EmptySyncClock)
<1>1. SyncOK(EmptySyncClock)
  BY EmptyOK DEF Fits
<1>2. ThreadSync(t, th, EmptySyncClock)
  BY EmptyOK DEF Fits
<1>3. \A u \in Tids \ {t} : ThreadSync(u, thr[u], EmptySyncClock)
  BY EmptyOK, InvClocks
<1> QED  BY <1>1, <1>2, <1>3 DEF Fits

LEMMA NewThreadFits ==
  ASSUME ClockInv, NEW t \in Tids, NEW s \in Syncs, thr[t].reused <= MaxReuse,
         NEW e \in Epochs, e > thr[t].clk[t]
  PROVE  Fits(t, SetOwn(t, NewThreadClock(t, thr[t].reused), e), s, sync[s])
<1> DEFINE r == SetOwn(t, NewThreadClock(t, thr[t].reused), e)
<1>1. ThreadOK(t, thr[t])
  BY InvClocks
<1>2. /\ ThreadOK(t, r)
      /\ \A x : SyncOK(x) /\ ThreadSync(t, thr[t], x) => ThreadSync(t, r, x)
      /\ \A v \in [Tids -> Epochs] : ThreadVector(t, thr[t], v) => ThreadVector(t, r, v)
      /\ \A u \in Tids \ {t} : \A uh : ThreadOK(u, uh) => ThreadVector(u, uh, r.clk)
  BY <1>1, NewThreadOK
<1> HIDE DEF r
<1>3. Fits(t, thr[t], s, sync[s])
  BY StartFits
<1>4. Fits(t, r, s, sync[s])
  BY <1>2, <1>3, InvClocks DEF Fits
<1> QED  BY <1>4 DEF r

(* The end of an operation.                                                 *)
ForgetNothing ==
  \A t, i \in Tids : thr'[t].reused = thr[t].reused => thr'[t].clk[i] >= thr[t].clk[i]

Ends(t, s, th, sy, e) ==
  /\ Fits(t, th, s, sy)
  /\ th.reused # thr[t].reused \/ (\A i \in Tids : th.clk[i] >= thr[t].clk[i])
  /\ th.clk[t] <= e
  /\ epoch' = [epoch EXCEPT ![t] = e]
  /\ thr' = [thr EXCEPT ![t] = th]
  /\ sync' = [sync EXCEPT ![s] = sy]
  /\ global' = global

AbstractStep(t, s, th, sy) ==
  /\ [u \in Tids |-> thr'[u].clk] = [[u \in Tids |-> thr[u].clk] EXCEPT ![t] = th.clk]
  /\ [w \in Syncs |-> sync'[w].clk] = [[w \in Syncs |-> sync[w].clk] EXCEPT ![s] = sy.clk]

LEMMA EndFits ==
  ASSUME ClockInv, NEW t \in Tids, NEW s \in Syncs, NEW th, NEW sy, NEW e \in Epochs,
         Ends(t, s, th, sy, e)
  PROVE  ClockInv' /\ ForgetNothing /\ AbstractStep(t, s, th, sy)
<1> USE DEF Ends
<1>1. ThreadOK(t, th) /\ SyncOK(sy) /\ th \in ThreadClocks /\ sy \in SyncClocks
  BY DEF Fits, ThreadOK, SyncOK
<1>2. \A u \in Tids : thr'[u] = IF u = t THEN th ELSE thr[u]
  BY DEF ClockInv, TypeOK
<1>3. \A w \in Syncs : sync'[w] = IF w = s THEN sy ELSE sync[w]
  BY DEF ClockInv, TypeOK
<1>4. \A u \in Tids : epoch'[u] = IF u = t THEN e ELSE epoch[u]
  BY DEF ClockInv, TypeOK
<1>5. TypeOK'
  BY <1>1 DEF ClockInv, TypeOK
<1>6. (\A u \in Tids : ThreadOK(u, thr[u]) /\ thr[u].clk[u] <= epoch[u])'
  BY <1>1, <1>2, <1>4 DEF ClockInv
<1>7. (\A w \in Syncs : SyncOK(sync[w]))'
  BY <1>1, <1>3 DEF ClockInv
<1>8. (\A v \in Tids : \A u \in Tids \ {v} : ThreadVector(u, thr[u], thr[v].clk))'
  BY <1>2 DEF ClockInv, Fits
<1>9. (\A u \in Tids : \A w \in Syncs : ThreadSync(u, thr[u], sync[w]))'
  BY <1>2, <1>3 DEF ClockInv, Fits
<1>10. ClockInv'
  BY <1>5, <1>6, <1>7, <1>8, <1>9 DEF ClockInv
<1>11. [u \in Tids |-> thr'[u].clk] = [[u \in Tids |-> thr[u].clk] EXCEPT ![t] = th.clk]
  <2>1. \A u \in Tids : thr'[u].clk = IF u = t THEN th.clk ELSE thr[u].clk
    BY <1>2
  <2>2. [u \in Tids |-> thr'[u].clk] = [u \in Tids |-> IF u = t THEN th.clk ELSE thr[u].clk]
    BY <2>1
  <2> QED  BY <2>2
<1>12. [w \in Syncs |-> sync'[w].clk] = [[w \in Syncs |-> sync[w].clk] EXCEPT ![s] = sy.clk]
  <2>1. \A w \in Syncs : sync'[w].clk = IF w = s THEN sy.clk ELSE sync[w].clk
    BY <1>3
  <2>2. [w \in Syncs |-> sync'[w].clk] = [w \in Syncs |-> IF w = s THEN sy.clk ELSE sync[w].clk]
    BY <2>1
  <2> QED  BY <2>2
<1>13. \A u, i \in Tids : thr[u].clk[i] >= thr[u].clk[i]
  BY InvClocks, ThreadInts
<1>14. ForgetNothing
  BY <1>2, <1>13 DEF ForgetNothing
<1> QED  BY <1>10, <1>11, <1>12, <1>14 DEF AbstractStep

-------------------------------------------------------------------------------
(* The two beginnings of an operation: the thread sets its own time, and    *)
(* perhaps acquires.                                                        *)
LEMMA NowFits ==
  ASSUME ClockInv, NEW t \in Tids, NEW s \in Syncs, NEW e \in Epochs, e >= epoch[t]
  PROVE  LET now == SetOwn(t, thr[t], e) IN
         /\ Fits(t, now, s, sync[s])
         /\ now.clk = VC!Now(t, e)
         /\ now.clk[t] = e /\ e >= thr[t].clk[t]
         /\ now.reused = thr[t].reused
         /\ \A i \in Tids : now.clk[i] >= thr[t].clk[i]
<1> DEFINE now == SetOwn(t, thr[t], e)
<1>1. Fits(t, thr[t], s, sync[s])
  BY StartFits
<1>2. thr[t] \in ThreadClocks /\ thr[t].clk \in [Tids -> Epochs]
  BY InvClocks
<1>3. \A i \in Tids : thr[t].clk[i] \in Int
  BY <1>2, ThreadInts
<1>4. epoch[t] \in Int /\ e \in Int /\ thr[t].clk[t] <= epoch[t]
  BY TidsInt DEF ClockInv, TypeOK
<1>5. e >= thr[t].clk[t]
  BY <1>3, <1>4
<1>6. Fits(t, now, s, sync[s])
  BY <1>1, <1>5, SetOwnFits
<1>7. now.clk = [thr[t].clk EXCEPT ![t] = e] /\ now.reused = thr[t].reused
  BY <1>2, SetOwnFields
<1> HIDE DEF now
<1>8. now.clk = VC!Now(t, e)
  BY <1>7 DEF VC!Now
<1>9. \A i \in Tids : now.clk[i] = IF i = t THEN e ELSE thr[t].clk[i]
  BY <1>2, <1>7
<1>10. \A i \in Tids : now.clk[i] >= thr[t].clk[i]
  BY <1>3, <1>5, <1>9
<1> QED  BY <1>5, <1>6, <1>7, <1>8, <1>9, <1>10 DEF now

LEMMA AcquiredFits ==
  ASSUME ClockInv, NEW t \in Tids, NEW s \in Syncs, NEW e \in Epochs, e >= epoch[t]
  PROVE  LET now == SetOwn(t, thr[t], e)
             th  == AcquireThread(t, now, sync[s])
         IN
         /\ Fits(t, th, s, AcquireSync(t, now, sync[s]))
         /\ th.clk = VC!Join(VC!Now(t, e), sync[s].clk)
         /\ AcquireSync(t, now, sync[s]).clk = sync[s].clk
         /\ th.clk[t] = e /\ e >= thr[t].clk[t]
         /\ \A i \in Tids : th.clk[i] >= thr[t].clk[i]
<1> DEFINE now == SetOwn(t, thr[t], e)
           th  == AcquireThread(t, now, sync[s])
<1>1. /\ Fits(t, now, s, sync[s])
      /\ now.clk = VC!Now(t, e) /\ now.clk[t] = e /\ e >= thr[t].clk[t]
      /\ \A i \in Tids : now.clk[i] >= thr[t].clk[i]
  BY NowFits
<1> HIDE DEF now
<1>2. Fits(t, th, s, AcquireSync(t, now, sync[s]))
  BY <1>1, AcquireFits
<1>3. ThreadOK(t, now) /\ SyncOK(sync[s]) /\ ThreadSync(t, now, sync[s])
  BY <1>1 DEF Fits
<1>4. th.clk = VC!Join(now.clk, sync[s].clk) /\ th.clk[t] = now.clk[t]
  BY <1>3, AcquireThreadOK
<1>5. AcquireSync(t, now, sync[s]).clk = sync[s].clk
  BY <1>3, AcquireSyncOK
<1>6. now \in ThreadClocks /\ thr[t] \in ThreadClocks /\ sync[s] \in SyncClocks
  BY <1>3, InvClocks DEF ThreadOK, SyncOK
<1>7. \A i \in Tids : /\ now.clk[i] \in Int /\ thr[t].clk[i] \in Int
                      /\ sync[s].clk[i] \in Int
  BY <1>6, ThreadInts, SyncInts
<1> HIDE DEF th
<1>8. \A i \in Tids : th.clk[i] >= thr[t].clk[i]
  BY <1>1, <1>4, <1>7 DEF VC!Join
<1> QED  BY <1>1, <1>2, <1>4, <1>5, <1>8 DEF now, th

(* A tick, when AcquireGlobal does not run.                                 *)
LEMMA TickEpoch ==
  ASSUME ClockInv, NEW t \in Tids, Tick(t)
  PROVE  /\ epoch[t] \in Epochs /\ epoch'[t] \in Epochs
         /\ epoch'[t] = epoch[t] + 1
         /\ epoch'[t] > epoch[t]
         /\ epoch' = [epoch EXCEPT ![t] = epoch'[t]]
<1>1. epoch \in [Tids -> Epochs] /\ epoch[t] \in Epochs
  BY DEF ClockInv, TypeOK
<1>2. epoch'[t] = epoch[t] + 1 /\ epoch[t] < MaxEpoch
  BY <1>1 DEF Tick
<1>3. epoch' = [epoch EXCEPT ![t] = epoch'[t]]
  BY <1>1 DEF Tick
<1> QED  BY <1>1, <1>2, <1>3, BoundsAssumption DEF Epochs

(* The abstract state.                                                      *)
LEMMA Abstract ==
  ASSUME ClockInv, NEW t \in Tids, NEW s \in Syncs
  PROVE  /\ [u \in Tids |-> thr[u].clk][t] = thr[t].clk
         /\ [w \in Syncs |-> sync[w].clk][s] = sync[s].clk
         /\ [[w \in Syncs |-> sync[w].clk] EXCEPT ![s] = sync[s].clk]
              = [w \in Syncs |-> sync[w].clk]
OBVIOUS

LEMMA AbstractNext ==
  ASSUME NEW t \in Tids, NEW s \in Syncs, NEW e \in Epochs, e >= thr[t].clk[t],
         \/ VC!Acquire(t, s, e) \/ VC!Release(t, s, e) \/ VC!ReleaseStore(t, s, e)
         \/ VC!AcqRel(t, s, e) \/ VC!JoinThread(t, s, e) \/ VC!Start(t, s, e)
  PROVE  VC!Next
<1>1. e >= [u \in Tids |-> thr[u].clk][t][t]
  OBVIOUS
<1>2. VC!Concerns(t, s)
  <2>1. CASE VC!Acquire(t, s, e)  BY <2>1 DEF VC!Acquire, VC!Concerns
  <2>2. CASE VC!Release(t, s, e)  BY <2>2 DEF VC!Release, VC!Concerns
  <2>3. CASE VC!ReleaseStore(t, s, e)  BY <2>3 DEF VC!ReleaseStore, VC!Concerns
  <2>4. CASE VC!AcqRel(t, s, e)  BY <2>4 DEF VC!AcqRel, VC!Concerns
  <2>5. CASE VC!JoinThread(t, s, e)  BY <2>5 DEF VC!JoinThread, VC!Concerns
  <2>6. CASE VC!Start(t, s, e)  BY <2>6 DEF VC!Start, VC!Concerns
  <2> QED  BY <2>1, <2>2, <2>3, <2>4, <2>5, <2>6
<1> QED  BY <1>1, <1>2 DEF VC!Next

LEMMA EpochInt ==
  ASSUME ClockInv, NEW t \in Tids
  PROVE  epoch[t] \in Epochs /\ epoch[t] \in Int
<1>1. epoch[t] \in Epochs
  BY DEF ClockInv, TypeOK
<1> QED  BY <1>1, TidsInt

LEMMA AcquireStep ==
  ASSUME ClockInv, NEW t \in Tids, NEW s \in Syncs, Acquire(t, s)
  PROVE  ClockInv' /\ ForgetNothing /\ VC!Next
<1>1. PICK e \in Epochs : e = epoch[t]
  BY EpochInt
<1>2. e \in Int /\ e >= epoch[t]
  BY <1>1, TidsInt
<1> DEFINE now == SetOwn(t, thr[t], e)
<1>3. PICK th : th = AcquireThread(t, now, sync[s])
  OBVIOUS
<1>4. PICK sy : sy = AcquireSync(t, now, sync[s])
  OBVIOUS
<1>5. /\ Fits(t, th, s, sy)
      /\ th.clk = VC!Join(VC!Now(t, e), sync[s].clk) /\ sy.clk = sync[s].clk
      /\ th.clk[t] = e /\ e >= thr[t].clk[t]
      /\ \A i \in Tids : th.clk[i] >= thr[t].clk[i]
  BY <1>2, <1>3, <1>4, AcquiredFits
<1>6. /\ epoch' = [epoch EXCEPT ![t] = e] /\ thr' = [thr EXCEPT ![t] = th]
      /\ sync' = [sync EXCEPT ![s] = sy] /\ global' = global
  BY <1>1, <1>3, <1>4 DEF Acquire, ClockInv, TypeOK
<1>7. Ends(t, s, th, sy, e)
  BY <1>2, <1>5, <1>6 DEF Ends
<1>8. ClockInv' /\ ForgetNothing /\ AbstractStep(t, s, th, sy)
  BY <1>7, EndFits
<1>9. VC!Acquire(t, s, e)
  BY <1>5, <1>8, Abstract DEF VC!Acquire, AbstractStep
<1>10. VC!Next
  BY <1>5, <1>9, AbstractNext
<1> QED  BY <1>8, <1>10

LEMMA ReleaseStep ==
  ASSUME ClockInv, NEW t \in Tids, NEW s \in Syncs, Release(t, s)
  PROVE  ClockInv' /\ ForgetNothing /\ VC!Next
<1>1. PICK e \in Epochs : e = epoch'[t] /\ e > epoch[t] /\ epoch' = [epoch EXCEPT ![t] = e]
  BY TickEpoch DEF Release
<1>2. e \in Int /\ e >= epoch[t]
  BY <1>1, TidsInt, EpochInt
<1>3. PICK th : th = SetOwn(t, thr[t], e)
  OBVIOUS
<1>4. PICK sy : sy = ReleaseSync(t, th, sync[s])
  OBVIOUS
<1>5. /\ Fits(t, th, s, sync[s])
      /\ th.clk = VC!Now(t, e) /\ th.clk[t] = e /\ e >= thr[t].clk[t]
      /\ \A i \in Tids : th.clk[i] >= thr[t].clk[i]
  BY <1>2, <1>3, NowFits
<1>6. Fits(t, th, s, sy)
  BY <1>4, <1>5, ReleaseFits
<1>7. sy.clk = VC!Join(sync[s].clk, th.clk)
  BY <1>4, <1>5, ReleaseOK DEF Fits
<1>8. /\ epoch' = [epoch EXCEPT ![t] = e] /\ thr' = [thr EXCEPT ![t] = th]
      /\ sync' = [sync EXCEPT ![s] = sy] /\ global' = global
  BY <1>1, <1>3, <1>4 DEF Release
<1>9. Ends(t, s, th, sy, e)
  BY <1>2, <1>5, <1>6, <1>8 DEF Ends
<1>10. ClockInv' /\ ForgetNothing /\ AbstractStep(t, s, th, sy)
  BY <1>9, EndFits
<1>11. VC!Release(t, s, e)
  BY <1>5, <1>7, <1>10, Abstract DEF VC!Release, AbstractStep
<1>12. VC!Next
  BY <1>5, <1>11, AbstractNext
<1> QED  BY <1>10, <1>12

LEMMA ReleaseStoreStep ==
  ASSUME ClockInv, NEW t \in Tids, NEW s \in Syncs, ReleaseStore(t, s)
  PROVE  ClockInv' /\ ForgetNothing /\ VC!Next
<1>1. PICK e \in Epochs : e = epoch'[t] /\ e > epoch[t] /\ epoch' = [epoch EXCEPT ![t] = e]
  BY TickEpoch DEF ReleaseStore
<1>2. e \in Int /\ e >= epoch[t]
  BY <1>1, TidsInt, EpochInt
<1>3. PICK th : th = SetOwn(t, thr[t], e)
  OBVIOUS
<1>4. PICK sy : sy = ReleaseStoreSync(t, th, sync[s])
  OBVIOUS
<1>5. /\ Fits(t, th, s, sync[s])
      /\ th.clk = VC!Now(t, e) /\ th.clk[t] = e /\ e >= thr[t].clk[t]
      /\ \A i \in Tids : th.clk[i] >= thr[t].clk[i]
  BY <1>2, <1>3, NowFits
<1>6. Fits(t, th, s, sy)
  BY <1>4, <1>5, ReleaseStoreFits
<1>7. sy.clk = th.clk
  BY <1>4, <1>5, ReleaseStoreOK DEF Fits
<1>8. /\ epoch' = [epoch EXCEPT ![t] = e] /\ thr' = [thr EXCEPT ![t] = th]
      /\ sync' = [sync EXCEPT ![s] = sy] /\ global' = global
  BY <1>1, <1>3, <1>4 DEF ReleaseStore
<1>9. Ends(t, s, th, sy, e)
  BY <1>2, <1>5, <1>6, <1>8 DEF Ends
<1>10. ClockInv' /\ ForgetNothing /\ AbstractStep(t, s, th, sy)
  BY <1>9, EndFits
<1>11. VC!ReleaseStore(t, s, e)
  BY <1>5, <1>7, <1>10, Abstract DEF VC!ReleaseStore, AbstractStep
<1>12. VC!Next
  BY <1>5, <1>11, AbstractNext
<1> QED  BY <1>10, <1>12

LEMMA AcqRelStep ==
  ASSUME ClockInv, NEW t \in Tids, NEW s \in Syncs, AcqRel(t, s)
  PROVE  ClockInv' /\ ForgetNothing /\ VC!Next
<1>1. PICK e \in Epochs : e = epoch'[t] /\ e > epoch[t] /\ epoch' = [epoch EXCEPT ![t] = e]
  BY TickEpoch DEF AcqRel
<1>2. e \in Int /\ e >= epoch[t]
  BY <1>1, TidsInt, EpochInt
<1>3. PICK now : now = SetOwn(t, thr[t], e)
  OBVIOUS
<1>4. PICK th : th = AcquireThread(t, now, sync[s])
  OBVIOUS
<1>5. PICK mid : mid = AcquireSync(t, now, sync[s])
  OBVIOUS
<1>6. PICK sy : sy = ReleaseStoreSync(t, th, mid)
  OBVIOUS
<1>7. /\ Fits(t, th, s, mid)
      /\ th.clk = VC!Join(VC!Now(t, e), sync[s].clk)
      /\ th.clk[t] = e /\ e >= thr[t].clk[t]
      /\ \A i \in Tids : th.clk[i] >= thr[t].clk[i]
  BY <1>2, <1>3, <1>4, <1>5, AcquiredFits
<1>8. Fits(t, th, s, sy)
  BY <1>6, <1>7, ReleaseStoreFits
<1>9. sy.clk = th.clk
  BY <1>6, <1>7, ReleaseStoreOK DEF Fits
<1>10. /\ epoch' = [epoch EXCEPT ![t] = e] /\ thr' = [thr EXCEPT ![t] = th]
       /\ sync' = [sync EXCEPT ![s] = sy] /\ global' = global
  BY <1>1, <1>3, <1>4, <1>5, <1>6 DEF AcqRel
<1>11. Ends(t, s, th, sy, e)
  BY <1>2, <1>7, <1>8, <1>10 DEF Ends
<1>12. ClockInv' /\ ForgetNothing /\ AbstractStep(t, s, th, sy)
  BY <1>11, EndFits
<1>13. VC!AcqRel(t, s, e)
  BY <1>7, <1>9, <1>12, Abstract DEF VC!AcqRel, AbstractStep
<1>14. VC!Next
  BY <1>7, <1>13, AbstractNext
<1> QED  BY <1>12, <1>14

LEMMA JoinStep ==
  ASSUME ClockInv, NEW t \in Tids, NEW s \in Syncs, Join(t, s)
  PROVE  ClockInv' /\ ForgetNothing /\ VC!Next
<1>1. PICK e \in Epochs : e = epoch[t]
  BY EpochInt
<1>2. e \in Int /\ e >= epoch[t]
  BY <1>1, TidsInt
<1>3. PICK now : now = SetOwn(t, thr[t], e)
  OBVIOUS
<1>4. PICK th : th = AcquireThread(t, now, sync[s])
  OBVIOUS
<1>5. PICK sy : sy = EmptySyncClock
  OBVIOUS
<1>6. /\ Fits(t, th, s, AcquireSync(t, now, sync[s]))
      /\ th.clk = VC!Join(VC!Now(t, e), sync[s].clk)
      /\ th.clk[t] = e /\ e >= thr[t].clk[t]
      /\ \A i \in Tids : th.clk[i] >= thr[t].clk[i]
  BY <1>2, <1>3, <1>4, AcquiredFits
<1>7. Fits(t, th, s, sy)
  BY <1>5, <1>6, ResetFits
<1>8. sy.clk = VC!Zero
  BY <1>5, <1>7, EmptyOK DEF Fits
<1>9. /\ epoch' = [epoch EXCEPT ![t] = e] /\ thr' = [thr EXCEPT ![t] = th]
      /\ sync' = [sync EXCEPT ![s] = sy] /\ global' = global
  BY <1>1, <1>3, <1>4, <1>5 DEF Join, ClockInv, TypeOK
<1>10. Ends(t, s, th, sy, e)
  BY <1>2, <1>6, <1>7, <1>9 DEF Ends
<1>11. ClockInv' /\ ForgetNothing /\ AbstractStep(t, s, th, sy)
  BY <1>10, EndFits
<1>12. VC!JoinThread(t, s, e)
  BY <1>6, <1>8, <1>11, Abstract DEF VC!JoinThread, AbstractStep
<1>13. VC!Next
  BY <1>6, <1>12, AbstractNext
<1> QED  BY <1>11, <1>13

LEMMA StartStep ==
  ASSUME ClockInv, NEW t \in Tids, NEW s \in Syncs, Start(t, s)
  PROVE  ClockInv' /\ ForgetNothing /\ VC!Next
<1>1. PICK e \in Epochs : e = epoch'[t] /\ e > epoch[t] /\ epoch' = [epoch EXCEPT ![t] = e]
  BY TickEpoch DEF Start
<1>2. e \in Int /\ e > thr[t].clk[t] /\ thr[t].clk[t] \in Int /\ thr[t].reused <= MaxReuse
  <2>1. thr[t].clk[t] \in Int /\ thr[t].clk[t] <= epoch[t] /\ epoch[t] \in Int
    BY InvClocks, ThreadInts, EpochInt DEF ClockInv
  <2> QED  BY <1>1, <2>1, TidsInt DEF Start
<1>3. PICK new : new = SetOwn(t, NewThreadClock(t, thr[t].reused), e)
  OBVIOUS
<1>4. PICK th : th = AcquireThread(t, new, sync[s])
  OBVIOUS
<1>5. PICK sy : sy = EmptySyncClock
  OBVIOUS
<1>6. Fits(t, new, s, sync[s])
  BY <1>2, <1>3, NewThreadFits
<1>7. new.clk = [VC!Zero EXCEPT ![t] = e] /\ new.reused # thr[t].reused
  BY <1>2, <1>3, InvClocks, NewThreadOK
<1>8. Fits(t, th, s, sy)
  BY <1>4, <1>5, <1>6, AcquireFits, ResetFits
<1>9. ThreadOK(t, new) /\ SyncOK(sync[s]) /\ ThreadSync(t, new, sync[s])
  BY <1>6 DEF Fits
<1>10. th.clk = VC!Join(new.clk, sync[s].clk) /\ th.reused = new.reused /\ th.clk[t] = new.clk[t]
  BY <1>4, <1>9, AcquireThreadOK
<1>11. new.clk[t] = e
  BY <1>7 DEF VC!Zero
<1>12. sy.clk = VC!Zero
  BY <1>5, <1>8, EmptyOK DEF Fits
<1>13. /\ epoch' = [epoch EXCEPT ![t] = e] /\ thr' = [thr EXCEPT ![t] = th]
       /\ sync' = [sync EXCEPT ![s] = sy] /\ global' = global
  BY <1>1, <1>3, <1>4, <1>5 DEF Start
<1>14. Ends(t, s, th, sy, e)
  BY <1>2, <1>7, <1>8, <1>10, <1>11, <1>13 DEF Ends
<1>15. ClockInv' /\ ForgetNothing /\ AbstractStep(t, s, th, sy)
  BY <1>14, EndFits
<1>16. VC!Start(t, s, e)
  BY <1>7, <1>10, <1>12, <1>15, Abstract DEF VC!Start, AbstractStep
<1>17. e >= thr[t].clk[t]
  BY <1>2
<1>18. VC!Next
  BY <1>16, <1>17, AbstractNext
<1> QED  BY <1>15, <1>18

LEMMA ResetStep ==
  ASSUME ClockInv, NEW s \in Syncs, Reset(s)
  PROVE  ClockInv' /\ ForgetNothing /\ VC!Next
<1>1. PICK t \in Tids : t = 0
  BY NAssumption DEF Tids
<1>2. PICK e \in Epochs : e = epoch[t]
  BY EpochInt
<1>3. PICK th : th = thr[t]
  OBVIOUS
<1>4. PICK sy : sy = EmptySyncClock
  OBVIOUS
<1>5. Fits(t, th, s, sy)
  BY <1>3, <1>4, StartFits, ResetFits
<1>6. th.clk[t] <= e /\ \A i \in Tids : th.clk[i] >= thr[t].clk[i]
  BY <1>2, <1>3, InvClocks, ThreadInts DEF ClockInv
<1>7. /\ epoch' = [epoch EXCEPT ![t] = e] /\ thr' = [thr EXCEPT ![t] = th]
      /\ sync' = [sync EXCEPT ![s] = sy] /\ global' = global
  BY <1>2, <1>3, <1>4 DEF Reset, ClockInv, TypeOK
<1>8. Ends(t, s, th, sy, e)
  BY <1>5, <1>6, <1>7 DEF Ends
<1>9. ClockInv' /\ ForgetNothing /\ AbstractStep(t, s, th, sy)
  BY <1>8, EndFits
<1>10. sy.clk = VC!Zero
  BY <1>4, <1>5, EmptyOK DEF Fits
<1>11. [u \in Tids |-> thr'[u].clk] = [u \in Tids |-> thr[u].clk]
  BY DEF Reset
<1>12. VC!Reset(s)
  BY <1>9, <1>10, <1>11 DEF VC!Reset, AbstractStep
<1> QED  BY <1>9, <1>12 DEF VC!Next

LEMMA AccessStep ==
  ASSUME ClockInv, NEW t \in Tids, Access(t)
  PROVE  ClockInv' /\ ForgetNothing /\ UNCHANGED VC!vars
<1>1. epoch'[t] \in Epochs /\ epoch'[t] > epoch[t] /\ epoch' = [epoch EXCEPT ![t] = epoch'[t]]
  BY TickEpoch DEF Access
<1>2. thr' = thr /\ sync' = sync /\ global' = global
  BY DEF Access
<1>3. \A u, i \in Tids : thr[u].clk[i] \in Int
  BY InvClocks, ThreadInts
<1>4. ASSUME NEW u \in Tids PROVE thr[u].clk[u] <= epoch'[u]
  <2>1. epoch'[u] = IF u = t THEN epoch'[t] ELSE epoch[u]
    BY <1>1 DEF ClockInv, TypeOK
  <2>2. epoch[u] \in Int /\ epoch[t] \in Int /\ epoch'[t] \in Int /\ thr[u].clk[u] <= epoch[u]
    BY <1>1, EpochInt, TidsInt DEF ClockInv
  <2> QED  BY <1>1, <1>3, <2>1, <2>2
<1>5. epoch' \in [Tids -> Epochs]
  BY <1>1 DEF ClockInv, TypeOK
<1>6. ClockInv'
  BY <1>2, <1>4, <1>5 DEF ClockInv, TypeOK
<1>7. ForgetNothing
  BY <1>2, <1>3 DEF ForgetNothing
<1> QED  BY <1>2, <1>6, <1>7 DEF VC!vars

LEMMA Stutter ==
  ASSUME ClockInv, UNCHANGED vars
  PROVE  ClockInv' /\ ForgetNothing /\ UNCHANGED VC!vars
<1>1. \A u, i \in Tids : thr[u].clk[i] \in Int
  BY InvClocks, ThreadInts
<1>2. epoch' = epoch /\ thr' = thr /\ sync' = sync /\ global' = global
  BY DEF vars
<1>3. ClockInv'
  BY <1>2 DEF ClockInv, TypeOK
<1> QED  BY <1>1, <1>2, <1>3 DEF ForgetNothing, VC!vars

-------------------------------------------------------------------------------
(* The theorems.  In a process where a thread runs AcquireGlobal the        *)
(* argument does not hold, so the invariant is claimed for the others; that *)
(* a process is one of the others never changes.                            *)
GlobalOK == global \in [Tids -> 0 .. NoFinalizer]

LEMMA InitGlobal == Init => GlobalOK
  BY NAssumption DEF Init, GlobalOK, NoFinalizer

LEMMA NextGlobal ==
  ASSUME GlobalOK, [Next]_vars
  PROVE  GlobalOK' /\ (NoFinalizers' => NoFinalizers)
<1>1. CASE global' = global
  BY <1>1 DEF GlobalOK, NoFinalizers
<1>2. CASE \E t \in Tids : AcquireGlobal(t)
  <2>1. PICK t \in Tids : AcquireGlobal(t)
    BY <1>2
  <2>2. global' = [global EXCEPT ![t] = 0] /\ 0 \in 0 .. NoFinalizer /\ 0 # NoFinalizer
    BY <2>1, NAssumption DEF AcquireGlobal, NoFinalizer
  <2> QED  BY <2>2 DEF GlobalOK, NoFinalizers
<1>3. CASE \E t \in Tids : UpdateClockCallback(t)
  <2>1. PICK t \in Tids : UpdateClockCallback(t)
    BY <1>3
  <2>2. global[t] \in 0 .. NoFinalizer /\ global[t] < N
    BY <2>1 DEF UpdateClockCallback, GlobalOK
  <2>3. /\ global' = [global EXCEPT ![t] = global[t] + 1]
        /\ global[t] + 1 \in 0 .. NoFinalizer /\ global[t] + 1 # NoFinalizer
    BY <2>1, <2>2, NAssumption DEF UpdateClockCallback, NoFinalizer
  <2> QED  BY <2>3 DEF GlobalOK, NoFinalizers
<1>4. CASE \/ \E t \in Tids : Access(t)
           \/ \E t \in Tids : \E s \in Syncs :
                \/ Acquire(t, s) \/ Release(t, s) \/ ReleaseStore(t, s) \/ AcqRel(t, s)
                \/ Join(t, s) \/ Start(t, s)
           \/ \E s \in Syncs : Reset(s)
           \/ UNCHANGED vars
  BY <1>1, <1>4 DEF Access, Acquire, Release, ReleaseStore, AcqRel, Join, Start, Reset, vars
<1> QED  BY <1>2, <1>3, <1>4 DEF Next

LEMMA InitInv == Init /\ NoFinalizers => ClockInv
<1> SUFFICES ASSUME Init, NoFinalizers PROVE ClockInv
  OBVIOUS
<1>1. ASSUME NEW t \in Tids
      PROVE  /\ ThreadOK(t, NewThreadClock(t, 0))
             /\ NewThreadClock(t, 0).clk = VC!Zero
             /\ NewThreadClock(t, 0).last_acquire = 0
  <2>1. t + 1 \in 1 .. N /\ t \in Int
    BY NAssumption DEF Tids
  <2> QED  BY <2>1, BoundsAssumption
           DEF ThreadOK, NewThreadClock, ThreadClocks, Epochs, Reuses, VC!Zero
<1>2. \A t \in Tids : thr[t] = NewThreadClock(t, 0)
  BY DEF Init
<1>3. \A s \in Syncs : sync[s] = EmptySyncClock
  BY DEF Init
<1>4. \A t \in Tids : ThreadOK(t, thr[t]) /\ thr[t].clk[t] <= epoch[t]
  BY <1>1, <1>2 DEF Init, VC!Zero
<1>5. \A s \in Syncs : SyncOK(sync[s]) /\ \A t \in Tids : ThreadSync(t, thr[t], sync[s])
  <2>1. PICK t0 \in Tids : TRUE
    BY NAssumption DEF Tids
  <2> QED  BY <1>3, <1>4, <2>1, EmptyOK
<1>6. \A t \in Tids : \A u \in Tids \ {t} : ThreadVector(u, thr[u], thr[t].clk)
  BY <1>1, <1>2 DEF ThreadVector, VC!Zero
<1>7. TypeOK
  <2>1. epoch \in [Tids -> Epochs]
    BY BoundsAssumption DEF Init, Epochs
  <2>2. thr \in [Tids -> ThreadClocks]
    BY <1>1 DEF Init, ThreadOK
  <2>3. sync \in [Syncs -> SyncClocks]
    BY <1>3, <1>5 DEF Init, SyncOK
  <2>4. global \in [Tids -> 0 .. NoFinalizer]
    BY InitGlobal DEF GlobalOK
  <2> QED  BY <2>1, <2>2, <2>3, <2>4 DEF TypeOK
<1>8. global = [t \in Tids |-> NoFinalizer]
  BY InitGlobal DEF GlobalOK, NoFinalizers
<1> QED  BY <1>4, <1>5, <1>6, <1>7, <1>8 DEF ClockInv

LEMMA NextInv ==
  ASSUME ClockInv, [Next]_vars
  PROVE  ClockInv' /\ ForgetNothing /\ [VC!Next]_(VC!vars)
<1>1. ASSUME NEW t \in Tids PROVE ~AcquireGlobal(t) /\ ~UpdateClockCallback(t)
  BY NAssumption DEF AcquireGlobal, UpdateClockCallback, ClockInv, NoFinalizer
<1>2. CASE UNCHANGED vars
  BY <1>2, Stutter
<1>3. CASE Next
  <2>1. CASE \E t \in Tids : Access(t)
    BY <2>1, AccessStep
  <2>2. CASE \E t \in Tids : \E s \in Syncs :
               \/ Acquire(t, s) \/ Release(t, s) \/ ReleaseStore(t, s) \/ AcqRel(t, s)
               \/ Join(t, s) \/ Start(t, s)
    BY <2>2, AcquireStep, ReleaseStep, ReleaseStoreStep, AcqRelStep, JoinStep, StartStep
  <2>3. CASE \E s \in Syncs : Reset(s)
    BY <2>3, ResetStep
  <2> QED  BY <1>1, <1>3, <2>1, <2>2, <2>3 DEF Next
<1> QED  BY <1>2, <1>3

LEMMA AlwaysInv == Spec => [](GlobalOK /\ (NoFinalizers => ClockInv))
<1>1. Init => GlobalOK /\ (NoFinalizers => ClockInv)
  BY InitInv, InitGlobal
<1>2. /\ GlobalOK /\ (NoFinalizers => ClockInv)
      /\ [Next]_vars
      => (GlobalOK /\ (NoFinalizers => ClockInv))'
  BY NextInv, NextGlobal
<1> QED  BY <1>1, <1>2, PTL DEF Spec

LEMMA AlwaysClockInv == ASSUME Finalizers = {} PROVE Spec => []ClockInv
<1>1. Init => ClockInv
  BY InitInv DEF Init, NoFinalizers
<1>2. ClockInv /\ [Next]_vars => ClockInv'
  BY NextInv
<1> QED  BY <1>1, <1>2, PTL DEF Spec

(* The clocks have their types.                                             *)
THEOREM TypeCorrect == ASSUME Finalizers = {} PROVE Spec => []TypeOK
<1>1. ClockInv => TypeOK
  BY DEF ClockInv
<1> QED  BY <1>1, AlwaysClockInv, PTL

(* No vector shows a time that its thread has not reached.                  *)
THEOREM NobodyAhead == ASSUME Finalizers = {} PROVE Spec => []NeverAhead
<1>1. ClockInv => NeverAhead
  <2> SUFFICES ASSUME ClockInv, NEW t \in Tids, NEW v \in Vectors PROVE v[t] <= epoch[t]
    BY DEF NeverAhead
  <2>1. thr[t].clk[t] <= epoch[t] /\ thr[t].clk[t] \in Int /\ epoch[t] \in Int
    BY InvClocks, ThreadInts, EpochInt DEF ClockInv
  <2>2. \A w \in [Tids -> Epochs] : w[t] \in Int
    BY TidsInt
  <2>3. CASE \E u \in Tids : v = thr[u].clk
    BY <2>1, <2>2, <2>3, InvClocks DEF ClockInv, ThreadVector
  <2>4. CASE \E s \in Syncs : v = sync[s].clk
    BY <2>1, <2>2, <2>4, InvClocks DEF ClockInv, ThreadSync, ThreadVector
  <2> QED  BY <2>3, <2>4 DEF Vectors
<1> QED  BY <1>1, AlwaysClockInv, PTL

(* A vector that shows a time of a thread after its last acquire carries    *)
(* all that the thread knows.                                               *)
THEOREM LateTimes == Spec => []LateTimesCarryAll
<1>1. (NoFinalizers => ClockInv) => LateTimesCarryAll
  <2> SUFFICES ASSUME ClockInv, NEW t \in Tids, NEW v \in Vectors, v[t] > thr[t].last_acquire,
                      NEW i \in Tids \ {t}
               PROVE  v[i] >= thr[t].clk[i]
    BY DEF LateTimesCarryAll
  <2>1. CASE \E u \in Tids : v = thr[u].clk
    BY <2>1, InvClocks, ThreadInts DEF ClockInv, ThreadVector
  <2>2. CASE \E s \in Syncs : v = sync[s].clk
    BY <2>2 DEF ClockInv, ThreadSync, ThreadVector
  <2> QED  BY <2>1, <2>2 DEF Vectors
<1> QED  BY <1>1, AlwaysInv, PTL

(* A thread whose flag is up knows every element that is not dirty.         *)
THEOREM FlagsTell == ASSUME Finalizers = {} PROVE Spec => []FlaggedKnowsCleanElements
<1>1. ClockInv => FlaggedKnowsCleanElements
  BY DEF ClockInv, ThreadSync, FlagOK, FlaggedKnowsCleanElements
<1> QED  BY <1>1, AlwaysClockInv, PTL

(* Nothing is kept beyond the effective sizes.                              *)
THEOREM SizesTell == ASSUME Finalizers = {} PROVE Spec => []NothingBeyondSize
<1>1. ClockInv => NothingBeyondSize
  BY DEF ClockInv, ThreadOK, SyncOK, NothingBeyondSize
<1> QED  BY <1>1, AlwaysClockInv, PTL

(* A thread forgets nothing until its tid is taken over.                    *)
THEOREM NothingForgotten == ASSUME Finalizers = {} PROVE Spec => ThreadsNeverForget
<1>1. ClockInv /\ [Next]_vars => [ForgetNothing]_vars
  BY NextInv
<1> QED  BY <1>1, AlwaysClockInv, PTL DEF Spec, ThreadsNeverForget, ForgetNothing

(* The next acquire gives the pointwise maximum, whatever was left out.     *)
THEOREM AcquireConformance == ASSUME Finalizers = {} PROVE Spec => []AcquireConforms
<1>1. ClockInv => AcquireConforms
  <2> SUFFICES ASSUME ClockInv, NEW t \in Tids, NEW s \in Syncs
               PROVE  AcquireThread(t, SetOwn(t, thr[t], epoch[t]), sync[s]).clk
                        = VC!Join(SetOwn(t, thr[t], epoch[t]).clk, sync[s].clk)
    BY DEF AcquireConforms
  <2>1. epoch[t] \in Epochs /\ epoch[t] >= epoch[t]
    BY EpochInt
  <2>2. Fits(t, SetOwn(t, thr[t], epoch[t]), s, sync[s])
    BY <2>1, NowFits
  <2> QED  BY <2>2, AcquireThreadOK DEF Fits
<1> QED  BY <1>1, AlwaysClockInv, PTL

(* The next release gives the pointwise maximum, on each of its paths.      *)
THEOREM ReleaseConformance == Spec => []ReleaseConforms
<1>1. (NoFinalizers => ClockInv) => ReleaseConforms
  <2> SUFFICES ASSUME ClockInv, NEW t \in Tids, NEW s \in Syncs, epoch[t] < MaxEpoch
               PROVE  ReleaseSync(t, SetOwn(t, thr[t], epoch[t] + 1), sync[s]).clk
                        = VC!Join(sync[s].clk, SetOwn(t, thr[t], epoch[t] + 1).clk)
    BY DEF ReleaseConforms
  <2>1. epoch[t] + 1 \in Epochs /\ epoch[t] + 1 >= epoch[t]
    BY EpochInt, BoundsAssumption DEF Epochs
  <2>2. Fits(t, SetOwn(t, thr[t], epoch[t] + 1), s, sync[s])
    BY <2>1, NowFits
  <2> QED  BY <2>2, ReleaseOK DEF Fits
<1> QED  BY <1>1, AlwaysInv, PTL

(* The next release-store makes the clock a copy, on each of its paths.     *)
THEOREM ReleaseStoreConformance == ASSUME Finalizers = {} PROVE Spec => []ReleaseStoreConforms
<1>1. ClockInv => ReleaseStoreConforms
  <2> SUFFICES ASSUME ClockInv, NEW t \in Tids, NEW s \in Syncs, epoch[t] < MaxEpoch
               PROVE  ReleaseStoreSync(t, SetOwn(t, thr[t], epoch[t] + 1), sync[s]).clk
                        = SetOwn(t, thr[t], epoch[t] + 1).clk
    BY DEF ReleaseStoreConforms
  <2>1. epoch[t] + 1 \in Epochs /\ epoch[t] + 1 >= epoch[t]
    BY EpochInt, BoundsAssumption DEF Epochs
  <2>2. Fits(t, SetOwn(t, thr[t], epoch[t] + 1), s, sync[s])
    BY <2>1, NowFits
  <2> QED  BY <2>2, ReleaseStoreOK DEF Fits
<1> QED  BY <1>1, AlwaysClockInv, PTL

(* Every operation of every thread, taken in any state, gives what the      *)
(* naive vectors give, so none of its fast paths leaves anything out.       *)
THEOREM OperationsAlwaysConform == ASSUME Finalizers = {} PROVE Spec => []OperationsConform
<1>1. AcquireConforms /\ ReleaseConforms /\ ReleaseStoreConforms => OperationsConform
  BY DEF OperationsConform
<1> QED  BY <1>1, AcquireConformance, ReleaseConformance, ReleaseStoreConformance, PTL

(* Every behaviour of the clocks is one of the naive vectors.               *)
THEOREM Refinement == Spec => ImplementsVectorClock
<1>1. Init => VC!Init
  BY DEF Init, VC!Init, VC!Zero, NewThreadClock, EmptySyncClock
<1>2. (NoFinalizers => ClockInv) /\ [Next]_vars => [NoFinalizers => VC!Next]_(VC!vars)
  BY NextInv
<1> QED  BY <1>1, <1>2, AlwaysInv, PTL DEF Spec, ImplementsVectorClock
===============================================================================
