------------------------------ MODULE TsanProofs ------------------------------
(***************************************************************************)
(* Proofs about two parts of MCTsan: the shadow cell (TsanShadow), of any  *)
(* size and with accesses that overlap or not, and the hooks of mutexes    *)
(* (TsanMutex), for any threads.                                           *)
(*                                                                         *)
(* The cell first.  A word in it describes an access that was made; what a *)
(* thread has seen is no later than its clock says; nobody has learned of  *)
(* an access that is still in progress.  So a word that a thread's clock   *)
(* does not cover is of an access it has not seen.                         *)
(*                                                                         *)
(* Then the other direction, for accesses that do not overlap: a word in   *)
(* the cell stands for each earlier access that was not pushed out, is no  *)
(* weaker than it, and whoever has seen the word's access has seen that    *)
(* one too; and an access was compared with all words it left behind.      *)
(*                                                                         *)
(* Then the mutex: the clocks of the SyncVar are what the program's real   *)
(* unlocks have released, ahead of it by the threads between the hook of   *)
(* an unlock and the unlock, and a thread between a real lock and its hook *)
(* lacks exactly what the hook will bring it.                              *)
(***************************************************************************)
EXTENDS MCTsan, Sequences, TLAPS

-----------------------------------------------------------------------------
(* TsanShadow, for every size k of the cell and of the instance.               *)
Made == 1 .. Len(hist)
Granule == (0 .. 7) \X {1, 2, 4, 8}
Words == [tid : Tids, epoch : Nat, range : Granule, write : BOOLEAN, atomic : BOOLEAN,
          freed : BOOLEAN, id : Nat \ {0}]
Accesses == [word : Words, knew : SUBSET (Nat \ {0}), alive : BOOLEAN]
ZeroWord == [id |-> 0]
Idle == [pc |-> "idle", heap |-> FALSE]
Ops(k) == [pc : {"load", "store", "evict", "mark", "set"}, cur : Words, idx : 0 .. k.cnt - 1,
           stored : BOOLEAN, heap : BOOLEAN]
Busy(t) == op[t].pc # "idle"

STyped(k) ==
  /\ epoch \in [Tids -> Nat] /\ clk \in [Tids -> [Tids -> Nat]] /\ sclk \in [Syncs -> [Tids -> Nat]]
  /\ seen \in [Tids -> SUBSET (Nat \ {0})] /\ carried \in [Syncs -> SUBSET (Nat \ {0})]
  /\ hist \in Seq(Accesses) /\ live \in BOOLEAN
  /\ shadow \in [0 .. k.cnt - 1 -> Words \union {ZeroWord}]
  /\ op \in [Tids -> Ops(k) \union {Idle}]

(* A word describes an access that was made; a freed one a free of the whole.  *)
Describes(w) ==
  /\ w.id \in Made /\ hist[w.id].word.tid = w.tid
  /\ IF w.freed THEN hist[w.id].word.range = <<0, 8>> /\ hist[w.id].word.write /\ ~hist[w.id].word.atomic
                ELSE w = hist[w.id].word

SWords(k) ==
  /\ \A i \in 0 .. k.cnt - 1 : shadow[i] # ZeroWord => Describes(shadow[i])
  /\ \A t \in Tids : Busy(t) =>
       /\ Describes(op[t].cur) /\ op[t].cur.tid = t
       /\ op[t].cur.freed => op[t].pc = "set"
       /\ op[t].pc \in {"mark", "set"} => op[t].heap
       /\ op[t].heap /\ op[t].pc # "set" =>
            op[t].cur.range = <<0, 8>> /\ op[t].cur.write /\ ~op[t].cur.atomic

(* What happened, and that the clocks know of what was seen.                   *)
SHistory ==
  /\ \A i \in Made :
       /\ hist[i].word.id = i /\ ~hist[i].word.freed
       /\ hist[i].word.epoch <= epoch[hist[i].word.tid]
       /\ hist[i].knew \subseteq seen[hist[i].word.tid]
       /\ \A j \in hist[i].knew : j < i
  /\ \A t \in Tids : \A i \in seen[t] :
       i \in Made /\ (hist[i].word.tid # t => hist[i].word.epoch <= clk[t][hist[i].word.tid])
  /\ \A s \in Syncs : \A i \in carried[s] :
       i \in Made /\ hist[i].word.epoch <= sclk[s][hist[i].word.tid]

(* Nobody has learned of an access that is still in progress, and it is the    *)
(* last of its thread.                                                         *)
SAlone ==
  \A t \in Tids : Busy(t) =>
    /\ \A u \in Tids : u # t => op[t].cur.id \notin seen[u]
    /\ \A s \in Syncs : op[t].cur.id \notin carried[s]
    /\ \A j \in Made : op[t].cur.id \notin hist[j].knew /\ (j > op[t].cur.id => hist[j].word.tid # t)

(* After a free only the next malloc() counts as an access to live memory, and *)
(* its first store removes the freed word.                                     *)
Remaking(j) == \E u \in Tids : op[u].pc = "set" /\ ~op[u].cur.freed /\ op[u].cur.id = j
Gone(w) ==
  /\ ~live
  /\ \A j \in Made : j > w.id /\ hist[j].alive => Remaking(j)
  /\ \A t \in Tids : Busy(t) /\ op[t].cur.id = w.id => op[t].cur.freed

SFreed(k) ==
  /\ \A t \in Tids : Busy(t) /\ op[t].heap =>
       /\ ~live
       /\ \A u \in Tids : Busy(u) /\ op[u].heap => u = t
       /\ (op[t].pc # "set" \/ op[t].cur.freed) => \A j \in Made : j > op[t].cur.id => ~hist[j].alive
       /\ op[t].pc = "set" /\ ~op[t].cur.freed /\ op[t].idx > 0 =>
            (shadow[0] # ZeroWord => ~shadow[0].freed)
  /\ \A i \in 0 .. k.cnt - 1 : shadow[i] # ZeroWord /\ shadow[i].freed => i = 0 /\ Gone(shadow[i])

SReports(k) ==
  \A r \in reports :
    /\ r[1] \in Made /\ r[2] \in Made
    /\ \/ Shadow(k)!Conflict(r[1], r[2]) /\ Shadow(k)!Unordered(r[1], r[2])
       \/ ~hist[r[1]].alive

SInv(k) == STyped(k) /\ SWords(k) /\ SHistory /\ SAlone /\ SFreed(k) /\ SReports(k)

(* The length and the elements of a history that has grown.                    *)
LEMMA SAppend ==
  ASSUME hist \in Seq(Accesses), NEW r \in Accesses, hist' = Append(hist, r)
  PROVE  /\ hist' \in Seq(Accesses) /\ Len(hist) \in Nat /\ Len(hist') = Len(hist) + 1
         /\ Made' = Made \union {Len(hist) + 1} /\ Len(hist) + 1 \notin Made
         /\ \A i \in Made : hist'[i] = hist[i] /\ hist[i] \in Accesses
         /\ hist'[Len(hist) + 1] = r
<1>1. Len(hist) \in Nat
  OBVIOUS
<1>2. hist' \in Seq(Accesses) /\ Len(hist') = Len(hist) + 1
  OBVIOUS
<1>3. Made' = Made \union {Len(hist) + 1} /\ Len(hist) + 1 \notin Made
  BY <1>1, <1>2 DEF Made
<1> QED  BY <1>1, <1>2, <1>3 DEF Made

(* A thread is idle or about an access.                                        *)
LEMMA SOp ==
  ASSUME NEW k, STyped(k), NEW t \in Tids
  PROVE  /\ Busy(t) => op[t] \in Ops(k) /\ op[t] # Idle
         /\ ~Busy(t) <=> op[t] = Idle
         /\ op[t].heap => Busy(t)
<1>1. op[t] \in Ops(k) \/ op[t] = Idle
  BY DEF STyped
<1> QED  BY <1>1 DEF Ops, Idle, Busy

(* An access w of t enters the history.                                        *)
Records(t, w, alive) ==
  /\ w.id = Len(hist) + 1 /\ w.tid = t /\ ~w.freed
  /\ hist' = Append(hist, [word |-> w, knew |-> seen[t], alive |-> alive])
  /\ seen' = [seen EXCEPT ![t] = @ \union {w.id}]
  /\ epoch' \in [Tids -> Nat] /\ (\A u \in Tids : epoch[u] <= epoch'[u]) /\ w.epoch <= epoch'[t]
  /\ clk' = clk /\ sclk' = sclk /\ carried' = carried

Recorded(t, w, alive) ==
  /\ hist' \in Seq(Accesses) /\ Made' = Made \union {w.id} /\ w.id \notin Made
  /\ \A i \in Made : hist'[i] = hist[i] /\ i < w.id
  /\ hist'[w.id] = [word |-> w, knew |-> seen[t], alive |-> alive]
  /\ seen' \in [Tids -> SUBSET (Nat \ {0})]

(* What was recorded is not changed by what is recorded later.                 *)
LEMMA SRecord ==
  ASSUME NEW k, SInv(k), NEW t \in Tids, NEW w \in Words, NEW alive \in BOOLEAN,
         Records(t, w, alive)
  PROVE  Recorded(t, w, alive) /\ SHistory'
<1> DEFINE r == [word |-> w, knew |-> seen[t], alive |-> alive]
<1>0. /\ w.id = Len(hist) + 1 /\ w.tid = t /\ ~w.freed
      /\ hist' = Append(hist, r)
      /\ seen' = [seen EXCEPT ![t] = @ \union {w.id}]
      /\ epoch' \in [Tids -> Nat] /\ (\A u \in Tids : epoch[u] <= epoch'[u]) /\ w.epoch <= epoch'[t]
      /\ clk' = clk /\ sclk' = sclk /\ carried' = carried
  BY DEF Records
<1>1. r \in Accesses
  BY DEF Accesses, SInv, STyped
<1>2. /\ hist' \in Seq(Accesses) /\ Made' = Made \union {w.id} /\ w.id \notin Made
      /\ \A i \in Made : hist'[i] = hist[i] /\ hist[i] \in Accesses
      /\ hist'[w.id] = r
  BY <1>0, <1>1, SAppend DEF SInv, STyped
<1>3. \A i \in Made : i \in Nat /\ i < w.id
  BY <1>0 DEF Made, SInv, STyped
<1>4. seen' \in [Tids -> SUBSET (Nat \ {0})]
  BY <1>0 DEF SInv, STyped, Words
<1>5. r.word = w /\ r.knew = seen[t]
  OBVIOUS
<1> HIDE DEF r
<1>6. SHistory'
  <2>1. ASSUME NEW i \in Made'
        PROVE  /\ hist'[i].word.id = i /\ ~hist'[i].word.freed
               /\ hist'[i].word.epoch <= epoch'[hist'[i].word.tid]
               /\ hist'[i].knew \subseteq seen'[hist'[i].word.tid]
               /\ \A j \in hist'[i].knew : j < i
    <3>1. CASE i = w.id
      <4>1. hist'[i].word = w /\ hist'[i].knew = seen[t]
        BY <1>2, <1>5, <3>1
      <4>2. seen[t] \subseteq Made /\ seen[t] \subseteq seen'[t]
        BY <1>0 DEF SInv, SHistory, STyped
      <4>3. hist'[i].word.id = i /\ hist'[i].word.tid = t /\ hist'[i].word.epoch = w.epoch
        BY <1>0, <3>1, <4>1
      <4>4. ~hist'[i].word.freed
        BY <1>0, <4>1, Zenon
      <4>5. hist'[i].knew \subseteq seen'[t] /\ \A j \in hist'[i].knew : j < i
        BY <1>3, <3>1, <4>1, <4>2
      <4> QED  BY <1>0, <4>3, <4>4, <4>5
    <3>2. CASE i \in Made
      <4>1. hist'[i] = hist[i] /\ hist[i].word.tid \in Tids /\ hist[i].word.epoch \in Nat
        BY <1>2, <3>2 DEF Accesses, Words
      <4>2. /\ hist[i].word.id = i /\ ~hist[i].word.freed
            /\ hist[i].word.epoch <= epoch[hist[i].word.tid]
            /\ hist[i].knew \subseteq seen[hist[i].word.tid]
            /\ \A j \in hist[i].knew : j < i
        BY <3>2 DEF SInv, SHistory
      <4>3. \A u \in Tids : seen[u] \subseteq seen'[u] /\ epoch[u] \in Nat /\ epoch'[u] \in Nat
        BY <1>0 DEF SInv, STyped
      <4>4. hist[i].word.epoch <= epoch'[hist[i].word.tid]
        BY <1>0, <4>1, <4>2, <4>3
      <4>5. hist[i].knew \subseteq seen'[hist[i].word.tid]
        BY <1>0, <4>1, <4>2, <4>3
      <4>6. ~hist'[i].word.freed
        BY <4>1, <4>2, Zenon
      <4> QED  BY <4>1, <4>2, <4>4, <4>5, <4>6
    <3> QED  BY <1>2, <3>1, <3>2
  <2>2. ASSUME NEW u \in Tids, NEW i \in seen'[u]
        PROVE  i \in Made' /\ (hist'[i].word.tid # u => hist'[i].word.epoch <= clk'[u][hist'[i].word.tid])
    <3>1. CASE i \in seen[u]
      <4>1. i \in Made /\ (hist[i].word.tid # u => hist[i].word.epoch <= clk[u][hist[i].word.tid])
        BY <3>1 DEF SInv, SHistory
      <4>2. hist'[i] = hist[i] /\ i \in Made' /\ clk' = clk
        BY <1>0, <1>2, <4>1
      <4> QED  BY <4>1, <4>2
    <3>2. CASE i \notin seen[u]
      <4>1. u = t /\ i = w.id
        BY <1>0, <2>2, <3>2 DEF SInv, STyped
      <4>2. hist'[i].word = w
        BY <1>2, <1>5, <4>1
      <4> QED  BY <1>0, <1>2, <4>1, <4>2
    <3> QED  BY <3>1, <3>2
  <2>3. ASSUME NEW s \in Syncs, NEW i \in carried'[s]
        PROVE  i \in Made' /\ hist'[i].word.epoch <= sclk'[s][hist'[i].word.tid]
    BY <1>0, <1>2, <2>3 DEF SInv, SHistory
  <2> QED  BY <2>1, <2>2, <2>3 DEF SHistory
<1> QED  BY <1>2, <1>3, <1>4, <1>6 DEF r, Recorded

(* The history only grows.                                                     *)
Grows == Made \subseteq Made' /\ \A i \in Made : hist'[i] = hist[i]

(* What was reported stays what it was while the history grows.                *)
LEMMA SKeepsReports ==
  ASSUME NEW k, SReports(k), Grows, reports' = reports
  PROVE  SReports(k)'
<1> SUFFICES ASSUME NEW q \in reports
             PROVE  /\ q[1] \in Made' /\ q[2] \in Made'
                    /\ \/ Shadow(k)!Conflict(q[1], q[2])' /\ Shadow(k)!Unordered(q[1], q[2])'
                       \/ ~hist'[q[1]].alive
  BY DEF SReports
<1>1. /\ q[1] \in Made /\ q[2] \in Made
      /\ \/ Shadow(k)!Conflict(q[1], q[2]) /\ Shadow(k)!Unordered(q[1], q[2])
         \/ ~hist[q[1]].alive
  BY DEF SReports
<1>2. hist'[q[1]] = hist[q[1]] /\ hist'[q[2]] = hist[q[2]]
  BY <1>1 DEF Grows
<1>3. Shadow(k)!Conflict(q[1], q[2]) => Shadow(k)!Conflict(q[1], q[2])'
  BY <1>2 DEF Shadow!Conflict, Shadow!Intersect
<1>4. Shadow(k)!Unordered(q[1], q[2]) => Shadow(k)!Unordered(q[1], q[2])'
  BY <1>2 DEF Shadow!Unordered
<1>5. q[1] \in Made' /\ q[2] \in Made'
  BY <1>1 DEF Grows
<1>6. ~hist[q[1]].alive => ~hist'[q[1]].alive
  BY <1>2
<1> QED  BY <1>1, <1>3, <1>4, <1>5, <1>6

(* The accesses of the history are typed, and nobody has seen others.          *)
LEMMA SMade ==
  ASSUME NEW k, SInv(k), NEW i \in Made
  PROVE  /\ i \in Nat \ {0} /\ hist[i] \in Accesses /\ hist[i].word \in Words /\ hist[i].word.tid \in Tids
         /\ hist[i].word.epoch \in Nat
         /\ hist[i].knew \subseteq Made /\ hist[i].knew \subseteq seen[hist[i].word.tid]
         /\ \A t \in Tids : seen[t] \subseteq Made
         /\ \A s \in Syncs : carried[s] \subseteq Made
<1>1. hist \in Seq(Accesses)
  BY DEF SInv, STyped
<1>2. i \in 1 .. Len(hist) /\ Len(hist) \in Nat
  BY <1>1 DEF Made
<1>3. i \in Nat \ {0} /\ hist[i] \in Accesses
  BY <1>1, <1>2
<1>4. hist[i].word \in Words /\ hist[i].word.tid \in Tids /\ hist[i].word.epoch \in Nat
  BY <1>3 DEF Accesses, Words
<1>5. /\ hist[i].knew \subseteq seen[hist[i].word.tid]
      /\ \A t \in Tids : seen[t] \subseteq Made
      /\ \A s \in Syncs : carried[s] \subseteq Made
  BY DEF SInv, SHistory
<1> QED  BY <1>3, <1>4, <1>5

(* An access, a free or a malloc() begins, or finds itself in the cell.        *)
Begins(k, t, w, alive, o) ==
  /\ op[t] = Idle /\ Records(t, w, alive)
  /\ op' = [op EXCEPT ![t] = o]
  /\ o # Idle => /\ o.cur = w /\ o.pc \in {"load", "mark", "set"} /\ o.idx = 0
                 /\ o.pc # "load" => o.heap
                 /\ o.heap => /\ w.range = <<0, 8>> /\ w.write /\ ~w.atomic
                              /\ ~live' /\ \A u \in Tids : ~op[u].heap
  /\ live' \in BOOLEAN /\ (live' => live) /\ (alive => live \/ (o # Idle /\ o.pc = "set"))
  /\ shadow' = shadow /\ reports' = reports

LEMMA SBegin ==
  ASSUME NEW k, k.cnt \in Nat \ {0}, SInv(k), NEW t \in Tids, NEW w \in Words,
         NEW alive \in BOOLEAN, NEW o \in Ops(k) \union {Idle}, Begins(k, t, w, alive, o)
  PROVE  SInv(k)'
<1>h. /\ op[t] = Idle /\ Records(t, w, alive)
      /\ op' = [op EXCEPT ![t] = o]
      /\ o # Idle => /\ o.cur = w /\ o.pc \in {"load", "mark", "set"} /\ o.idx = 0
                     /\ o.pc # "load" => o.heap
                     /\ o.heap => /\ w.range = <<0, 8>> /\ w.write /\ ~w.atomic
                                  /\ ~live' /\ \A u \in Tids : ~op[u].heap
      /\ live' \in BOOLEAN /\ (live' => live) /\ (alive => live \/ (o # Idle /\ o.pc = "set"))
      /\ shadow' = shadow /\ reports' = reports
  BY DEF Begins
<1> USE <1>h
<1>0. Recorded(t, w, alive) /\ SHistory'
  BY SRecord
<1>1. /\ hist' \in Seq(Accesses) /\ Made' = Made \union {w.id} /\ w.id \notin Made
      /\ \A i \in Made : hist'[i] = hist[i] /\ i < w.id
      /\ hist'[w.id] = [word |-> w, knew |-> seen[t], alive |-> alive]
      /\ seen' \in [Tids -> SUBSET (Nat \ {0})]
      /\ SHistory' /\ SReports(k)'
      /\ \A x : Describes(x) => Describes(x)'
  <2>1. Grows
    BY <1>0 DEF Grows, Recorded
  <2>2. SReports(k)'
    BY <2>1, SKeepsReports DEF SInv
  <2>3. ASSUME NEW x, Describes(x) PROVE Describes(x)'
    BY <2>1, <2>3 DEF Describes, Grows
  <2> QED  BY <1>0, <2>2, <2>3 DEF Recorded
<1>r. /\ w.id = Len(hist) + 1 /\ w.tid = t /\ ~w.freed
      /\ seen' = [seen EXCEPT ![t] = @ \union {w.id}]
      /\ epoch' \in [Tids -> Nat]
      /\ clk' = clk /\ sclk' = sclk /\ carried' = carried
  BY DEF Records
<1>2. hist'[w.id].word = w /\ hist'[w.id].knew = seen[t] /\ hist'[w.id].alive = alive
  BY <1>1
<1>3. STyped(k)'
  <2>1. op' \in [Tids -> Ops(k) \union {Idle}]
    BY DEF SInv, STyped
  <2> QED  BY <1>1, <1>r, <2>1 DEF SInv, STyped
<1>4. /\ \A u \in Tids : u # t => op'[u] = op[u]
      /\ op'[t] = o
      /\ ~Busy(t)
  BY SOp DEF SInv, STyped
<1>5. o # Idle => Busy(t)' /\ o.pc # "idle"
  BY <1>4 DEF Ops, Busy, Idle
<1>6. o = Idle => ~Busy(t)'
  BY <1>4 DEF Busy, Idle
<1>7. \A u \in Tids : u # t => (Busy(u)' <=> Busy(u))
  BY <1>4 DEF Busy
<1>8. \A u \in Tids : Busy(u) => Describes(op[u].cur) /\ op[u].cur.id \in Made
  BY DEF SInv, SWords, Describes
<1>9. SWords(k)'
  <2>1. \A i \in 0 .. k.cnt - 1 : shadow[i] # ZeroWord => Describes(shadow[i])'
    BY <1>1 DEF SInv, SWords
  <2>2. ASSUME NEW u \in Tids, Busy(u)'
        PROVE  /\ Describes(op[u].cur)' /\ op'[u].cur.tid = u
               /\ op'[u].cur.freed => op'[u].pc = "set"
               /\ op'[u].pc \in {"mark", "set"} => op'[u].heap
               /\ op'[u].heap /\ op'[u].pc # "set" =>
                    op'[u].cur.range = <<0, 8>> /\ op'[u].cur.write /\ ~op'[u].cur.atomic
    <3>1. CASE u = t
      <4>1. o # Idle /\ op'[u] = o /\ op'[u].cur = w
        BY <1>4, <1>6, <2>2, <3>1
      <4>2. Describes(w)'
        BY <1>1, <1>2, <1>r DEF Describes
      <4> QED  BY <1>r, <3>1, <4>1, <4>2
    <3>2. CASE u # t
      <4>1. Busy(u) /\ op'[u] = op[u]
        BY <1>4, <1>7, <2>2, <3>2
      <4> QED  BY <1>1, <1>8, <4>1 DEF SInv, SWords
    <3> QED  BY <3>1, <3>2
  <2> QED  BY <2>1, <2>2 DEF SWords
<1>10. SAlone'
  <2>1. ASSUME NEW u \in Tids, Busy(u)'
        PROVE  /\ \A v \in Tids : v # u => op'[u].cur.id \notin seen'[v]
               /\ \A s \in Syncs : op'[u].cur.id \notin carried[s]
               /\ \A j \in Made' : op'[u].cur.id \notin hist'[j].knew /\ (j > op'[u].cur.id => hist'[j].word.tid # u)
    <3>1. \A v \in Tids : seen[v] \subseteq Made
      BY DEF SInv, SHistory
    <3>2. CASE u = t
      <4>1. op'[u].cur.id = w.id
        BY <1>4, <1>6, <2>1, <3>2
      <4>2. \A v \in Tids : v # u => seen'[v] = seen[v]
        BY <1>r, <3>2 DEF SInv, STyped
      <4>3. \A s \in Syncs : carried[s] \subseteq Made
        BY DEF SInv, SHistory
      <4>4. \A j \in Made' : w.id \notin hist'[j].knew /\ ~(j > w.id)
        <5>1. ASSUME NEW j \in Made PROVE w.id \notin hist'[j].knew /\ ~(j > w.id)
          <6>1. hist[j].knew \subseteq Made /\ j \in Nat
            BY SMade
          <6>2. hist'[j] = hist[j] /\ j < w.id /\ w.id \in Nat
            BY <1>1 DEF Words
          <6>3. ~(j > w.id)
            BY <6>1, <6>2
          <6>4. w.id \notin Made
            BY <1>1
          <6> QED  BY <6>1, <6>2, <6>3, <6>4
        <5>2. w.id \notin hist'[w.id].knew /\ ~(w.id > w.id)
          BY <1>1, <1>2, <3>1 DEF Words
        <5> QED  BY <1>1, <5>1, <5>2
      <4> QED  BY <1>1, <3>1, <4>1, <4>2, <4>3, <4>4
    <3>3. CASE u # t
      <4>1. Busy(u) /\ op'[u] = op[u]
        BY <1>4, <1>7, <2>1, <3>3
      <4>2. /\ \A v \in Tids : v # u => op[u].cur.id \notin seen[v]
            /\ \A s \in Syncs : op[u].cur.id \notin carried[s]
            /\ \A j \in Made : op[u].cur.id \notin hist[j].knew /\ (j > op[u].cur.id => hist[j].word.tid # u)
        BY <4>1 DEF SInv, SAlone
      <4>3. op[u].cur.id # w.id
        BY <1>1, <1>8, <4>1
      <4>4. \A v \in Tids : v # u => op[u].cur.id \notin seen'[v]
        BY <1>r, <4>2, <4>3 DEF SInv, STyped
      <4>5. \A j \in Made' : op[u].cur.id \notin hist'[j].knew /\ (j > op[u].cur.id => hist'[j].word.tid # u)
        <5>1. ASSUME NEW j \in Made
              PROVE  op[u].cur.id \notin hist'[j].knew /\ (j > op[u].cur.id => hist'[j].word.tid # u)
          BY <1>1, <4>2
        <5>2. op[u].cur.id \notin hist'[w.id].knew /\ hist'[w.id].word.tid # u
          BY <1>2, <1>r, <3>3, <4>2
        <5> QED  BY <1>1, <5>1, <5>2
      <4> QED  BY <4>1, <4>2, <4>4, <4>5
    <3> QED  BY <3>2, <3>3
  <2> QED  BY <1>r, <2>1 DEF SAlone
<1>11. SFreed(k)'
  <2>1. ASSUME NEW u \in Tids, Busy(u)', op'[u].heap
        PROVE  /\ ~live'
               /\ \A v \in Tids : Busy(v)' /\ op'[v].heap => v = u
               /\ (op'[u].pc # "set" \/ op'[u].cur.freed) => \A j \in Made' : j > op'[u].cur.id => ~hist'[j].alive
               /\ op'[u].pc = "set" /\ ~op'[u].cur.freed /\ op'[u].idx > 0 =>
                    (shadow[0] # ZeroWord => ~shadow[0].freed)
    <3>1. CASE u = t
      <4>1. o # Idle /\ op'[u] = o /\ o.cur = w /\ o.heap /\ o.idx = 0
        BY <1>4, <1>6, <2>1, <3>1
      <4>2. \A v \in Tids : Busy(v)' /\ op'[v].heap => v = u
        BY <1>4, <3>1, <4>1
      <4>3. \A j \in Made' : ~(j > w.id)
        BY <1>1 DEF Made, Words
      <4> QED  BY <4>1, <4>2, <4>3
    <3>2. CASE u # t
      <4>1. Busy(u) /\ op'[u] = op[u] /\ op[u].heap
        BY <1>4, <1>7, <2>1, <3>2
      <4>2. o # Idle => ~o.heap
        BY <4>1
      <4>3. /\ ~live
            /\ \A v \in Tids : Busy(v) /\ op[v].heap => v = u
            /\ (op[u].pc # "set" \/ op[u].cur.freed) => \A j \in Made : j > op[u].cur.id => ~hist[j].alive
            /\ op[u].pc = "set" /\ ~op[u].cur.freed /\ op[u].idx > 0 =>
                 (shadow[0] # ZeroWord => ~shadow[0].freed)
        BY <4>1 DEF SInv, SFreed
      <4>4. ~alive
        BY <4>2, <4>3
      <4>5. \A v \in Tids : Busy(v)' /\ op'[v].heap => v = u
        BY <1>4, <1>6, <1>7, <4>2, <4>3
      <4>6. ~hist'[w.id].alive
        BY <1>2, <4>4, Zenon
      <4> QED  BY <1>1, <4>1, <4>3, <4>5, <4>6
    <3> QED  BY <3>1, <3>2
  <2>2. ASSUME NEW i \in 0 .. k.cnt - 1, shadow[i] # ZeroWord /\ shadow[i].freed
        PROVE  i = 0 /\ Gone(shadow[i])'
    <3>1. i = 0 /\ Gone(shadow[i]) /\ shadow[i].id \in Made
      BY <2>2 DEF SInv, SFreed, SWords, Describes
    <3>2. ASSUME NEW j \in Made', j > shadow[i].id, hist'[j].alive
          PROVE  Remaking(j)'
      <4>1. CASE j \in Made
        <5>1. hist'[j] = hist[j]
          BY <1>1, <4>1
        <5>2. Remaking(j)
          BY <3>1, <3>2, <4>1, <5>1 DEF Gone
        <5>3. PICK u \in Tids : op[u].pc = "set" /\ ~op[u].cur.freed /\ op[u].cur.id = j
          BY <5>2 DEF Remaking
        <5>4. u # t
          BY <5>3 DEF Idle
        <5> QED  BY <1>4, <5>3, <5>4 DEF Remaking
      <4>2. CASE j = w.id
        <5>1. alive
          BY <1>2, <3>2, <4>2, Zenon
        <5>2. ~live
          BY <3>1 DEF Gone
        <5>3. o # Idle /\ o.pc = "set" /\ o.cur = w
          BY <5>1, <5>2
        <5> QED  BY <1>4, <1>r, <4>2, <5>3 DEF Remaking
      <4> QED  BY <1>1, <4>1, <4>2
    <3>3. ASSUME NEW u \in Tids, Busy(u)', op'[u].cur.id = shadow[i].id
          PROVE  op'[u].cur.freed
      <4>1. CASE u = t
        <5>1. op'[u].cur = w
          BY <1>4, <1>6, <3>3, <4>1
        <5> QED  BY <1>1, <3>1, <3>3, <5>1
      <4>2. CASE u # t
        BY <1>4, <1>7, <3>1, <3>3, <4>2 DEF Gone
      <4> QED  BY <4>1, <4>2
    <3>4. ~live'
      BY <3>1 DEF Gone
    <3>5. shadow' = shadow
      OBVIOUS
    <3> QED  BY <3>1, <3>2, <3>3, <3>4, <3>5 DEF Gone
  <2> QED  BY <2>1, <2>2 DEF SFreed
<1> QED  BY <1>1, <1>3, <1>9, <1>10, <1>11 DEF SInv

(* What no step of an access, a free or a malloc() in progress changes.        *)
Still == UNCHANGED <<clk, sclk, carried, hist, seen>>

(* The clocks keep their promises while only epochs advance.                   *)
LEMMA SStill ==
  ASSUME NEW k, SInv(k), Still,
         epoch' \in [Tids -> Nat], \A u \in Tids : epoch[u] <= epoch'[u]
  PROVE  SHistory' /\ Made' = Made /\ Grows /\ (\A x : Describes(x)' <=> Describes(x))
<1>1. /\ clk' = clk /\ sclk' = sclk /\ carried' = carried /\ hist' = hist /\ seen' = seen
      /\ Made' = Made
  BY DEF Still, Made
<1>2. SHistory'
  <2>1. ASSUME NEW i \in Made PROVE hist[i].word.epoch <= epoch'[hist[i].word.tid]
    <3>1. hist[i].word.tid \in Tids /\ hist[i].word.epoch \in Nat
      BY SMade
    <3>2. hist[i].word.epoch <= epoch[hist[i].word.tid]
      BY DEF SInv, SHistory
    <3>3. \A u \in Tids : epoch[u] \in Nat /\ epoch'[u] \in Nat
      BY DEF SInv, STyped
    <3> QED  BY <3>1, <3>2, <3>3
  <2> QED  BY <1>1, <2>1 DEF SInv, SHistory
<1>3. \A x : Describes(x)' <=> Describes(x)
  BY <1>1 DEF Describes
<1> QED  BY <1>1, <1>2, <1>3 DEF Grows

(* Nobody learned of anything and whoever was busy is about the same access.   *)
LEMMA SStillAlone ==
  ASSUME NEW k, SInv(k), Still, Made' = Made, NEW t \in Tids, Busy(t),
         \A u \in Tids : u # t => op'[u] = op[u],
         Busy(t)' => op'[t].cur.id = op[t].cur.id
  PROVE  SAlone'
<1> SUFFICES ASSUME NEW u \in Tids, Busy(u)'
             PROVE  /\ \A v \in Tids : v # u => op'[u].cur.id \notin seen'[v]
                    /\ \A s \in Syncs : op'[u].cur.id \notin carried'[s]
                    /\ \A j \in Made' : op'[u].cur.id \notin hist'[j].knew
                                        /\ (j > op'[u].cur.id => hist'[j].word.tid # u)
  BY DEF SAlone
<1>1. Busy(u) /\ op'[u].cur.id = op[u].cur.id
  BY DEF Busy
<1>2. clk' = clk /\ sclk' = sclk /\ carried' = carried /\ hist' = hist /\ seen' = seen
  BY DEF Still
<1> QED  BY <1>1, <1>2 DEF SInv, SAlone

(* A step of the scan of an access: a load, a store or the last store.         *)
LEMMA SMove ==
  ASSUME NEW k, k.cnt \in Nat \ {0}, SInv(k), NEW t \in Tids, Busy(t), op[t].pc # "set",
         NEW o \in Ops(k) \union {Idle}, op' = [op EXCEPT ![t] = o],
         o # Idle => /\ o.cur = op[t].cur /\ (o.heap <=> op[t].heap) /\ o.pc # "set"
                     /\ o.pc = "mark" => o.heap,
         NEW i \in 0 .. k.cnt - 1, NEW z \in {shadow[i], ZeroWord, op[t].cur},
         shadow' = [shadow EXCEPT ![i] = z],
         Still, UNCHANGED <<epoch, live>>, SReports(k)'
  PROVE  SInv(k)'
<1>0. epoch' = epoch /\ live' = live /\ hist' = hist /\ \A u \in Tids : epoch[u] <= epoch'[u]
  BY DEF Still, SInv, STyped
<1>1. SHistory' /\ Made' = Made /\ (\A x : Describes(x)' <=> Describes(x))
  BY <1>0, SStill DEF SInv, STyped
<1>2. /\ \A u \in Tids : u # t => op'[u] = op[u]
      /\ op'[t] = o
      /\ op[t] \in Ops(k)
  BY SOp DEF SInv, STyped
<1>3. \A u \in Tids : Busy(u)' => Busy(u)
  BY <1>2 DEF Busy
<1>4. Busy(t)' => o # Idle
  BY <1>2 DEF Busy, Idle
<1>5. op[t].cur \in Words /\ op[t].cur.id \in Made /\ Describes(op[t].cur)
  BY <1>2 DEF Ops, SInv, SWords, Describes
<1>6. ~op[t].cur.freed
  BY DEF SInv, SWords
<1>7. z \in Words \union {ZeroWord}
  BY <1>5 DEF SInv, STyped
<1>8. z # ZeroWord => Describes(z)
  BY <1>5 DEF SInv, SWords
<1>9. \A m \in 0 .. k.cnt - 1 : shadow'[m] \in {shadow[m], ZeroWord, op[t].cur}
  BY DEF SInv, STyped
<1>10. STyped(k)'
  <2>1. op' \in [Tids -> Ops(k) \union {Idle}]
    BY DEF SInv, STyped
  <2>2. shadow' \in [0 .. k.cnt - 1 -> Words \union {ZeroWord}]
    BY <1>7 DEF SInv, STyped
  <2> QED  BY <1>0, <2>1, <2>2 DEF SInv, STyped, Still
<1>11. SWords(k)'
  <2>1. \A m \in 0 .. k.cnt - 1 : shadow'[m] # ZeroWord => Describes(shadow[m])'
    BY <1>1, <1>5, <1>9 DEF SInv, SWords
  <2>2. ASSUME NEW u \in Tids, Busy(u)'
        PROVE  /\ Describes(op[u].cur)' /\ op'[u].cur.tid = u
               /\ op'[u].cur.freed => op'[u].pc = "set"
               /\ op'[u].pc \in {"mark", "set"} => op'[u].heap
               /\ op'[u].heap /\ op'[u].pc # "set" =>
                    op'[u].cur.range = <<0, 8>> /\ op'[u].cur.write /\ ~op'[u].cur.atomic
    <3>1. CASE u = t
      <4>1. o # Idle /\ op'[u] = o /\ o.cur = op[t].cur
        BY <1>2, <1>4, <2>2, <3>1
      <4>2. Describes(o.cur)'
        BY <1>1, <1>5, <4>1
      <4>3. op[t].cur.tid = t /\ (op[t].heap =>
              op[t].cur.range = <<0, 8>> /\ op[t].cur.write /\ ~op[t].cur.atomic)
        BY DEF SInv, SWords
      <4>4. ~o.cur.freed
        BY <1>6, <4>1, Zenon
      <4>5. o.pc \in {"mark", "set"} => o.heap
        BY <4>1
      <4>6. o.heap => op[t].heap
        BY <4>1
      <4> QED  BY <3>1, <4>1, <4>2, <4>3, <4>4, <4>5, <4>6
    <3>2. CASE u # t
      <4>1. Busy(u) /\ op'[u] = op[u]
        BY <1>2, <1>3, <2>2, <3>2
      <4> QED  BY <1>1, <4>1 DEF SInv, SWords
    <3> QED  BY <3>1, <3>2
  <2> QED  BY <2>1, <2>2 DEF SWords
<1>12. SAlone'
  <2>1. Busy(t)' => op'[t].cur.id = op[t].cur.id
    BY <1>2, <1>4
  <2> QED  BY <1>1, <1>2, <2>1, SStillAlone
<1>13. \A u \in Tids : Busy(u)' => op'[u].cur = op[u].cur /\ (op'[u].heap <=> op[u].heap)
  BY <1>2, <1>4
<1>14. \A u \in Tids : Busy(u)' /\ op'[u].pc = "set" => u # t /\ op'[u] = op[u]
  BY <1>2, <1>4
<1>15. SFreed(k)'
  <2>1. ASSUME NEW u \in Tids, Busy(u)', op'[u].heap
        PROVE  /\ ~live'
               /\ \A v \in Tids : Busy(v)' /\ op'[v].heap => v = u
               /\ (op'[u].pc # "set" \/ op'[u].cur.freed) => \A j \in Made' : j > op'[u].cur.id => ~hist'[j].alive
               /\ op'[u].pc = "set" /\ ~op'[u].cur.freed /\ op'[u].idx > 0 =>
                    (shadow'[0] # ZeroWord => ~shadow'[0].freed)
    <3>1. Busy(u) /\ op[u].heap /\ op'[u].cur = op[u].cur
      BY <1>3, <1>13, <2>1
    <3>2. /\ ~live
          /\ \A v \in Tids : Busy(v) /\ op[v].heap => v = u
          /\ (op[u].pc # "set" \/ op[u].cur.freed) => \A j \in Made : j > op[u].cur.id => ~hist[j].alive
          /\ op[u].pc = "set" /\ ~op[u].cur.freed /\ op[u].idx > 0 =>
                (shadow[0] # ZeroWord => ~shadow[0].freed)
      BY <3>1 DEF SInv, SFreed
    <3>3. \A v \in Tids : Busy(v)' /\ op'[v].heap => v = u
      BY <1>3, <1>13, <3>2
    <3>4. op'[u].pc # "set" => op[u].pc # "set"
      BY <1>2
    <3>5. (op'[u].pc # "set" \/ op'[u].cur.freed) => \A j \in Made' : j > op'[u].cur.id => ~hist'[j].alive
      BY <1>0, <1>1, <3>1, <3>2, <3>4
    <3>6. ASSUME op'[u].pc = "set", ~op'[u].cur.freed, op'[u].idx > 0, shadow'[0] # ZeroWord
          PROVE  ~shadow'[0].freed
      <4>1. op'[u] = op[u]
        BY <1>14, <2>1, <3>6
      <4>2. shadow[0] # ZeroWord => ~shadow[0].freed
        BY <3>2, <3>6, <4>1
      <4>3. shadow'[0] \in {shadow[0], op[t].cur}
        BY <1>9, <3>6
      <4>4. CASE shadow'[0] = shadow[0]
        BY <3>6, <4>2, <4>4, Zenon
      <4>5. CASE shadow'[0] = op[t].cur
        BY <1>6, <4>5, Zenon
      <4> QED  BY <4>3, <4>4, <4>5
    <3> QED  BY <1>0, <3>2, <3>3, <3>5, <3>6
  <2>2. ASSUME NEW m \in 0 .. k.cnt - 1, shadow'[m] # ZeroWord /\ shadow'[m].freed
        PROVE  m = 0 /\ Gone(shadow[m])'
    <3>1. shadow'[m] = shadow[m]
      <4>1. shadow'[m] # op[t].cur
        BY <1>6, <2>2, Zenon
      <4> QED  BY <1>9, <2>2, <4>1
    <3>2. shadow[m] # ZeroWord /\ shadow[m].freed
      BY <2>2, <3>1, Zenon
    <3>3. m = 0 /\ Gone(shadow[m])
      BY <3>2 DEF SInv, SFreed
    <3>4. ASSUME NEW j \in Made', j > shadow[m].id, hist'[j].alive
          PROVE  Remaking(j)'
      <4>1. Remaking(j)
        BY <1>0, <1>1, <3>3, <3>4 DEF Gone
      <4>2. PICK u \in Tids : op[u].pc = "set" /\ ~op[u].cur.freed /\ op[u].cur.id = j
        BY <4>1 DEF Remaking
      <4>3. u # t
        BY <4>2
      <4> QED  BY <1>2, <4>2, <4>3 DEF Remaking
    <3>5. ASSUME NEW u \in Tids, Busy(u)', op'[u].cur.id = shadow[m].id
          PROVE  op'[u].cur.freed
      BY <1>3, <1>13, <3>3, <3>5 DEF Gone
    <3>6. ~live'
      BY <1>0, <3>3 DEF Gone
    <3> QED  BY <3>1, <3>3, <3>4, <3>5, <3>6 DEF Gone
  <2> QED  BY <2>1, <2>2 DEF SFreed
<1> QED  BY <1>1, <1>10, <1>11, <1>12, <1>15 DEF SInv

(* The thread that frees the memory begins to mark the cell.                   *)
LEMMA SMark ==
  ASSUME NEW k, k.cnt \in Nat \ {0}, SInv(k), NEW t \in Tids, Shadow(k)!Mark(t)
  PROVE  SInv(k)'
<1> DEFINE w == [op[t].cur EXCEPT !.epoch = epoch[t] + 1, !.freed = TRUE]
           o == [op[t] EXCEPT !.pc = "set", !.idx = 0, !.cur = w]
<1>1. /\ op[t].pc = "mark" /\ op' = [op EXCEPT ![t] = o]
      /\ epoch' = [epoch EXCEPT ![t] = @ + 1]
      /\ sclk' = sclk /\ clk' = clk /\ carried' = carried /\ hist' = hist /\ seen' = seen
      /\ shadow' = shadow /\ live' = live /\ reports' = reports
  BY DEF Shadow!Mark
<1>2. /\ Busy(t) /\ op[t] \in Ops(k) /\ op[t].cur \in Words /\ op[t].heap
  BY <1>1, SOp DEF Busy, Ops, SInv, SWords
<1>3. /\ op[t].cur.range = <<0, 8>> /\ op[t].cur.write /\ ~op[t].cur.atomic
      /\ ~op[t].cur.freed /\ Describes(op[t].cur) /\ op[t].cur.tid = t
  BY <1>1, <1>2 DEF SInv, SWords
<1>4. epoch' \in [Tids -> Nat] /\ \A u \in Tids : epoch[u] <= epoch'[u]
  BY <1>1 DEF SInv, STyped
<1>5. SHistory' /\ Made' = Made /\ (\A x : Describes(x)' <=> Describes(x)) /\ Grows
  BY <1>1, <1>4, SStill DEF Still
<1>6. w \in Words /\ w.freed /\ w.tid = t /\ w.id = op[t].cur.id
  <2>1. epoch[t] + 1 \in Nat
    BY DEF SInv, STyped
  <2> QED  BY <1>2, <1>3, <2>1 DEF Words
<1>8. Describes(w)
  BY <1>3, <1>6 DEF Describes
<1> HIDE DEF w
<1>7. o \in Ops(k) /\ o.pc = "set" /\ o.idx = 0 /\ o.cur = w /\ o.heap
  <2> DEFINE a == [op[t] EXCEPT !.pc = "set"]
             b == [a EXCEPT !.idx = 0]
             c == [b EXCEPT !.cur = w]
  <2>1. a \in Ops(k) /\ a.pc = "set" /\ (a.heap <=> op[t].heap)
    BY <1>2 DEF Ops
  <2>2. o = c
    OBVIOUS
  <2> HIDE DEF a
  <2>3. b \in Ops(k) /\ b.pc = "set" /\ b.idx = 0 /\ (b.heap <=> op[t].heap)
    BY <2>1 DEF Ops
  <2> HIDE DEF b
  <2>4. c \in Ops(k) /\ c.pc = "set" /\ c.idx = 0 /\ c.cur = w /\ (c.heap <=> op[t].heap)
    BY <1>6, <2>3 DEF Ops
  <2> HIDE DEF c, o
  <2> QED  BY <1>2, <2>2, <2>4
<1> HIDE DEF o
<1>9. op'[t] = o /\ (\A u \in Tids : u # t => op'[u] = op[u]) /\ op' \in [Tids -> Ops(k) \union {Idle}]
  BY <1>1, <1>7 DEF SInv, STyped
<1>10. \A u \in Tids : Busy(u)' <=> Busy(u)
  BY <1>2, <1>7, <1>9 DEF Busy
<1>11. STyped(k)'
  BY <1>1, <1>4, <1>9 DEF SInv, STyped
<1>12. SWords(k)'
  <2>1. \A m \in 0 .. k.cnt - 1 : shadow'[m] # ZeroWord => Describes(shadow[m])'
    BY <1>1, <1>5 DEF SInv, SWords
  <2>2. ASSUME NEW u \in Tids, Busy(u)'
        PROVE  /\ Describes(op[u].cur)' /\ op'[u].cur.tid = u
               /\ op'[u].cur.freed => op'[u].pc = "set"
               /\ op'[u].pc \in {"mark", "set"} => op'[u].heap
               /\ op'[u].heap /\ op'[u].pc # "set" =>
                    op'[u].cur.range = <<0, 8>> /\ op'[u].cur.write /\ ~op'[u].cur.atomic
    <3>1. CASE u = t
      BY <1>5, <1>6, <1>7, <1>8, <1>9, <3>1
    <3>2. CASE u # t
      <4>1. Busy(u) /\ op'[u] = op[u]
        BY <1>9, <1>10, <2>2, <3>2
      <4> QED  BY <1>5, <4>1 DEF SInv, SWords
    <3> QED  BY <3>1, <3>2
  <2> QED  BY <2>1, <2>2 DEF SWords
<1>13. SAlone'
  <2>1. Still
    BY <1>1 DEF Still
  <2>2. op'[t].cur.id = op[t].cur.id
    BY <1>6, <1>7, <1>9
  <2> QED  BY <1>2, <1>5, <1>9, <2>1, <2>2, SStillAlone
<1>14. SFreed(k)'
  <2>1. ASSUME NEW u \in Tids, Busy(u)', op'[u].heap
        PROVE  /\ ~live'
               /\ \A v \in Tids : Busy(v)' /\ op'[v].heap => v = u
               /\ (op'[u].pc # "set" \/ op'[u].cur.freed) => \A j \in Made' : j > op'[u].cur.id => ~hist'[j].alive
               /\ op'[u].pc = "set" /\ ~op'[u].cur.freed /\ op'[u].idx > 0 =>
                    (shadow'[0] # ZeroWord => ~shadow'[0].freed)
    <3>1. Busy(u) /\ op[u].heap
      BY <1>2, <1>9, <1>10, <2>1
    <3>2. u = t
      BY <1>2, <3>1 DEF SInv, SFreed
    <3>3. ~live /\ \A j \in Made : j > op[t].cur.id => ~hist[j].alive
      BY <1>1, <1>2 DEF SInv, SFreed
    <3>4. \A v \in Tids : Busy(v) /\ op[v].heap => v = t
      BY <1>2 DEF SInv, SFreed
    <3>5. \A v \in Tids : Busy(v)' /\ op'[v].heap => v = t
      BY <1>9, <1>10, <3>4
    <3> QED  BY <1>1, <1>5, <1>6, <1>7, <1>9, <3>2, <3>3, <3>5
  <2>2. ASSUME NEW m \in 0 .. k.cnt - 1, shadow'[m] # ZeroWord /\ shadow'[m].freed
        PROVE  m = 0 /\ Gone(shadow[m])'
    <3>1. m = 0 /\ Gone(shadow[m])
      BY <1>1, <2>2 DEF SInv, SFreed
    <3>2. ASSUME NEW j \in Made', j > shadow[m].id, hist'[j].alive
          PROVE  Remaking(j)'
      <4>1. Remaking(j)
        BY <1>1, <1>5, <3>1, <3>2 DEF Gone
      <4>2. PICK u \in Tids : op[u].pc = "set" /\ ~op[u].cur.freed /\ op[u].cur.id = j
        BY <4>1 DEF Remaking
      <4>3. u # t
        BY <1>1, <4>2
      <4> QED  BY <1>9, <4>2, <4>3 DEF Remaking
    <3>3. ASSUME NEW u \in Tids, Busy(u)', op'[u].cur.id = shadow[m].id
          PROVE  op'[u].cur.freed
      <4>1. CASE u = t
        BY <1>6, <1>7, <1>9, <4>1
      <4>2. CASE u # t
        BY <1>9, <1>10, <3>1, <3>3, <4>2 DEF Gone
      <4> QED  BY <4>1, <4>2
    <3>4. ~live'
      BY <1>1, <3>1 DEF Gone
    <3> QED  BY <1>1, <3>1, <3>2, <3>3, <3>4 DEF Gone
  <2> QED  BY <2>1, <2>2 DEF SFreed
<1>15. SReports(k)'
  BY <1>1, <1>5, SKeepsReports DEF SInv
<1> QED  BY <1>5, <1>11, <1>12, <1>13, <1>14, <1>15 DEF SInv

(* One store of MemoryRangeSet; the last one ends the free or the malloc().    *)
LEMMA SSet ==
  ASSUME NEW k, k.cnt \in Nat \ {0}, SInv(k), NEW t \in Tids, Shadow(k)!Set(t)
  PROVE  SInv(k)'
<1> DEFINE i == op[t].idx
           last == i + 1 = k.cnt
           z == IF i = 0 THEN op[t].cur ELSE ZeroWord
           o == IF last THEN Idle ELSE [op[t] EXCEPT !.idx = i + 1]
<1>1. /\ op[t].pc = "set" /\ op' = [op EXCEPT ![t] = o]
      /\ shadow' = [shadow EXCEPT ![i] = z]
      /\ live' = (last /\ ~op[t].cur.freed)
      /\ sclk' = sclk /\ clk' = clk /\ carried' = carried /\ hist' = hist /\ seen' = seen
      /\ epoch' = epoch /\ reports' = reports
  BY DEF Shadow!Set, Shadow!clocks, Shadow!Idle, Idle, Shadow!ZeroWord, ZeroWord
<1>2. /\ Busy(t) /\ op[t] \in Ops(k) /\ op[t].cur \in Words /\ op[t].heap /\ i \in 0 .. k.cnt - 1
  BY <1>1, SOp DEF Busy, Ops, SInv, SWords
<1>3. Describes(op[t].cur) /\ op[t].cur.tid = t
  BY <1>2 DEF SInv, SWords
<1>4. \A u \in Tids : epoch[u] <= epoch'[u] /\ epoch' \in [Tids -> Nat]
  BY <1>1 DEF SInv, STyped
<1>5. SHistory' /\ Made' = Made /\ (\A x : Describes(x)' <=> Describes(x)) /\ Grows
  <2>1. epoch' \in [Tids -> Nat] /\ \A u \in Tids : epoch[u] <= epoch'[u]
    BY <1>1 DEF SInv, STyped
  <2> QED  BY <1>1, <2>1, SStill DEF Still
<1>6. o \in Ops(k) \union {Idle} /\ (o # Idle => /\ o.pc = "set" /\ o.idx = i + 1 /\ o.cur = op[t].cur
                                                 /\ o.heap /\ ~last)
  <2>1. CASE last
    BY <2>1
  <2>2. CASE ~last
    <3>1. i + 1 \in 0 .. k.cnt - 1
      BY <1>2, <2>2
    <3> QED  BY <1>1, <1>2, <2>2, <3>1 DEF Ops
  <2> QED  BY <2>1, <2>2
<1>7. z \in Words \union {ZeroWord} /\ (z # ZeroWord => i = 0 /\ z = op[t].cur)
  BY <1>2
<1>8. live' => last /\ ~op[t].cur.freed
  BY <1>1
<1>9. live' \in BOOLEAN
  BY <1>1, Zenon
<1> HIDE DEF z, o, last
<1>10. op'[t] = o /\ (\A u \in Tids : u # t => op'[u] = op[u]) /\ op' \in [Tids -> Ops(k) \union {Idle}]
  BY <1>1, <1>6 DEF SInv, STyped
<1>11. \A u \in Tids : Busy(u)' => Busy(u)
  BY <1>2, <1>10 DEF Busy
<1>12. Busy(t)' => o # Idle
  BY <1>10 DEF Busy, Idle
<1>13. /\ shadow'[i] = z /\ \A m \in 0 .. k.cnt - 1 : m # i => shadow'[m] = shadow[m]
       /\ shadow' \in [0 .. k.cnt - 1 -> Words \union {ZeroWord}]
  BY <1>1, <1>2, <1>7 DEF SInv, STyped
<1>14. STyped(k)'
  BY <1>1, <1>9, <1>10, <1>13 DEF SInv, STyped
<1>15. SWords(k)'
  <2>1. ASSUME NEW m \in 0 .. k.cnt - 1, shadow'[m] # ZeroWord
        PROVE  Describes(shadow[m])'
    <3>1. CASE m = i
      BY <1>3, <1>5, <1>7, <1>13, <2>1, <3>1
    <3>2. CASE m # i
      BY <1>5, <1>13, <2>1, <3>2 DEF SInv, SWords
    <3> QED  BY <3>1, <3>2
  <2>2. ASSUME NEW u \in Tids, Busy(u)'
        PROVE  /\ Describes(op[u].cur)' /\ op'[u].cur.tid = u
               /\ op'[u].cur.freed => op'[u].pc = "set"
               /\ op'[u].pc \in {"mark", "set"} => op'[u].heap
               /\ op'[u].heap /\ op'[u].pc # "set" =>
                    op'[u].cur.range = <<0, 8>> /\ op'[u].cur.write /\ ~op'[u].cur.atomic
    <3>1. CASE u = t
      BY <1>3, <1>5, <1>6, <1>10, <1>12, <2>2, <3>1
    <3>2. CASE u # t
      <4>1. Busy(u) /\ op'[u] = op[u]
        BY <1>10, <1>11, <2>2, <3>2
      <4> QED  BY <1>5, <4>1 DEF SInv, SWords
    <3> QED  BY <3>1, <3>2
  <2> QED  BY <2>1, <2>2 DEF SWords
<1>16. SAlone'
  <2>1. Still
    BY <1>1 DEF Still
  <2>2. Busy(t)' => op'[t].cur.id = op[t].cur.id
    BY <1>6, <1>10, <1>12
  <2> QED  BY <1>2, <1>5, <1>10, <2>1, <2>2, SStillAlone
<1>17. \A v \in Tids : Busy(v) /\ op[v].heap => v = t
  BY <1>2 DEF SInv, SFreed
<1>18. /\ op[t].cur.freed => \A j \in Made : j > op[t].cur.id => ~hist[j].alive
       /\ ~op[t].cur.freed /\ i > 0 => (shadow[0] # ZeroWord => ~shadow[0].freed)
  BY <1>1, <1>2 DEF SInv, SFreed
<1>19. SFreed(k)'
  <2>1. ASSUME NEW u \in Tids, Busy(u)', op'[u].heap
        PROVE  /\ ~live'
               /\ \A v \in Tids : Busy(v)' /\ op'[v].heap => v = u
               /\ (op'[u].pc # "set" \/ op'[u].cur.freed) => \A j \in Made' : j > op'[u].cur.id => ~hist'[j].alive
               /\ op'[u].pc = "set" /\ ~op'[u].cur.freed /\ op'[u].idx > 0 =>
                    (shadow'[0] # ZeroWord => ~shadow'[0].freed)
    <3>1. u = t
      <4>1. CASE u # t
        BY <1>10, <1>11, <1>17, <2>1, <4>1
      <4> QED  BY <4>1
    <3>2. o # Idle /\ op'[u] = o
      BY <1>10, <1>12, <2>1, <3>1
    <3>3. ~live'
      BY <1>6, <1>8, <3>2
    <3>4. \A v \in Tids : Busy(v)' /\ op'[v].heap => v = u
      BY <1>10, <1>11, <1>17, <3>1
    <3>5. (op'[u].pc # "set" \/ op'[u].cur.freed) => \A j \in Made' : j > op'[u].cur.id => ~hist'[j].alive
      BY <1>1, <1>5, <1>6, <1>18, <3>2
    <3>6. ASSUME ~op'[u].cur.freed, shadow'[0] # ZeroWord
          PROVE  ~shadow'[0].freed
      <4>1. ~op[t].cur.freed
        BY <1>6, <3>2, <3>6, Zenon
      <4>2. CASE i = 0
        <5>1. shadow'[0] = op[t].cur
          BY <1>7, <1>13, <3>6, <4>2
        <5> QED  BY <4>1, <5>1, Zenon
      <4>3. CASE i # 0
        <5>1. shadow'[0] = shadow[0] /\ i > 0
          BY <1>2, <1>13, <4>3
        <5>2. ~shadow[0].freed
          BY <1>18, <3>6, <4>1, <5>1
        <5> QED  BY <5>1, <5>2, Zenon
      <4> QED  BY <4>2, <4>3
    <3> QED  BY <3>3, <3>4, <3>5, <3>6
  <2>2. ASSUME NEW m \in 0 .. k.cnt - 1, shadow'[m] # ZeroWord /\ shadow'[m].freed
        PROVE  m = 0 /\ Gone(shadow[m])'
    <3>1. CASE m = i
      <4>1. i = 0 /\ m = 0 /\ shadow'[m] = op[t].cur
        BY <1>7, <1>13, <2>2, <3>1
      <4>2. op[t].cur.freed
        BY <2>2, <4>1, Zenon
      <4>3. ~live'
        BY <1>8, <4>2
      <4>4. \A j \in Made' : j > op[t].cur.id => ~hist'[j].alive
        BY <1>1, <1>5, <1>18, <4>2
      <4>5. ASSUME NEW u \in Tids, Busy(u)', op'[u].cur.id = op[t].cur.id
            PROVE  op'[u].cur.freed
        <5>1. Busy(u) /\ op[u].cur.id = op[t].cur.id
          BY <1>6, <1>10, <1>11, <1>12, <4>5
        <5>2. u = t
          BY <1>3, <5>1 DEF SInv, SWords, Describes
        <5>3. op'[u].cur = op[t].cur
          BY <1>6, <1>10, <1>12, <4>5, <5>2
        <5> QED  BY <4>2, <5>3, Zenon
      <4> QED  BY <4>1, <4>3, <4>4, <4>5 DEF Gone
    <3>2. CASE m # i
      <4>1. shadow'[m] = shadow[m]
        BY <1>13, <3>2
      <4>2. shadow[m] # ZeroWord /\ shadow[m].freed
        BY <2>2, <4>1, Zenon
      <4>3. m = 0 /\ Gone(shadow[m]) /\ i > 0
        BY <1>2, <3>2, <4>2 DEF SInv, SFreed
      <4>4. op[t].cur.freed
        BY <1>18, <4>2, <4>3
      <4>5. ~live'
        BY <1>8, <4>4
      <4>6. ASSUME NEW j \in Made', j > shadow[m].id, hist'[j].alive
            PROVE  FALSE
        <5>1. Remaking(j)
          BY <1>1, <1>5, <4>3, <4>6 DEF Gone
        <5>2. PICK u \in Tids : op[u].pc = "set" /\ ~op[u].cur.freed /\ op[u].cur.id = j
          BY <5>1 DEF Remaking
        <5>3. Busy(u) /\ op[u].heap
          BY <5>2 DEF Busy, SInv, SWords
        <5>4. u = t
          BY <1>17, <5>3
        <5> QED  BY <4>4, <5>2, <5>4
      <4>7. ASSUME NEW u \in Tids, Busy(u)', op'[u].cur.id = shadow[m].id
            PROVE  op'[u].cur.freed
        <5>1. Busy(u) /\ op'[u].cur = op[u].cur
          BY <1>6, <1>10, <1>11, <1>12, <4>7
        <5>2. op[u].cur.freed
          BY <4>3, <4>7, <5>1 DEF Gone
        <5> QED  BY <5>1, <5>2, Zenon
      <4> QED  BY <4>1, <4>3, <4>5, <4>6, <4>7 DEF Gone
    <3> QED  BY <3>1, <3>2
  <2> QED  BY <2>1, <2>2 DEF SFreed
<1>20. SReports(k)'
  BY <1>1, <1>5, SKeepsReports DEF SInv
<1> QED  BY <1>5, <1>14, <1>15, <1>16, <1>19, <1>20 DEF SInv

(* A thread between two accesses learns what was released to an object.        *)
LEMMA SAcquire ==
  ASSUME NEW k, k.cnt \in Nat \ {0}, SInv(k), NEW t \in Tids, NEW s \in Syncs, Shadow(k)!Acquire(t, s)
  PROVE  SInv(k)'
<1> DEFINE from == [clk[t] EXCEPT ![t] = epoch[t]]
           now == [u \in Tids |-> IF from[u] >= sclk[s][u] THEN from[u] ELSE sclk[s][u]]
<1>1. /\ op[t] = Idle /\ clk' = [clk EXCEPT ![t] = now]
      /\ seen' = [seen EXCEPT ![t] = @ \union carried[s]]
      /\ sclk' = sclk /\ carried' = carried /\ hist' = hist /\ epoch' = epoch
      /\ shadow' = shadow /\ live' = live /\ reports' = reports /\ op' = op
  BY DEF Shadow!Acquire, Shadow!MayStart, Shadow!Idle, Idle, Shadow!Join
<1>2. /\ now \in [Tids -> Nat] /\ (\A u \in Tids : now[u] >= sclk[s][u])
      /\ \A u \in Tids : u # t => now[u] >= clk[t][u]
  <2>1. from \in [Tids -> Nat] /\ sclk[s] \in [Tids -> Nat] /\ clk[t] \in [Tids -> Nat]
    BY DEF SInv, STyped
  <2>2. \A u \in Tids : u # t => from[u] = clk[t][u]
    BY <2>1
  <2> HIDE DEF from
  <2>3. now \in [Tids -> Nat]
    BY <2>1
  <2> QED  BY <2>1, <2>2, <2>3
<1> HIDE DEF now
<1>3. /\ clk' \in [Tids -> [Tids -> Nat]] /\ clk'[t] = now /\ (\A u \in Tids : u # t => clk'[u] = clk[u])
      /\ seen' \in [Tids -> SUBSET (Nat \ {0})] /\ seen'[t] = seen[t] \union carried[s]
      /\ \A u \in Tids : u # t => seen'[u] = seen[u]
  BY <1>1, <1>2 DEF SInv, STyped
<1>4. Made' = Made /\ (\A x : Describes(x)' <=> Describes(x)) /\ Grows
  BY <1>1 DEF Made, Describes, Grows
<1>5. STyped(k)'
  BY <1>1, <1>3 DEF SInv, STyped
<1>6. SWords(k)' /\ SFreed(k)' /\ SReports(k)'
  <2>1. SWords(k)'
    BY <1>1, <1>4 DEF SInv, SWords, Busy
  <2>2. \A x : Gone(x) => Gone(x)'
    BY <1>1, <1>4 DEF Gone, Busy, Remaking
  <2>3. SFreed(k)'
    BY <1>1, <1>4, <2>2 DEF SInv, SFreed, Busy
  <2> QED  BY <1>1, <1>4, <2>1, <2>3, SKeepsReports DEF SInv
<1>7. SHistory'
  <2>1. ASSUME NEW i \in Made PROVE hist[i].knew \subseteq seen'[hist[i].word.tid]
    <3>1. hist[i].knew \subseteq seen[hist[i].word.tid] /\ hist[i].word.tid \in Tids
      BY SMade
    <3>2. \A u \in Tids : seen[u] \subseteq seen'[u]
      BY <1>3
    <3> QED  BY <3>1, <3>2
  <2>2. ASSUME NEW u \in Tids, NEW i \in seen'[u]
        PROVE  i \in Made /\ (hist[i].word.tid # u => hist[i].word.epoch <= clk'[u][hist[i].word.tid])
    <3>1. CASE u # t
      BY <1>3, <2>2, <3>1 DEF SInv, SHistory
    <3>2. CASE u = t /\ i \in carried[s]
      <4>1. i \in Made /\ hist[i].word.epoch <= sclk[s][hist[i].word.tid]
        BY <3>2 DEF SInv, SHistory
      <4>2. hist[i].word.tid \in Tids /\ hist[i].word.epoch \in Nat
        BY <4>1, SMade
      <4>3. sclk[s][hist[i].word.tid] \in Nat /\ now[hist[i].word.tid] \in Nat
        <5>1. sclk[s] \in [Tids -> Nat] /\ clk[t] \in [Tids -> Nat]
          BY DEF SInv, STyped
        <5> QED  BY <1>2, <4>2, <5>1
      <4> QED  BY <1>2, <1>3, <3>2, <4>1, <4>2, <4>3
    <3>3. CASE u = t /\ i \in seen[t]
      <4>1. i \in Made /\ (hist[i].word.tid # t => hist[i].word.epoch <= clk[t][hist[i].word.tid])
        BY <3>3 DEF SInv, SHistory
      <4>2. hist[i].word.tid \in Tids /\ hist[i].word.epoch \in Nat
        BY <4>1, SMade
      <4>3. clk[t][hist[i].word.tid] \in Nat /\ now[hist[i].word.tid] \in Nat
        <5>1. sclk[s] \in [Tids -> Nat] /\ clk[t] \in [Tids -> Nat]
          BY DEF SInv, STyped
        <5> QED  BY <1>2, <4>2, <5>1
      <4> QED  BY <1>2, <1>3, <3>3, <4>1, <4>2, <4>3
    <3> QED  BY <1>3, <2>2, <3>1, <3>2, <3>3
  <2> QED  BY <1>1, <1>4, <2>1, <2>2 DEF SInv, SHistory
<1>8. SAlone'
  <2> SUFFICES ASSUME NEW u \in Tids, Busy(u)'
               PROVE  /\ \A v \in Tids : v # u => op'[u].cur.id \notin seen'[v]
                      /\ \A x \in Syncs : op'[u].cur.id \notin carried'[x]
                      /\ \A j \in Made' : op'[u].cur.id \notin hist'[j].knew
                                          /\ (j > op'[u].cur.id => hist'[j].word.tid # u)
    BY DEF SAlone
  <2>1. Busy(u) /\ u # t
    BY <1>1 DEF Busy, Idle
  <2>2. /\ \A v \in Tids : v # u => op[u].cur.id \notin seen[v]
        /\ \A x \in Syncs : op[u].cur.id \notin carried[x]
        /\ \A j \in Made : op[u].cur.id \notin hist[j].knew /\ (j > op[u].cur.id => hist[j].word.tid # u)
    BY <2>1 DEF SInv, SAlone
  <2>3. \A v \in Tids : v # u => op[u].cur.id \notin seen'[v]
    BY <1>3, <2>2
  <2> QED  BY <1>1, <1>4, <2>2, <2>3
<1> QED  BY <1>5, <1>6, <1>7, <1>8 DEF SInv

(* A thread between two accesses releases what it knows.                       *)
LEMMA SRelease ==
  ASSUME NEW k, k.cnt \in Nat \ {0}, SInv(k), NEW t \in Tids, NEW s \in Syncs, Shadow(k)!Release(t, s)
  PROVE  SInv(k)'
<1> DEFINE now == [clk[t] EXCEPT ![t] = epoch[t] + 1]
           to == [u \in Tids |-> IF sclk[s][u] >= now[u] THEN sclk[s][u] ELSE now[u]]
<1>1. /\ op[t] = Idle /\ clk' = [clk EXCEPT ![t] = now]
      /\ epoch' = [epoch EXCEPT ![t] = epoch[t] + 1]
      /\ carried' = [carried EXCEPT ![s] = @ \union seen[t]]
      /\ sclk' = [sclk EXCEPT ![s] = to] /\ hist' = hist /\ seen' = seen
      /\ shadow' = shadow /\ live' = live /\ reports' = reports /\ op' = op
  BY DEF Shadow!Release, Shadow!MayStart, Shadow!Idle, Idle, Shadow!Join
<1>2. /\ now \in [Tids -> Nat] /\ now[t] = epoch[t] + 1 /\ (\A u \in Tids : u # t => now[u] = clk[t][u])
      /\ epoch[t] \in Nat
  BY DEF SInv, STyped
<1> HIDE DEF now
<1>3. /\ to \in [Tids -> Nat] /\ \A u \in Tids : to[u] >= now[u] /\ to[u] >= sclk[s][u]
  <2>1. sclk[s] \in [Tids -> Nat]
    BY DEF SInv, STyped
  <2>2. to \in [Tids -> Nat]
    BY <1>2, <2>1
  <2> QED  BY <1>2, <2>1, <2>2
<1> HIDE DEF to
<1>4. /\ clk' \in [Tids -> [Tids -> Nat]] /\ clk'[t] = now /\ (\A u \in Tids : u # t => clk'[u] = clk[u])
      /\ sclk' \in [Syncs -> [Tids -> Nat]] /\ sclk'[s] = to /\ (\A x \in Syncs : x # s => sclk'[x] = sclk[x])
      /\ carried' \in [Syncs -> SUBSET (Nat \ {0})] /\ carried'[s] = carried[s] \union seen[t]
      /\ \A x \in Syncs : x # s => carried'[x] = carried[x]
  BY <1>1, <1>2, <1>3 DEF SInv, STyped
<1>5. epoch' \in [Tids -> Nat] /\ \A u \in Tids : epoch[u] <= epoch'[u]
  BY <1>1 DEF SInv, STyped
<1>6. Made' = Made /\ (\A x : Describes(x)' <=> Describes(x)) /\ Grows
  BY <1>1 DEF Made, Describes, Grows
<1>7. STyped(k)'
  BY <1>1, <1>4, <1>5 DEF SInv, STyped
<1>8. SWords(k)' /\ SFreed(k)' /\ SReports(k)'
  <2>1. SWords(k)'
    BY <1>1, <1>6 DEF SInv, SWords, Busy
  <2>2. \A x : Gone(x) => Gone(x)'
    BY <1>1, <1>6 DEF Gone, Busy, Remaking
  <2>3. SFreed(k)'
    BY <1>1, <1>6, <2>2 DEF SInv, SFreed, Busy
  <2> QED  BY <1>1, <1>6, <2>1, <2>3, SKeepsReports DEF SInv
<1>9. SHistory'
  <2>1. ASSUME NEW i \in Made PROVE hist[i].word.epoch <= epoch'[hist[i].word.tid]
    <3>1. hist[i].word.tid \in Tids /\ hist[i].word.epoch \in Nat
      BY SMade
    <3>2. hist[i].word.epoch <= epoch[hist[i].word.tid]
      BY DEF SInv, SHistory
    <3>3. \A u \in Tids : epoch[u] \in Nat /\ epoch'[u] \in Nat
      BY <1>5 DEF SInv, STyped
    <3> QED  BY <1>5, <3>1, <3>2, <3>3
  <2>2. ASSUME NEW u \in Tids, NEW i \in seen[u]
        PROVE  i \in Made /\ (hist[i].word.tid # u => hist[i].word.epoch <= clk'[u][hist[i].word.tid])
    <3>1. i \in Made /\ (hist[i].word.tid # u => hist[i].word.epoch <= clk[u][hist[i].word.tid])
      BY DEF SInv, SHistory
    <3>2. hist[i].word.tid \in Tids
      BY <3>1, SMade
    <3> QED  BY <1>2, <1>4, <3>1, <3>2
  <2>3. ASSUME NEW x \in Syncs, NEW i \in carried'[x]
        PROVE  i \in Made /\ hist[i].word.epoch <= sclk'[x][hist[i].word.tid]
    <3>1. CASE i \in carried[x]
      <4>1. i \in Made /\ hist[i].word.epoch <= sclk[x][hist[i].word.tid]
        BY <3>1 DEF SInv, SHistory
      <4>2. hist[i].word.tid \in Tids /\ hist[i].word.epoch \in Nat
        BY <4>1, SMade
      <4>3. sclk[x][hist[i].word.tid] \in Nat /\ sclk'[x][hist[i].word.tid] \in Nat
        <5>1. sclk[x] \in [Tids -> Nat] /\ sclk'[x] \in [Tids -> Nat]
          BY <1>4 DEF SInv, STyped
        <5> QED  BY <4>2, <5>1
      <4>4. sclk'[x][hist[i].word.tid] >= sclk[x][hist[i].word.tid]
        BY <1>3, <1>4, <4>2, <4>3
      <4> QED  BY <4>1, <4>2, <4>3, <4>4
    <3>2. CASE i \notin carried[x]
      <4>1. x = s /\ i \in seen[t]
        BY <1>4, <2>3, <3>2
      <4>2. i \in Made /\ (hist[i].word.tid # t => hist[i].word.epoch <= clk[t][hist[i].word.tid])
        BY <4>1 DEF SInv, SHistory
      <4>3. hist[i].word.tid \in Tids /\ hist[i].word.epoch \in Nat
        BY <4>2, SMade
      <4>4. hist[i].word.epoch <= epoch[hist[i].word.tid] /\ epoch[t] \in Nat
        BY <1>2, <4>2 DEF SInv, SHistory
      <4>5. hist[i].word.epoch <= now[hist[i].word.tid]
        BY <1>2, <4>2, <4>3, <4>4
      <4>6. now[hist[i].word.tid] \in Nat /\ to[hist[i].word.tid] \in Nat
        BY <1>2, <1>3, <4>3
      <4> QED  BY <1>3, <1>4, <4>1, <4>2, <4>3, <4>5, <4>6
    <3> QED  BY <3>1, <3>2
  <2> QED  BY <1>1, <1>6, <2>1, <2>2, <2>3 DEF SInv, SHistory
<1>10. SAlone'
  <2> SUFFICES ASSUME NEW u \in Tids, Busy(u)'
               PROVE  /\ \A v \in Tids : v # u => op'[u].cur.id \notin seen'[v]
                      /\ \A x \in Syncs : op'[u].cur.id \notin carried'[x]
                      /\ \A j \in Made' : op'[u].cur.id \notin hist'[j].knew
                                          /\ (j > op'[u].cur.id => hist'[j].word.tid # u)
    BY DEF SAlone
  <2>1. Busy(u) /\ u # t
    BY <1>1 DEF Busy, Idle
  <2>2. /\ \A v \in Tids : v # u => op[u].cur.id \notin seen[v]
        /\ \A x \in Syncs : op[u].cur.id \notin carried[x]
        /\ \A j \in Made : op[u].cur.id \notin hist[j].knew /\ (j > op[u].cur.id => hist[j].word.tid # u)
    BY <2>1 DEF SInv, SAlone
  <2>3. \A x \in Syncs : op[u].cur.id \notin carried'[x]
    BY <1>4, <2>1, <2>2
  <2> QED  BY <1>1, <1>6, <2>2, <2>3
<1> QED  BY <1>7, <1>8, <1>9, <1>10 DEF SInv

(* The words the actions make.                                                 *)
WordIs(w, t, e, range, write, atomic) ==
  /\ w \in Words /\ w.id = Len(hist) + 1 /\ w.tid = t /\ w.epoch = e /\ w.range = range
  /\ ~w.freed /\ (write => w.write) /\ (~atomic => ~w.atomic)

(* A word is what its maker says.                                              *)
LEMMA SWord ==
  ASSUME NEW k, SInv(k), NEW t \in Tids, NEW e \in Nat, NEW range \in Granule,
         NEW write \in BOOLEAN, NEW atomic \in BOOLEAN
  PROVE  WordIs(Shadow(k)!Word(t, e, range, write, atomic, FALSE), t, e, range, write, atomic)
<1> DEFINE n == Len(hist) + 1
           w == [tid |-> t, epoch |-> e, range |-> range, write |-> write, atomic |-> atomic,
                 freed |-> FALSE, id |-> n]
<1>1. n \in Nat \ {0}
  BY DEF SInv, STyped
<1>2. Shadow(k)!Word(t, e, range, write, atomic, FALSE) = w
  BY DEF Shadow!Word
<1> HIDE DEF n
<1>3. w \in Words
  BY <1>1 DEF Words
<1>4. w.id = n /\ w.tid = t /\ w.epoch = e /\ w.range = range
  OBVIOUS
<1>5. ~w.freed /\ (write => w.write) /\ (~atomic => ~w.atomic)
  BY Zenon
<1> HIDE DEF w
<1> QED  BY <1>2, <1>3, <1>4, <1>5 DEF WordIs, n

(* A free is of the whole granule.                                             *)
LEMMA SWhole == <<0, 8>> \in Granule
  BY DEF Granule

(* An access that is in the cell already.                                      *)
LEMMA SSame ==
  ASSUME NEW k, k.cnt \in Nat \ {0}, k.ranges \subseteq Granule, SInv(k), NEW t \in Tids,
         Shadow(k)!Same(t)
  PROVE  SInv(k)'
<1>1. /\ op[t] = Idle /\ op' = op /\ epoch' = epoch /\ live' = live
      /\ clk' = clk /\ sclk' = sclk /\ carried' = carried /\ shadow' = shadow /\ reports' = reports
  BY DEF Shadow!Same, Shadow!MayStart, Shadow!clocks, Shadow!Idle, Idle
<1>2. PICK range \in k.ranges, write \in BOOLEAN, atomic \in BOOLEAN :
        Shadow(k)!Record(Shadow(k)!Word(t, epoch[t], range, write, atomic, FALSE), live)
  BY DEF Shadow!Same
<1> DEFINE w == Shadow(k)!Word(t, epoch[t], range, write, atomic, FALSE)
<1>3. epoch[t] \in Nat /\ range \in Granule /\ live \in BOOLEAN
  BY DEF SInv, STyped
<1>a. WordIs(w, t, epoch[t], range, write, atomic)
  BY <1>3, SWord
<1> HIDE DEF w
<1>4. /\ w \in Words /\ w.id = Len(hist) + 1 /\ w.tid = t /\ ~w.freed /\ w.epoch = epoch[t]
  BY <1>a DEF WordIs
<1>5. /\ hist' = Append(hist, [word |-> w, knew |-> seen[w.tid], alive |-> live])
      /\ seen' = [seen EXCEPT ![w.tid] = @ \union {w.id}]
  BY <1>2 DEF Shadow!Record, w
<1>6. epoch' \in [Tids -> Nat] /\ (\A u \in Tids : epoch[u] <= epoch'[u]) /\ w.epoch <= epoch'[t]
  BY <1>1, <1>3, <1>4 DEF SInv, STyped
<1>7. Records(t, w, live)
  BY <1>1, <1>4, <1>5, <1>6 DEF Records
<1>8. op' = [op EXCEPT ![t] = Idle]
  BY <1>1 DEF SInv, STyped
<1>9. Begins(k, t, w, live, Idle)
  BY <1>1, <1>3, <1>7, <1>8 DEF Begins
<1> QED  BY <1>3, <1>4, <1>9, SBegin

(* What the three actions that begin something have in common.                 *)
Starts(t, w, alive) ==
  /\ op[t] = Idle
  /\ hist' = Append(hist, [word |-> w, knew |-> seen[w.tid], alive |-> alive])
  /\ seen' = [seen EXCEPT ![w.tid] = @ \union {w.id}]
  /\ epoch' = [epoch EXCEPT ![t] = @ + 1]
  /\ clk' = clk /\ sclk' = sclk /\ carried' = carried

(* The access of a thread that was idle enters the history.                    *)
LEMMA SStart ==
  ASSUME NEW k, SInv(k), NEW t \in Tids, NEW w, NEW alive, NEW range, NEW write, NEW atomic,
         WordIs(w, t, epoch[t] + 1, range, write, atomic), Starts(t, w, alive)
  PROVE  Records(t, w, alive)
<1>1. /\ w \in Words /\ w.id = Len(hist) + 1 /\ w.tid = t /\ ~w.freed /\ w.epoch = epoch[t] + 1
  BY DEF WordIs
<1>2. epoch' \in [Tids -> Nat] /\ (\A u \in Tids : epoch[u] <= epoch'[u]) /\ w.epoch <= epoch'[t]
  BY <1>1 DEF SInv, STyped, Starts
<1> QED  BY <1>1, <1>2 DEF Records, Starts

(* An access that has to scan the cell.                                        *)
LEMMA SAccess ==
  ASSUME NEW k, k.cnt \in Nat \ {0}, k.ranges \subseteq Granule, SInv(k), NEW t \in Tids,
         Shadow(k)!MemoryAccess(t)
  PROVE  SInv(k)'
<1>1. /\ op[t] = Idle /\ epoch' = [epoch EXCEPT ![t] = @ + 1] /\ live' = live
      /\ clk' = clk /\ sclk' = sclk /\ carried' = carried /\ shadow' = shadow /\ reports' = reports
  BY DEF Shadow!MemoryAccess, Shadow!MayStart, Shadow!Idle, Idle
<1>2. PICK range \in k.ranges, write \in BOOLEAN, atomic \in BOOLEAN :
        LET cur == Shadow(k)!Word(t, epoch[t] + 1, range, write, atomic, FALSE)
        IN  /\ Shadow(k)!Record(cur, live)
            /\ op' = [op EXCEPT ![t] = [pc |-> "load", cur |-> cur, idx |-> 0,
                                        stored |-> FALSE, heap |-> FALSE]]
  BY DEF Shadow!MemoryAccess
<1> DEFINE w == Shadow(k)!Word(t, epoch[t] + 1, range, write, atomic, FALSE)
           o == [pc |-> "load", cur |-> w, idx |-> 0, stored |-> FALSE, heap |-> FALSE]
<1>3. range \in Granule /\ live \in BOOLEAN
  BY DEF SInv, STyped
<1>4. Shadow(k)!Record(w, live) /\ op' = [op EXCEPT ![t] = o]
  BY <1>2
<1>a. epoch[t] + 1 \in Nat
  BY DEF SInv, STyped
<1>b. WordIs(w, t, epoch[t] + 1, range, write, atomic)
  BY <1>3, <1>a, SWord
<1> HIDE DEF w
<1>c. Starts(t, w, live)
  BY <1>1, <1>4 DEF Shadow!Record, Starts
<1>5. Records(t, w, live) /\ w \in Words
  BY <1>b, <1>c, SStart DEF WordIs
<1>6. o \in Ops(k) /\ o.cur = w /\ o.pc = "load" /\ o.idx = 0
  BY <1>5 DEF Ops
<1>7. ~o.heap
  BY Zenon
<1> HIDE DEF o
<1>8. live' \in BOOLEAN /\ (live' => live)
  BY <1>1, <1>3
<1>9. Begins(k, t, w, live, o)
  BY <1>1, <1>3, <1>4, <1>5, <1>6, <1>7, <1>8 DEF Begins
<1> QED  BY <1>3, <1>5, <1>6, <1>9, SBegin

(* A free, and a malloc() of freed memory.                                     *)
LEMMA SFree ==
  ASSUME NEW k, k.cnt \in Nat \ {0}, SInv(k), NEW t \in Tids,
         Shadow(k)!MemoryRangeFreed(t) \/ Shadow(k)!MemoryRangeImitateWrite(t)
  PROVE  SInv(k)'
<1> DEFINE w == Shadow(k)!Word(t, epoch[t] + 1, <<0, 8>>, TRUE, FALSE, FALSE)
<1>1. /\ op[t] = Idle /\ epoch' = [epoch EXCEPT ![t] = @ + 1]
      /\ clk' = clk /\ sclk' = sclk /\ carried' = carried /\ shadow' = shadow /\ reports' = reports
      /\ Shadow(k)!Record(w, TRUE)
  BY DEF Shadow!MemoryRangeFreed, Shadow!MemoryRangeImitateWrite, Shadow!MayStart, Shadow!Idle, Idle,
         Shadow!Whole
<1>2. live' = FALSE
  BY DEF Shadow!MemoryRangeFreed, Shadow!MemoryRangeImitateWrite, SInv, STyped
<1>3. \A u \in Tids : ~op[u].heap
  <2>1. CASE Shadow(k)!MemoryRangeFreed(t)
    <3>1. live
      BY <2>1 DEF Shadow!MemoryRangeFreed
    <3> QED  BY <3>1, SOp DEF SInv, SFreed
  <2>2. CASE Shadow(k)!MemoryRangeImitateWrite(t)
    BY <2>2 DEF Shadow!MemoryRangeImitateWrite
  <2> QED  BY <2>1, <2>2
<1>4. PICK pcs \in {"load", "mark", "set"}, stored \in BOOLEAN :
        /\ op' = [op EXCEPT ![t] = [pc |-> pcs, cur |-> w, idx |-> 0, stored |-> stored, heap |-> TRUE]]
        /\ pcs # "set" => live
  <2>1. CASE Shadow(k)!MemoryRangeFreed(t)
    <3>1. /\ live
          /\ op' = [op EXCEPT ![t] = [pc |-> IF Shadow(k)!ContainsSameAccess(w) THEN "mark" ELSE "load",
                                      cur |-> w, idx |-> 0, stored |-> FALSE, heap |-> TRUE]]
      BY <2>1 DEF Shadow!MemoryRangeFreed, Shadow!Whole
    <3> QED  BY <3>1
  <2>2. CASE Shadow(k)!MemoryRangeImitateWrite(t)
    BY <2>2 DEF Shadow!MemoryRangeImitateWrite, Shadow!Whole
  <2> QED  BY <2>1, <2>2
<1> DEFINE o == [pc |-> pcs, cur |-> w, idx |-> 0, stored |-> stored, heap |-> TRUE]
<1>a. epoch[t] + 1 \in Nat
  BY DEF SInv, STyped
<1>b. WordIs(w, t, epoch[t] + 1, <<0, 8>>, TRUE, FALSE)
  BY <1>a, SWhole, SWord
<1> HIDE DEF w
<1>c. Starts(t, w, TRUE)
  BY <1>1 DEF Shadow!Record, Starts
<1>5. Records(t, w, TRUE) /\ w \in Words /\ w.range = <<0, 8>> /\ w.write /\ ~w.atomic
  BY <1>b, <1>c, SStart DEF WordIs
<1>6. o \in Ops(k) /\ o.cur = w /\ o.pc = pcs /\ o.idx = 0
  BY <1>5 DEF Ops
<1>7. o.heap
  BY Zenon
<1>8. op' = [op EXCEPT ![t] = o]
  BY <1>4
<1> HIDE DEF o
<1>9. /\ o # Idle => /\ o.cur = w /\ o.pc \in {"load", "mark", "set"} /\ o.idx = 0
                     /\ o.pc # "load" => o.heap
                     /\ o.heap => /\ w.range = <<0, 8>> /\ w.write /\ ~w.atomic
                                  /\ ~live' /\ \A u \in Tids : ~op[u].heap
      /\ live' \in BOOLEAN /\ (live' => live)
  BY <1>2, <1>3, <1>5, <1>6, <1>7
<1>10. TRUE => live \/ (o # Idle /\ o.pc = "set")
  BY <1>4, <1>6 DEF Idle
<1>11. Begins(k, t, w, TRUE, o)
  BY <1>1, <1>5, <1>8, <1>9, <1>10 DEF Begins
<1> QED  BY <1>5, <1>6, <1>11, SBegin

(* Where a scan goes on from a word.                                           *)
Onward(k, o, x) ==
  /\ x \in Ops(k) \union {Idle}
  /\ x # Idle => /\ x.cur = o.cur /\ (x.heap <=> o.heap) /\ x.pc # "set"
                 /\ x.pc = "mark" => x.heap

(* The scan goes on with the same access.                                      *)
LEMMA SAfter ==
  ASSUME NEW k, k.cnt \in Nat \ {0}, NEW o \in Ops(k), o.pc # "set", o.pc # "mark"
  PROVE  /\ Onward(k, o, Shadow(k)!End(o))
         /\ Onward(k, o, Shadow(k)!AfterWord(o))
<1>1. Onward(k, o, Shadow(k)!End(o))
  <2>1. CASE o.heap
    <3> DEFINE x == [o EXCEPT !.pc = "mark"]
    <3>1. x \in Ops(k) /\ x.cur = o.cur /\ x.pc = "mark"
      BY DEF Ops
    <3>2. x.heap
      BY <2>1 DEF Ops
    <3>3. Shadow(k)!End(o) = x
      BY <2>1 DEF Shadow!End
    <3> HIDE DEF x
    <3> QED  BY <2>1, <3>1, <3>2, <3>3 DEF Onward
  <2>2. CASE ~o.heap
    BY <2>2 DEF Shadow!End, Shadow!Idle, Idle, Onward
  <2> QED  BY <2>1, <2>2
<1>2. CASE o.idx + 1 < k.cnt
  <2> DEFINE y == [o EXCEPT !.pc = "load"]
             x == [y EXCEPT !.idx = o.idx + 1]
  <2>1. Shadow(k)!AfterWord(o) = [o EXCEPT !.pc = "load", !.idx = o.idx + 1]
    BY <1>2 DEF Shadow!AfterWord
  <2>2. [o EXCEPT !.pc = "load", !.idx = o.idx + 1] = x
    OBVIOUS
  <2>3. y \in Ops(k) /\ y.cur = o.cur /\ (y.heap <=> o.heap) /\ y.pc = "load"
    BY DEF Ops
  <2> HIDE DEF y
  <2>4. o.idx + 1 \in 0 .. k.cnt - 1
    BY <1>2 DEF Ops
  <2>5. x \in Ops(k) /\ x.cur = o.cur /\ (x.heap <=> o.heap) /\ x.pc = "load"
    BY <2>3, <2>4 DEF Ops
  <2> HIDE DEF x
  <2> QED  BY <1>1, <2>1, <2>2, <2>5 DEF Onward
<1>3. CASE ~(o.idx + 1 < k.cnt) /\ ~o.stored
  <2> DEFINE x == [o EXCEPT !.pc = "evict"]
  <2>1. Shadow(k)!AfterWord(o) = x
    BY <1>3 DEF Shadow!AfterWord
  <2>2. x \in Ops(k) /\ x.cur = o.cur /\ (x.heap <=> o.heap) /\ x.pc = "evict"
    BY DEF Ops
  <2> HIDE DEF x
  <2> QED  BY <1>1, <2>1, <2>2 DEF Onward
<1>4. CASE ~(o.idx + 1 < k.cnt) /\ o.stored
  BY <1>1, <1>4 DEF Shadow!AfterWord
<1> QED  BY <1>1, <1>2, <1>3, <1>4

(* What a thread that is not idle is about.                                    *)
LEMMA SIndex ==
  ASSUME NEW k, k.cnt \in Nat \ {0}, SInv(k), NEW t \in Tids, op[t] # Idle
  PROVE  /\ Busy(t) /\ op[t] \in Ops(k) /\ op[t].cur \in Words /\ op[t].idx \in 0 .. k.cnt - 1
         /\ op[t].cur.id \in Made /\ op[t].cur.tid = t /\ Describes(op[t].cur)
<1>1. op[t] \in Ops(k) /\ Busy(t)
  BY SOp DEF SInv
<1> QED  BY <1>1 DEF Ops, SInv, SWords, Describes

(* A reported race: the word that was found is of an access of another thread  *)
(* that this one has not seen, or the memory was freed.                        *)
LEMMA SRace ==
  ASSUME NEW k, k.cnt \in Nat \ {0}, SInv(k), NEW t \in Tids, op[t].pc = "load",
         NEW old, old = shadow[op[t].idx],
         Shadow(k)!Verdict(old, op[t].cur, op[t].stored) = "race"
  PROVE  /\ old.id \in Made /\ op[t].cur.id \in Made
         /\ \/ Shadow(k)!Conflict(op[t].cur.id, old.id) /\ Shadow(k)!Unordered(op[t].cur.id, old.id)
            \/ ~hist[op[t].cur.id].alive
<1> DEFINE cur == op[t].cur
<1>1. /\ Busy(t) /\ op[t] \in Ops(k) /\ cur \in Words /\ op[t].idx \in 0 .. k.cnt - 1
      /\ cur.id \in Made /\ cur.tid = t /\ Describes(cur)
  BY SIndex DEF Idle
<1>2. /\ old # ZeroWord
      /\ Shadow(k)!Intersect(old.range, cur.range)
      /\ ~Shadow(k)!SameTid(old, cur) /\ ~Shadow(k)!HappensBefore(old, t)
      /\ ~Shadow(k)!Harmless(old, cur)
  BY <1>1 DEF Shadow!Verdict, Shadow!ZeroWord, ZeroWord
<1> HIDE DEF cur
<1>3. old \in Words /\ Describes(old) /\ old.id \in Made
  <2>1. old \in Words
    BY <1>1, <1>2 DEF SInv, STyped
  <2>2. Describes(old)
    BY <1>1, <1>2 DEF SInv, SWords
  <2> QED  BY <2>1, <2>2 DEF Describes
<1>4. ~cur.freed
  BY <1>1 DEF SInv, SWords, cur
<1>5. hist[cur.id].word = cur /\ cur.range \in Granule /\ old.range \in Granule
  BY <1>1, <1>3, <1>4 DEF Describes, Words
<1>6. /\ \A u \in Tids : u # t => cur.id \notin seen[u]
      /\ \A j \in Made : cur.id \notin hist[j].knew /\ (j > cur.id => hist[j].word.tid # t)
  BY <1>1 DEF SInv, SAlone, cur
<1>7. ~(cur.atomic /\ old.atomic) /\ (cur.write \/ old.write)
  BY <1>2 DEF Shadow!Harmless
<1>8. hist[cur.id].knew \subseteq seen[t] /\ \A j \in hist[cur.id].knew : j < cur.id
  BY <1>1, <1>5 DEF SInv, SHistory
<1>9. \A a, b \in Granule : Shadow(k)!Intersect(a, b) => Shadow(k)!Intersect(b, a)
  BY DEF Shadow!Intersect, Granule
<1>10. CASE ~old.freed
  <2>1. hist[old.id].word = old /\ old.tid \in Tids /\ old.epoch \in Nat
    BY <1>3, <1>10 DEF Describes, Words
  <2>2. old.tid # t
    <3>1. old.freed \in BOOLEAN /\ cur.freed \in BOOLEAN
      BY <1>1, <1>3 DEF Words
    <3>2. old.freed = cur.freed
      BY <1>4, <1>10, <3>1, Zenon
    <3> QED  BY <1>1, <1>2, <3>2 DEF Shadow!SameTid
  <2>3. ~(clk[t][old.tid] >= old.epoch)
    BY <1>2, <1>10 DEF Shadow!HappensBefore
  <2>4. clk[t][old.tid] \in Nat
    BY <2>1 DEF SInv, STyped
  <2>5. old.id \notin seen[t]
    BY <2>1, <2>2, <2>3, <2>4 DEF SInv, SHistory
  <2>6. Shadow(k)!Unordered(cur.id, old.id)
    BY <1>3, <1>6, <1>8, <2>5 DEF Shadow!Unordered
  <2>7. Shadow(k)!Conflict(cur.id, old.id)
    BY <1>1, <1>2, <1>5, <1>7, <1>9, <2>1, <2>2 DEF Shadow!Conflict
  <2> QED  BY <1>1, <1>3, <2>6, <2>7 DEF cur
<1>11. CASE old.freed /\ hist[cur.id].alive
  <2>1. Gone(old)
    BY <1>1, <1>2, <1>11 DEF SInv, SFreed
  <2>2. cur.id # old.id
    BY <1>1, <1>4, <2>1 DEF Gone, cur
  <2>3. cur.id \in Nat /\ old.id \in Nat
    BY <1>1, <1>3, SMade
  <2>4. ~(cur.id > old.id)
    <3> SUFFICES ASSUME cur.id > old.id PROVE FALSE
      OBVIOUS
    <3>1. Remaking(cur.id)
      BY <1>1, <1>11, <2>1 DEF Gone
    <3>2. PICK u \in Tids : op[u].pc = "set" /\ op[u].cur.id = cur.id
      BY <3>1 DEF Remaking
    <3>3. op[u].cur.tid = u /\ Describes(op[u].cur)
      BY <3>2 DEF SInv, SWords, Busy
    <3>4. u = t
      BY <1>1, <3>2, <3>3 DEF Describes
    <3> QED  BY <3>2, <3>4
  <2>5. old.id > cur.id
    BY <2>2, <2>3, <2>4
  <2>6. /\ hist[old.id].word.tid # t /\ hist[old.id].word.range = <<0, 8>>
        /\ hist[old.id].word.write /\ ~hist[old.id].word.atomic
    BY <1>3, <1>6, <1>11, <2>5 DEF Describes
  <2>7. Shadow(k)!Intersect(cur.range, <<0, 8>>)
    BY <1>5 DEF Granule, Shadow!Intersect
  <2>8. old.id \notin hist[cur.id].knew
    BY <1>8, <2>3, <2>5
  <2>9. Shadow(k)!Unordered(cur.id, old.id)
    BY <1>3, <1>6, <2>8 DEF Shadow!Unordered
  <2>10. Shadow(k)!Conflict(cur.id, old.id)
    BY <1>1, <1>5, <2>6, <2>7 DEF Shadow!Conflict
  <2> QED  BY <1>1, <1>3, <2>9, <2>10 DEF cur
<1>12. CASE old.freed /\ ~hist[cur.id].alive
  BY <1>1, <1>3, <1>12 DEF cur
<1> QED  BY <1>10, <1>11, <1>12

(* The look at one word, and the report.                                       *)
LEMMA SLoad ==
  ASSUME NEW k, k.cnt \in Nat \ {0}, SInv(k), NEW t \in Tids, Shadow(k)!Load(t)
  PROVE  SInv(k)'
<1> DEFINE o == op[t]
           old == shadow[o.idx]
           v == Shadow(k)!Verdict(old, o.cur, o.stored)
           x == CASE v = "leave" -> Shadow(k)!AfterWord(o)
                  [] v = "store" -> [o EXCEPT !.pc = "store"]
                  [] v = "race" -> Shadow(k)!End(o)
<1>1. /\ o.pc = "load" /\ op' = [op EXCEPT ![t] = x]
      /\ v = "race" => reports' = reports \union {<<o.cur.id, old.id>>}
      /\ v # "race" => reports' = reports
      /\ sclk' = sclk /\ clk' = clk /\ carried' = carried /\ hist' = hist /\ seen' = seen
      /\ epoch' = epoch /\ live' = live /\ shadow' = shadow
  BY DEF Shadow!Load, Shadow!clocks
<1>2. v \in {"leave", "store", "race"}
  BY DEF Shadow!Verdict
<1>3. o \in Ops(k) /\ Busy(t) /\ o.idx \in 0 .. k.cnt - 1
  BY <1>1, SIndex DEF Idle
<1>4. v = "race" => /\ old.id \in Made /\ o.cur.id \in Made
                    /\ \/ Shadow(k)!Conflict(o.cur.id, old.id) /\ Shadow(k)!Unordered(o.cur.id, old.id)
                       \/ ~hist[o.cur.id].alive
  BY <1>1, SRace
<1>5. Onward(k, o, x)
  <2>1. Onward(k, o, Shadow(k)!End(o)) /\ Onward(k, o, Shadow(k)!AfterWord(o))
    BY <1>1, <1>3, SAfter
  <2> DEFINE y == [o EXCEPT !.pc = "store"]
  <2>2. y \in Ops(k) /\ y.cur = o.cur /\ (y.heap <=> o.heap) /\ y.pc = "store"
    BY <1>3 DEF Ops
  <2> HIDE DEF y
  <2>3. Onward(k, o, y)
    BY <2>2 DEF Onward
  <2>4. x = Shadow(k)!End(o) \/ x = Shadow(k)!AfterWord(o) \/ x = y
    <3> HIDE DEF v
    <3> QED  BY <1>2 DEF y
  <2> QED  BY <2>1, <2>3, <2>4
<1> HIDE DEF x, v
<1>6. SReports(k)'
  <2>1. Grows /\ Made' = Made
    BY <1>1 DEF Grows, Made
  <2>2. CASE v # "race"
    BY <1>1, <2>1, <2>2, SKeepsReports DEF SInv
  <2>3. CASE v = "race"
    <3> DEFINE i == o.cur.id
               j == old.id
    <3>1. reports' = reports \union {<<i, j>>}
      BY <1>1, <2>3
    <3>2. /\ i \in Made /\ j \in Made
          /\ \/ Shadow(k)!Conflict(i, j) /\ Shadow(k)!Unordered(i, j)
             \/ ~hist[i].alive
      BY <1>4, <2>3
    <3> HIDE DEF i, j
    <3>3. \A r \in reports' : r \in reports \/ (r[1] = i /\ r[2] = j)
      BY <3>1
    <3> SUFFICES ASSUME NEW r \in reports'
                 PROVE  /\ r[1] \in Made' /\ r[2] \in Made'
                        /\ \/ Shadow(k)!Conflict(r[1], r[2])' /\ Shadow(k)!Unordered(r[1], r[2])'
                           \/ ~hist'[r[1]].alive
      BY DEF SReports
    <3>4. /\ r[1] \in Made /\ r[2] \in Made
          /\ \/ Shadow(k)!Conflict(r[1], r[2]) /\ Shadow(k)!Unordered(r[1], r[2])
             \/ ~hist[r[1]].alive
      BY <3>2, <3>3 DEF SInv, SReports
    <3>5. Shadow(k)!Conflict(r[1], r[2]) => Shadow(k)!Conflict(r[1], r[2])'
      BY <1>1 DEF Shadow!Conflict, Shadow!Intersect
    <3>6. Shadow(k)!Unordered(r[1], r[2]) => Shadow(k)!Unordered(r[1], r[2])'
      BY <1>1 DEF Shadow!Unordered
    <3> QED  BY <1>1, <2>1, <3>4, <3>5, <3>6
  <2> QED  BY <2>2, <2>3
<1>7. shadow' = [shadow EXCEPT ![0] = shadow[0]] /\ 0 \in 0 .. k.cnt - 1
  BY <1>1 DEF SInv, STyped
<1>8. Still
  BY <1>1 DEF Still
<1> QED  BY <1>1, <1>3, <1>5, <1>6, <1>7, <1>8, SMove DEF Onward

(* The store of the word, or of zero over a weaker one.                        *)
LEMMA SStore ==
  ASSUME NEW k, k.cnt \in Nat \ {0}, SInv(k), NEW t \in Tids, Shadow(k)!Store(t)
  PROVE  SInv(k)'
<1> DEFINE o == op[t]
           y == [o EXCEPT !.stored = TRUE]
           x == Shadow(k)!AfterWord(y)
           z == IF o.stored THEN ZeroWord ELSE o.cur
<1>1. /\ o.pc = "store" /\ op' = [op EXCEPT ![t] = x]
      /\ shadow' = [shadow EXCEPT ![o.idx] = z]
      /\ sclk' = sclk /\ clk' = clk /\ carried' = carried /\ hist' = hist /\ seen' = seen
      /\ epoch' = epoch /\ live' = live /\ reports' = reports
  BY DEF Shadow!Store, Shadow!clocks, Shadow!ZeroWord, ZeroWord
<1>2. o \in Ops(k) /\ Busy(t) /\ o.idx \in 0 .. k.cnt - 1
  BY <1>1, SIndex DEF Idle
<1>3. y \in Ops(k) /\ y.cur = o.cur /\ (y.heap <=> o.heap) /\ y.pc = "store"
  BY <1>1, <1>2 DEF Ops
<1> HIDE DEF y
<1>4. Onward(k, y, x)
  BY <1>3, SAfter
<1> HIDE DEF x
<1>5. Onward(k, o, x)
  BY <1>3, <1>4 DEF Onward
<1>6. z \in {shadow[o.idx], ZeroWord, op[t].cur}
  OBVIOUS
<1> HIDE DEF z
<1>7. SReports(k)'
  <2>1. Grows
    BY <1>1 DEF Grows, Made
  <2> QED  BY <1>1, <2>1, SKeepsReports DEF SInv
<1>8. Still
  BY <1>1 DEF Still
<1> QED  BY <1>1, <1>2, <1>5, <1>6, <1>7, <1>8, SMove DEF Onward

(* The word goes where an older one was.                                       *)
LEMMA SEvict ==
  ASSUME NEW k, k.cnt \in Nat \ {0}, SInv(k), NEW t \in Tids, Shadow(k)!Evict(t)
  PROVE  SInv(k)'
<1> DEFINE o == op[t]
           i == o.cur.epoch % k.cnt
           x == Shadow(k)!End(o)
<1>1. /\ o.pc = "evict" /\ op' = [op EXCEPT ![t] = x]
      /\ shadow' = [shadow EXCEPT ![i] = o.cur]
      /\ sclk' = sclk /\ clk' = clk /\ carried' = carried /\ hist' = hist /\ seen' = seen
      /\ epoch' = epoch /\ live' = live /\ reports' = reports
  BY DEF Shadow!Evict, Shadow!clocks
<1>2. o \in Ops(k) /\ Busy(t) /\ o.cur \in Words
  BY <1>1, SIndex DEF Idle
<1>3. i \in 0 .. k.cnt - 1
  BY <1>2 DEF Words
<1>4. Onward(k, o, x)
  BY <1>1, <1>2, SAfter
<1> HIDE DEF x, i
<1>7. SReports(k)'
  <2>1. Grows
    BY <1>1 DEF Grows, Made
  <2> QED  BY <1>1, <2>1, SKeepsReports DEF SInv
<1>8. Still
  BY <1>1 DEF Still
<1> QED  BY <1>1, <1>2, <1>3, <1>4, <1>7, <1>8, SMove DEF Onward

(* Nothing has happened.                                                       *)
LEMMA SInitially ==
  ASSUME NEW k, k.cnt \in Nat \ {0}, Shadow(k)!Init
  PROVE  SInv(k)
<1>1. /\ epoch = [t \in Tids |-> 0] /\ clk = [t \in Tids |-> [u \in Tids |-> 0]]
      /\ sclk = [s \in Syncs |-> [u \in Tids |-> 0]]
      /\ shadow = [i \in 0 .. k.cnt - 1 |-> ZeroWord]
      /\ op = [t \in Tids |-> Idle] /\ live = TRUE /\ reports = {} /\ hist = <<>>
      /\ seen = [t \in Tids |-> {}] /\ carried = [s \in Syncs |-> {}]
  BY DEF Shadow!Init, Shadow!Idle, Idle, Shadow!ZeroWord, ZeroWord
<1>2. Made = {}
  BY <1>1 DEF Made
<1>3. \A t \in Tids : ~Busy(t)
  BY <1>1 DEF Busy, Idle
<1>4. \A i \in 0 .. k.cnt - 1 : shadow[i] = ZeroWord
  BY <1>1
<1>5. STyped(k)
  BY <1>1 DEF STyped
<1>6. SHistory
  BY <1>1, <1>2 DEF SHistory
<1> QED  BY <1>1, <1>3, <1>4, <1>5, <1>6 DEF SInv, SWords, SAlone, SFreed, SReports

(* Every step keeps the invariant.                                             *)
LEMMA SStep ==
  ASSUME NEW k, k.cnt \in Nat \ {0}, k.ranges \subseteq Granule, SInv(k),
         [Shadow(k)!Next]_(Shadow(k)!vars)
  PROVE  SInv(k)'
<1>1. CASE UNCHANGED Shadow(k)!vars
  <2>1. /\ epoch' = epoch /\ clk' = clk /\ sclk' = sclk /\ shadow' = shadow /\ op' = op /\ live' = live
        /\ reports' = reports /\ hist' = hist /\ seen' = seen /\ carried' = carried
    BY <1>1 DEF Shadow!vars
  <2>2. Made' = Made /\ (\A x : Describes(x)' <=> Describes(x)) /\ Grows
    BY <2>1 DEF Made, Describes, Grows
  <2>3. \A x : Gone(x) => Gone(x)'
    BY <2>1, <2>2 DEF Gone, Busy, Remaking
  <2>4. STyped(k)' /\ SHistory' /\ SAlone'
    BY <2>1, <2>2 DEF SInv, STyped, SHistory, SAlone, Busy
  <2>5. SWords(k)'
    BY <2>1, <2>2 DEF SInv, SWords, Busy
  <2>6. SFreed(k)'
    BY <2>1, <2>2, <2>3 DEF SInv, SFreed, Busy
  <2>7. SReports(k)'
    BY <2>1, <2>2, SKeepsReports DEF SInv
  <2> QED  BY <2>4, <2>5, <2>6, <2>7 DEF SInv
<1>2. CASE Shadow(k)!Next
  <2>1. PICK t \in Tids :
          \/ Shadow(k)!Same(t) \/ Shadow(k)!MemoryAccess(t)
          \/ Shadow(k)!MemoryRangeFreed(t) \/ Shadow(k)!MemoryRangeImitateWrite(t)
          \/ Shadow(k)!Load(t) \/ Shadow(k)!Store(t) \/ Shadow(k)!Evict(t)
          \/ Shadow(k)!Mark(t) \/ Shadow(k)!Set(t)
          \/ \E s \in Syncs : Shadow(k)!Acquire(t, s) \/ Shadow(k)!Release(t, s)
    BY <1>2 DEF Shadow!Next
  <2>2. CASE Shadow(k)!Same(t)
    BY <2>2, SSame
  <2>3. CASE Shadow(k)!MemoryAccess(t)
    BY <2>3, SAccess
  <2>4. CASE Shadow(k)!MemoryRangeFreed(t) \/ Shadow(k)!MemoryRangeImitateWrite(t)
    BY <2>4, SFree
  <2>5. CASE Shadow(k)!Load(t)
    BY <2>5, SLoad
  <2>6. CASE Shadow(k)!Store(t)
    BY <2>6, SStore
  <2>7. CASE Shadow(k)!Evict(t)
    BY <2>7, SEvict
  <2>8. CASE Shadow(k)!Mark(t)
    BY <2>8, SMark
  <2>9. CASE Shadow(k)!Set(t)
    BY <2>9, SSet
  <2>10. ASSUME NEW s \in Syncs, Shadow(k)!Acquire(t, s) \/ Shadow(k)!Release(t, s)
         PROVE  SInv(k)'
    BY <2>10, SAcquire, SRelease
  <2> QED  BY <2>1, <2>2, <2>3, <2>4, <2>5, <2>6, <2>7, <2>8, <2>9, <2>10
<1> QED  BY <1>1, <1>2

(* The invariant says what reports are.                                        *)
LEMMA SReported ==
  ASSUME NEW k, SInv(k)
  PROVE  Shadow(k)!EveryReportIsARace
BY DEF SInv, SReports, Shadow!EveryReportIsARace

(* tsan reports no false race, for every number of threads, sync objects and   *)
(* words in a cell, with or without overlapping accesses: the two accesses of  *)
(* a report conflict and neither happens before the other, or the memory was   *)
(* freed, however the loads and stores of the words interleave                 *)
(* (MemoryAccessImpl1, MemoryRangeFreed, MemoryRangeSet).                      *)
THEOREM ReportsAreRaces ==
  ASSUME NEW CONSTANT k, Shadow(k)!ShadowAssumption
  PROVE  Shadow(k)!Spec => []Shadow(k)!EveryReportIsARace
<1>1. k.cnt \in Nat \ {0} /\ k.ranges \subseteq Granule
  BY DEF Shadow!ShadowAssumption, Granule
<1>2. Shadow(k)!Init => SInv(k)
  BY <1>1, SInitially
<1>3. SInv(k) /\ [Shadow(k)!Next]_(Shadow(k)!vars) => SInv(k)'
  BY <1>1, SStep
<1>4. SInv(k) => Shadow(k)!EveryReportIsARace
  BY SReported
<1> QED  BY <1>2, <1>3, <1>4, PTL DEF Shadow!Spec

-----------------------------------------------------------------------------
(* No race is missed when accesses do not overlap: what the cell knows.  The   *)
(* access of the thread that is busy is the last one of the history.           *)
Slots(k) == 0 .. k.cnt - 1
Cell(k) == {shadow[n] : n \in Slots(k)}
Scanning(t) == op[t].pc \in {"load", "store", "evict"}
Doing(i) == \E t \in Tids : Busy(t) /\ op[t].cur.id = i
HalfScanned(w) == \E r \in reports : r[1] = w.id
Overall(w) == w.range = <<0, 8>> /\ w.write /\ ~w.atomic
Clash(w, v) ==
  /\ w.range[1] < v.range[1] + v.range[2] /\ v.range[1] < w.range[1] + w.range[2]
  /\ w.write \/ v.write
  /\ ~(w.atomic /\ v.atomic)

CTyped ==
  /\ synch \in [Tids -> Nat] /\ syncs \in Nat /\ frees \in Nat /\ excused \subseteq Made
  /\ \A r \in reports : r[1] \in excused

CSerial ==
  \A t \in Tids : Busy(t) =>
    /\ \A u \in Tids : Busy(u) => u = t
    /\ op[t].cur.id = Len(hist) /\ seen[t] = hist[Len(hist)].knew \union {Len(hist)}
    /\ Scanning(t) => Len(hist) \notin excused
    /\ op[t].heap => Overall(op[t].cur)

(* What was seen was seen with all that came before it.                        *)
CClosed ==
  /\ \A i \in Made :
       /\ i \in seen[hist[i].word.tid]
       /\ \A j \in Made : j < i /\ hist[j].word.tid = hist[i].word.tid => j \in hist[i].knew
  /\ \A t \in Tids : \A i \in seen[t] : hist[i].knew \subseteq seen[t]
  /\ \A s \in Syncs : \A i \in carried[s] : hist[i].knew \subseteq carried[s]

(* A clock covers an access only of who has seen it: what a thread did since   *)
(* its last release is known to nobody.                                        *)
CExact ==
  /\ \A t \in Tids : synch[t] <= epoch[t]
  /\ \A t, u \in Tids : t # u => clk[t][u] <= synch[u]
  /\ \A s \in Syncs, u \in Tids : sclk[s][u] <= synch[u]
  /\ \A i \in Made :
       /\ \A t \in Tids : hist[i].word.epoch <= clk[t][hist[i].word.tid] => i \in seen[t]
       /\ \A s \in Syncs : hist[i].word.epoch <= sclk[s][hist[i].word.tid] => i \in carried[s]

(* Epochs stay below what the bounds of the instance allow.                    *)
Freeing(t) == Busy(t) /\ op[t].heap /\ op[t].pc # "set"
Remade == \E u \in Tids : op[u].pc = "set" /\ ~op[u].cur.freed
CCount(k) ==
  /\ frees <= k.frees /\ syncs <= k.syncs
  /\ \A t \in Tids : epoch[t] <= Len(hist) + frees + syncs
  /\ \A u \in Tids : Freeing(u) => \A t \in Tids : epoch[t] < Len(hist) + frees + syncs
  /\ Len(hist) <= k.accesses + frees
  /\ ~live => frees >= 1
  /\ ~live /\ ~Remade => Len(hist) < k.accesses + frees

(* An access was compared with the words that were there when it scanned.      *)
Passed(t, n) == \/ op[t].pc = "load" /\ n < op[t].idx
                \/ op[t].pc = "store" /\ n <= op[t].idx
                \/ op[t].pc = "evict"
Ahead(j, n) == \E t \in Tids : Busy(t) /\ op[t].cur.id = j /\ ~Passed(t, n)
Sound(k, j) == \/ j \notin excused
               \/ \E x \in Cell(k) : x # ZeroWord /\ x.id = j /\ ~HalfScanned(x)
Compared(w, j) ==
  (w # ZeroWord /\ ~HalfScanned(w) /\ w.id < j /\ Clash(w, hist[j].word)) => w.id \in hist[j].knew
CCompared(k) ==
  \A n \in Slots(k), j \in Made : \A x \in {shadow[n]} :
    Sound(k, j) /\ ~Ahead(j, n) => Compared(x, j)

(* A word stands for an access that is no stronger, and whoever has seen the   *)
(* word's access has seen that one.                                            *)
Follows(n, i) ==
  /\ \A u \in Tids : n \in seen[u] => i \in seen[u]
  /\ \A s \in Syncs : n \in carried[s] => i \in carried[s]
StandsFor(w, i) ==
  /\ w # ZeroWord /\ ~HalfScanned(w) /\ ~w.atomic
  /\ w.range = hist[i].word.range /\ (hist[i].word.write => w.write)
  /\ Follows(w.id, i)
CCovered(k) ==
  \A i \in Made : i \notin excused /\ ~hist[i].word.atomic /\ ~Doing(i) =>
    \E x \in Cell(k) : StandsFor(x, i)

(* Where a scan is: its word is in the cell, what it is about to overwrite can *)
(* be overwritten, and a Set has left its word and zeros.                      *)
CScan(k) ==
  \A t \in Tids :
    /\ Scanning(t) /\ op[t].stored =>
         \E m \in Slots(k) :
           /\ shadow[m] = op[t].cur /\ Passed(t, m)
           /\ op[t].pc = "store" => m # op[t].idx
    /\ op[t].pc = "store" => Shadow(k)!Verdict(shadow[op[t].idx], op[t].cur, op[t].stored) = "store"
    /\ op[t].pc = "set" =>
         /\ op[t].idx > 0 => shadow[0] = op[t].cur
         /\ \A n \in Slots(k) : 0 < n /\ n < op[t].idx => shadow[n] = ZeroWord

(* In freed memory the freed word is alone, and an access sees it first.       *)
CDead(k) ==
  /\ ~live /\ (\A t \in Tids : ~op[t].heap) =>
       /\ shadow[0] # ZeroWord /\ shadow[0].freed /\ Overall(shadow[0])
       /\ \A n \in Slots(k) : n # 0 => shadow[n] = ZeroWord
  /\ \A t \in Tids : Busy(t) =>
       /\ ~hist[op[t].cur.id].alive => ~live /\ ~op[t].heap
       /\ ~live /\ ~op[t].heap => op[t].pc = "load" /\ op[t].idx = 0

(* What the run checks of the accesses that are over.                          *)
CRaces ==
  \A i, j \in Made :
    (/\ i \notin excused /\ j \notin excused /\ i < j /\ ~hist[i].word.atomic /\ ~Doing(j)
     /\ hist[i].word.tid # hist[j].word.tid /\ Clash(hist[i].word, hist[j].word))
    => i \in hist[j].knew
CFound == \A j \in Made : ~hist[j].alive /\ ~Doing(j) => \E r \in reports : r[1] = j

CInv(k) == /\ CTyped /\ CSerial /\ CClosed /\ CExact /\ CCount(k)
           /\ CCompared(k) /\ CCovered(k) /\ CScan(k) /\ CDead(k) /\ CRaces /\ CFound

(* What the module says of words, and of what is stronger.                     *)
LEMMA CWords ==
  ASSUME NEW k, NEW a, NEW b, NEW i \in Made, NEW j \in Made
  PROVE  /\ Shadow(k)!Intersect(a.range, b.range) /\ (a.write \/ b.write) /\ ~(a.atomic /\ b.atomic)
              <=> Clash(a, b)
         /\ Shadow(k)!Weakness(a) >= Shadow(k)!Weakness(b) /\ ~a.atomic
              => ~b.atomic /\ (a.write => b.write)
         /\ Shadow(k)!Conflict(i, j) <=>
              hist[i].word.tid # hist[j].word.tid /\ Clash(hist[i].word, hist[j].word)
<1>1. Shadow(k)!Intersect(a.range, b.range) /\ (a.write \/ b.write) /\ ~(a.atomic /\ b.atomic)
        <=> Clash(a, b)
  BY DEF Shadow!Intersect, Clash
<1>2. Shadow(k)!Weakness(a) >= Shadow(k)!Weakness(b) /\ ~a.atomic
        => ~b.atomic /\ (a.write => b.write)
  BY DEF Shadow!Weakness
<1>3. Shadow(k)!Conflict(i, j) <=>
        hist[i].word.tid # hist[j].word.tid /\ Clash(hist[i].word, hist[j].word)
  BY DEF Shadow!Conflict, Shadow!Intersect, Clash
<1> QED  BY <1>1, <1>2, <1>3

(* The thread that is busy, and its access.                                    *)
LEMMA CBusy ==
  ASSUME NEW k, k.cnt \in Nat \ {0}, SInv(k), CInv(k), NEW t \in Tids, op[t] # Idle
  PROVE  /\ Busy(t) /\ op[t] \in Ops(k) /\ op[t].cur \in Words /\ op[t].idx \in Slots(k)
         /\ op[t].cur.tid = t /\ op[t].cur.id = Len(hist) /\ Len(hist) \in Made
         /\ hist[Len(hist)].word.tid = t /\ (~op[t].cur.freed => op[t].cur = hist[Len(hist)].word)
         /\ \A u \in Tids : u # t => op[u] = Idle
         /\ seen[t] = hist[Len(hist)].knew \union {Len(hist)}
         /\ \A u \in Tids : u # t => Len(hist) \notin seen[u]
         /\ \A s \in Syncs : Len(hist) \notin carried[s]
         /\ \A i \in Made : i <= Len(hist) /\ i \in Nat
         /\ \A i : Doing(i) <=> i = Len(hist)
         /\ \A n, i : Ahead(i, n) <=> i = Len(hist) /\ ~Passed(t, n)
<1>1. /\ Busy(t) /\ op[t] \in Ops(k) /\ op[t].cur \in Words /\ op[t].idx \in Slots(k)
      /\ op[t].cur.tid = t /\ op[t].cur.id \in Made /\ Describes(op[t].cur)
  BY SIndex DEF Slots
<1>2. /\ \A u \in Tids : Busy(u) => u = t
      /\ op[t].cur.id = Len(hist) /\ seen[t] = hist[Len(hist)].knew \union {Len(hist)}
  BY <1>1 DEF CInv, CSerial
<1>3. \A u \in Tids : u # t => op[u] = Idle
  BY <1>2, SOp DEF SInv
<1>4. /\ \A u \in Tids : u # t => Len(hist) \notin seen[u]
      /\ \A s \in Syncs : Len(hist) \notin carried[s]
  BY <1>1, <1>2 DEF SInv, SAlone
<1>5. \A i \in Made : i <= Len(hist) /\ i \in Nat
  BY DEF Made, SInv, STyped
<1>6. \A i : Doing(i) <=> i = Len(hist)
  BY <1>1, <1>2 DEF Doing
<1>7. \A n, i : Ahead(i, n) <=> i = Len(hist) /\ ~Passed(t, n)
  BY <1>1, <1>2 DEF Ahead
<1>8. hist[Len(hist)].word.tid = t /\ (~op[t].cur.freed => op[t].cur = hist[Len(hist)].word)
  BY <1>1, <1>2 DEF Describes
<1> QED  BY <1>1, <1>2, <1>3, <1>4, <1>5, <1>6, <1>7, <1>8

(* Everybody is idle when something begins.                                    *)
LEMMA CIdle ==
  ASSUME NEW k, SInv(k), k.serial, NEW t \in Tids, Shadow(k)!MayStart(t)
  PROVE  /\ \A u \in Tids : op[u] = Idle /\ ~Busy(u) /\ ~op[u].heap /\ op[u].pc = "idle"
         /\ \A i : ~Doing(i)
         /\ \A i, n : ~Ahead(i, n)
<1>1. \A u \in Tids : op[u] = Idle
  BY DEF Shadow!MayStart, Shadow!Idle, Idle
<1>2. \A u \in Tids : ~Busy(u) /\ ~op[u].heap /\ op[u].pc = "idle"
  BY <1>1 DEF Idle, Busy
<1> QED  BY <1>1, <1>2 DEF Doing, Ahead

(* A word of the cell.                                                         *)
LEMMA CWord ==
  ASSUME NEW k, SInv(k), NEW n \in Slots(k), shadow[n] # ZeroWord
  PROVE  /\ shadow[n] \in Words /\ Describes(shadow[n]) /\ shadow[n].id \in Made
         /\ hist[shadow[n].id].word.tid = shadow[n].tid /\ shadow[n].tid \in Tids
         /\ shadow[n].epoch \in Nat
<1>1. shadow[n] \in Words
  BY DEF Slots, SInv, STyped
<1>2. Describes(shadow[n])
  BY DEF Slots, SInv, SWords
<1> QED  BY <1>1, <1>2 DEF Describes, Words

(* A word that is ordered before a thread is of an access it has seen.         *)
LEMMA COrdered ==
  ASSUME NEW k, k.cnt \in Nat \ {0}, SInv(k), CInv(k), NEW t \in Tids, NEW n \in Slots(k),
         shadow[n] # ZeroWord, shadow[n].tid = t \/ Shadow(k)!HappensBefore(shadow[n], t)
  PROVE  shadow[n].id \in seen[t]
<1> DEFINE w == shadow[n]
<1>1. w \in Words /\ Describes(w) /\ w.id \in Made /\ hist[w.id].word.tid = w.tid
  BY CWord
<1>2. CASE w.tid = t
  BY <1>1, <1>2 DEF CInv, CClosed
<1>3. CASE Shadow(k)!HappensBefore(w, t)
  <2>1. ~w.freed /\ clk[t][w.tid] >= w.epoch
    BY <1>3 DEF Shadow!HappensBefore
  <2>2. w = hist[w.id].word
    BY <1>1, <2>1 DEF Describes
  <2>3. clk[t][w.tid] \in Nat /\ w.epoch \in Nat
    BY <1>1 DEF SInv, STyped, Words
  <2>4. hist[w.id].word.epoch <= clk[t][hist[w.id].word.tid]
    BY <2>1, <2>2, <2>3
  <2> QED  BY <1>1, <2>4 DEF CInv, CExact
<1> QED  BY <1>2, <1>3

(* An access enters the history.  It is later than what its thread released.   *)
CRecords(k, t, w, alive) ==
  /\ Records(t, w, alive) /\ w.epoch > synch[t] /\ \A u \in Tids : op[u] = Idle
  /\ synch' = synch /\ shadow' = shadow /\ reports' = reports

LEMMA CRecord ==
  ASSUME NEW k, SInv(k), CInv(k), NEW t \in Tids, NEW w \in Words, NEW alive \in BOOLEAN,
         CRecords(k, t, w, alive)
  PROVE  /\ CClosed' /\ CExact' /\ Recorded(t, w, alive) /\ Len(hist') = w.id
         /\ seen'[t] = seen[t] \union {w.id} /\ (\A u \in Tids : u # t => seen'[u] = seen[u])
         /\ \A x : \A i \in Made : StandsFor(x, i) => (x.id \in Made => StandsFor(x, i)')
         /\ \A x : \A j \in Made : Compared(x, j)' <=> Compared(x, j)
         /\ \A x : HalfScanned(x)' <=> HalfScanned(x)
<1>h. /\ Records(t, w, alive) /\ w.epoch > synch[t] /\ \A u \in Tids : op[u] = Idle
      /\ synch' = synch /\ shadow' = shadow /\ reports' = reports
  BY DEF CRecords
<1>0. Recorded(t, w, alive)
  BY <1>h, SRecord
<1>1. /\ hist' \in Seq(Accesses) /\ Made' = Made \union {w.id} /\ w.id \notin Made
      /\ \A i \in Made : hist'[i] = hist[i] /\ i < w.id
      /\ hist'[w.id] = [word |-> w, knew |-> seen[t], alive |-> alive]
  BY <1>0 DEF Recorded
<1>2. hist'[w.id].word = w /\ hist'[w.id].knew = seen[t]
  BY <1>1
<1>3. /\ clk' = clk /\ sclk' = sclk /\ carried' = carried /\ w.tid = t /\ w.epoch \in Nat
      /\ epoch' \in [Tids -> Nat] /\ (\A u \in Tids : epoch[u] <= epoch'[u]) /\ w.id = Len(hist) + 1
      /\ seen' = [seen EXCEPT ![t] = @ \union {w.id}]
  BY <1>h DEF Records, Words
<1>4. seen'[t] = seen[t] \union {w.id} /\ (\A u \in Tids : u # t => seen'[u] = seen[u])
  BY <1>3 DEF SInv, STyped
<1>5. Len(hist') = w.id
  BY <1>1, <1>3, <1>h, SAppend DEF Records, SInv, STyped, Accesses
<1>6. \A u \in Tids : seen[u] \subseteq Made
  BY DEF SInv, SHistory
<1>7. \A s \in Syncs : carried[s] \subseteq Made
  BY DEF SInv, SHistory
<1>8. \A i \in Made : hist[i].word.tid \in Tids /\ hist[i].word.epoch \in Nat
  BY SMade
<1>9. CClosed'
  <2>1. ASSUME NEW i \in Made'
        PROVE  /\ i \in seen'[hist'[i].word.tid]
               /\ \A j \in Made' : j < i /\ hist'[j].word.tid = hist'[i].word.tid => j \in hist'[i].knew
    <3>1. CASE i = w.id
      <4>1. \A j \in Made : hist[j].word.tid = t => j \in seen[t]
        BY DEF CInv, CClosed
      <4>2. w.id \in Nat
        BY DEF Words
      <4> QED  BY <1>1, <1>2, <1>3, <1>4, <3>1, <4>1, <4>2
    <3>2. CASE i \in Made
      <4>1. /\ i \in seen[hist[i].word.tid]
            /\ \A j \in Made : j < i /\ hist[j].word.tid = hist[i].word.tid => j \in hist[i].knew
        BY <3>2 DEF CInv, CClosed
      <4>2. hist'[i] = hist[i] /\ i < w.id /\ i \in Nat /\ w.id \in Nat
        BY <1>1, <3>2, SMade DEF Words
      <4>3. i \in seen'[hist[i].word.tid]
        BY <1>4, <1>8, <3>2, <4>1
      <4> QED  BY <1>1, <4>1, <4>2, <4>3
    <3> QED  BY <1>1, <3>1, <3>2
  <2>2. ASSUME NEW u \in Tids, NEW i \in seen'[u] PROVE hist'[i].knew \subseteq seen'[u]
    <3>1. CASE i \in seen[u]
      <4>1. hist[i].knew \subseteq seen[u] /\ i \in Made
        BY <1>6, <3>1 DEF CInv, CClosed
      <4> QED  BY <1>1, <1>4, <4>1
    <3>2. CASE u = t /\ i = w.id
      BY <1>2, <1>4, <3>2
    <3> QED  BY <1>4, <3>1, <3>2
  <2>3. ASSUME NEW s \in Syncs, NEW i \in carried'[s] PROVE hist'[i].knew \subseteq carried'[s]
    BY <1>1, <1>3, <1>7, <2>3 DEF CInv, CClosed
  <2> QED  BY <2>1, <2>2, <2>3 DEF CClosed
<1>10. CExact'
  <2>1. \A u \in Tids : synch[u] \in Nat /\ epoch[u] \in Nat /\ epoch'[u] \in Nat /\ synch[u] <= epoch[u]
    BY <1>3 DEF CInv, CTyped, CExact, SInv, STyped
  <2>2. \A u \in Tids : synch'[u] <= epoch'[u]
    BY <1>h, <1>3, <2>1
  <2>3. ASSUME NEW i \in Made'
        PROVE  /\ \A u \in Tids : hist'[i].word.epoch <= clk'[u][hist'[i].word.tid] => i \in seen'[u]
               /\ \A s \in Syncs : hist'[i].word.epoch <= sclk'[s][hist'[i].word.tid] => i \in carried'[s]
    <3>1. CASE i = w.id
      <4>1. ASSUME NEW u \in Tids, u # t PROVE ~(w.epoch <= clk[u][t])
        <5>1. clk[u][t] <= synch[t] /\ clk[u][t] \in Nat
          BY <4>1 DEF CInv, CExact, SInv, STyped
        <5> QED  BY <1>h, <1>3, <2>1, <5>1
      <4>2. ASSUME NEW s \in Syncs PROVE ~(w.epoch <= sclk[s][t])
        <5>1. sclk[s][t] <= synch[t] /\ sclk[s][t] \in Nat
          BY DEF CInv, CExact, SInv, STyped
        <5> QED  BY <1>h, <1>3, <2>1, <5>1
      <4> QED  BY <1>2, <1>3, <1>4, <3>1, <4>1, <4>2
    <3>2. CASE i \in Made
      <4>1. /\ \A u \in Tids : hist[i].word.epoch <= clk[u][hist[i].word.tid] => i \in seen[u]
            /\ \A s \in Syncs : hist[i].word.epoch <= sclk[s][hist[i].word.tid] => i \in carried[s]
        BY <3>2 DEF CInv, CExact
      <4> QED  BY <1>1, <1>3, <1>4, <3>2, <4>1
    <3> QED  BY <1>1, <3>1, <3>2
  <2>4. /\ \A u, v \in Tids : u # v => clk'[u][v] <= synch'[v]
        /\ \A s \in Syncs, u \in Tids : sclk'[s][u] <= synch'[u]
    BY <1>h, <1>3 DEF CInv, CExact
  <2> QED  BY <2>2, <2>3, <2>4 DEF CExact
<1>11. \A x : HalfScanned(x)' <=> HalfScanned(x)
  BY <1>h DEF HalfScanned
<1>12. ASSUME NEW x, NEW i \in Made, StandsFor(x, i), x.id \in Made PROVE StandsFor(x, i)'
  <2>1. hist'[i] = hist[i] /\ x.id # w.id
    BY <1>1, <1>12
  <2>2. Follows(x.id, i)'
    BY <1>3, <1>4, <1>12, <2>1 DEF Follows, StandsFor
  <2> QED  BY <1>11, <1>12, <2>1, <2>2 DEF StandsFor
<1>13. ASSUME NEW x, NEW j \in Made PROVE Compared(x, j)' <=> Compared(x, j)
  <2>1. hist'[j] = hist[j]
    BY <1>1
  <2> QED  BY <1>11, <2>1 DEF Compared
<1> QED  BY <1>0, <1>4, <1>5, <1>9, <1>10, <1>11, <1>12, <1>13

(* An access, a free or a malloc() begins.                                     *)
CBegins(k, t, w, alive, o) ==
  /\ o \in Ops(k) /\ o.cur = w /\ o.idx = 0 /\ o.pc \in {"load", "mark", "set"}
  /\ o.pc = "load" => ~o.stored
  /\ o.heap => Overall(w)
  /\ op' = [op EXCEPT ![t] = o]
  /\ ~o.heap => live' = live /\ o.pc = "load"
  /\ ~alive => ~live' /\ ~o.heap
  /\ excused' = excused /\ syncs' = syncs /\ frees' \in Nat

LEMMA CBegin ==
  ASSUME NEW k, k.cnt \in Nat \ {0}, SInv(k), CInv(k), NEW t \in Tids, NEW w \in Words,
         NEW alive \in BOOLEAN, NEW o, CRecords(k, t, w, alive), CBegins(k, t, w, alive, o), CCount(k)'
  PROVE  CInv(k)'
<1>h. /\ synch' = synch /\ shadow' = shadow /\ reports' = reports /\ \A u \in Tids : op[u] = Idle
  BY DEF CRecords
<1>o. /\ o \in Ops(k) /\ o.cur = w /\ o.idx = 0 /\ o.pc \in {"load", "mark", "set"}
      /\ o.pc = "load" => ~o.stored
      /\ o.heap => Overall(w)
      /\ op' = [op EXCEPT ![t] = o]
      /\ ~o.heap => live' = live /\ o.pc = "load"
      /\ ~alive => ~live' /\ ~o.heap
      /\ excused' = excused /\ syncs' = syncs /\ frees' \in Nat
  BY DEF CBegins
<1>1. /\ CClosed' /\ CExact' /\ Recorded(t, w, alive) /\ Len(hist') = w.id
      /\ seen'[t] = seen[t] \union {w.id}
      /\ \A x : \A i \in Made : StandsFor(x, i) => (x.id \in Made => StandsFor(x, i)')
      /\ \A x : \A j \in Made : Compared(x, j)' <=> Compared(x, j)
      /\ \A x : HalfScanned(x)' <=> HalfScanned(x)
  BY CRecord
<1>2. /\ Made' = Made \union {w.id} /\ w.id \notin Made
      /\ \A i \in Made : hist'[i] = hist[i] /\ i < w.id
      /\ hist'[w.id].knew = seen[t] /\ hist'[w.id].alive = alive
  BY <1>1 DEF Recorded
<1>3. op'[t] = o /\ \A u \in Tids : u # t => op'[u] = Idle
  BY <1>h, <1>o DEF SInv, STyped
<1>4. /\ Busy(t)' /\ \A u \in Tids : Busy(u)' => u = t
      /\ \A u \in Tids : ~Busy(u)
  BY <1>h, <1>o, <1>3 DEF Busy, Idle
<1>5. \A i : (Doing(i)' <=> i = w.id) /\ ~Doing(i)
  BY <1>o, <1>3, <1>4 DEF Doing
<1>6. \A n \in Slots(k) : ~Passed(t, n)'
  BY <1>o, <1>3 DEF Passed, Slots
<1>7. /\ \A n \in Slots(k) : Ahead(w.id, n)'
      /\ \A j, n : ~Ahead(j, n)
  BY <1>o, <1>3, <1>4, <1>6 DEF Ahead
<1>8. \A n \in Slots(k) : shadow[n] # ZeroWord => shadow[n].id \in Made
  BY CWord
<1>a. CTyped'
  BY <1>h, <1>o, <1>2 DEF CInv, CTyped
<1>b. CSerial'
  <2>1. w.id \notin excused'
    BY <1>o, <1>2 DEF CInv, CTyped
  <2> QED  BY <1>o, <1>1, <1>2, <1>3, <1>4, <2>1 DEF CSerial
<1>c. CCompared(k)'
  <2> SUFFICES ASSUME NEW n \in Slots(k), NEW j \in Made', NEW x \in {shadow'[n]},
                      Sound(k, j)', ~Ahead(j, n)'
               PROVE  Compared(x, j)'
    BY DEF CCompared, Slots
  <2>1. j \in Made
    BY <1>2, <1>7
  <2>2. Sound(k, j)
    BY <1>h, <1>o, <1>1 DEF Sound, Cell, Slots
  <2>3. Compared(x, j)
    BY <1>h, <1>7, <2>1, <2>2 DEF CInv, CCompared
  <2> QED  BY <1>h, <1>1, <2>1, <2>3
<1>d. CCovered(k)'
  <2> SUFFICES ASSUME NEW i \in Made', i \notin excused', ~hist'[i].word.atomic, ~Doing(i)'
               PROVE  \E x \in Cell(k) : StandsFor(x, i)'
    BY <1>h DEF CCovered, Cell, Slots
  <2>1. i \in Made /\ hist'[i] = hist[i]
    BY <1>2, <1>5
  <2>2. PICK x \in Cell(k) : StandsFor(x, i)
    BY <1>o, <1>5, <2>1 DEF CInv, CCovered
  <2>3. x.id \in Made
    BY <1>8, <2>2 DEF StandsFor, Cell
  <2> QED  BY <1>1, <2>1, <2>2, <2>3
<1>e. CScan(k)'
  <2> SUFFICES ASSUME NEW u \in Tids
               PROVE  /\ Scanning(u)' /\ op'[u].stored =>
                           \E m \in Slots(k) :
                             /\ shadow'[m] = op'[u].cur /\ Passed(u, m)'
                             /\ op'[u].pc = "store" => m # op'[u].idx
                      /\ op'[u].pc # "store"
                      /\ op'[u].pc = "set" =>
                           /\ op'[u].idx = 0 /\ \A n \in Slots(k) : ~(n < op'[u].idx)
    BY DEF CScan, Slots
  <2>1. CASE u = t
    BY <1>o, <1>3, <2>1 DEF Scanning, Slots
  <2>2. CASE u # t
    BY <1>3, <2>2 DEF Scanning, Idle
  <2> QED  BY <2>1, <2>2
<1>f. CDead(k)'
  <2>1. ASSUME ~live', \A u \in Tids : ~op'[u].heap
        PROVE  /\ shadow'[0] # ZeroWord /\ shadow'[0].freed /\ Overall(shadow'[0])
               /\ \A n \in Slots(k) : n # 0 => shadow'[n] = ZeroWord
    <3>1. ~live
      BY <1>o, <1>3, <2>1
    <3>2. \A u \in Tids : ~op[u].heap
      BY <1>4, SOp DEF SInv
    <3> QED  BY <1>h, <3>1, <3>2 DEF CInv, CDead
  <2>2. ASSUME NEW u \in Tids, Busy(u)'
        PROVE  /\ ~hist'[op'[u].cur.id].alive => ~live' /\ ~op'[u].heap
               /\ ~live' /\ ~op'[u].heap => op'[u].pc = "load" /\ op'[u].idx = 0
    BY <1>o, <1>2, <1>3, <1>4, <2>2
  <2> QED  BY <2>1, <2>2 DEF CDead, Overall, Slots
<1>g. CRaces'
  <2> SUFFICES ASSUME NEW i \in Made', NEW j \in Made', i \notin excused', j \notin excused', i < j,
                      ~hist'[i].word.atomic, ~Doing(j)', hist'[i].word.tid # hist'[j].word.tid,
                      Clash(hist'[i].word, hist'[j].word)
               PROVE  i \in hist'[j].knew
    BY DEF CRaces, Clash
  <2>1. j \in Made /\ i \in Made
    <3>1. j \in Made
      BY <1>2, <1>5
    <3>2. \A x \in Made : x \in Nat /\ x < w.id /\ w.id \in Nat
      BY <1>2, SMade DEF Words
    <3> QED  BY <1>2, <3>1, <3>2
  <2>2. hist'[i] = hist[i] /\ hist'[j] = hist[j]
    BY <1>2, <2>1
  <2> QED  BY <1>o, <1>5, <2>1, <2>2 DEF CInv, CRaces
<1>i. CFound'
  <2> SUFFICES ASSUME NEW j \in Made', ~hist'[j].alive, ~Doing(j)'
               PROVE  \E r \in reports' : r[1] = j
    BY DEF CFound
  <2>1. j \in Made /\ hist'[j] = hist[j]
    BY <1>2, <1>5
  <2> QED  BY <1>h, <1>5, <2>1 DEF CInv, CFound
<1> QED  BY <1>1, <1>a, <1>b, <1>c, <1>d, <1>e, <1>f, <1>g, <1>i DEF CInv

(* An access or a free is later than what its thread has released.             *)
LEMMA CStart ==
  ASSUME NEW k, SInv(k), CInv(k), k.serial, NEW t \in Tids, NEW w, NEW alive, NEW range, NEW write, NEW atomic,
         WordIs(w, t, epoch[t] + 1, range, write, atomic), Starts(t, w, alive),
         Shadow(k)!MayStart(t), UNCHANGED <<synch, shadow, reports>>
  PROVE  CRecords(k, t, w, alive)
<1>1. Records(t, w, alive)
  BY SStart
<1>2. epoch[t] \in Nat /\ synch[t] \in Nat /\ synch[t] <= epoch[t] /\ w.epoch = epoch[t] + 1
  BY DEF SInv, STyped, CInv, CTyped, CExact, WordIs
<1>3. \A u \in Tids : op[u] = Idle
  BY CIdle
<1> QED  BY <1>1, <1>2, <1>3 DEF CRecords

(* An access that has to scan the cell.                                        *)
LEMMA CAccess ==
  ASSUME NEW k, k.cnt \in Nat \ {0}, k.ranges \subseteq Granule, k.accesses \in Nat, k.serial,
         SInv(k), CInv(k), NEW t \in Tids, Shadow(k)!MemoryAccess(t)
  PROVE  CInv(k)'
<1>1. /\ op[t] = Idle /\ epoch' = [epoch EXCEPT ![t] = @ + 1] /\ live' = live
      /\ clk' = clk /\ sclk' = sclk /\ carried' = carried /\ shadow' = shadow /\ reports' = reports
      /\ Shadow(k)!MayStart(t) /\ Len(hist) < k.accesses /\ synch' = synch /\ syncs' = syncs
      /\ excused' = excused /\ frees' = frees
  BY DEF Shadow!MemoryAccess, Shadow!MayStart, Shadow!Idle, Idle
<1>2. PICK range \in k.ranges, write \in BOOLEAN, atomic \in BOOLEAN :
        LET cur == Shadow(k)!Word(t, epoch[t] + 1, range, write, atomic, FALSE)
        IN  /\ Shadow(k)!Record(cur, live)
            /\ op' = [op EXCEPT ![t] = [pc |-> "load", cur |-> cur, idx |-> 0,
                                        stored |-> FALSE, heap |-> FALSE]]
  BY DEF Shadow!MemoryAccess
<1> DEFINE w == Shadow(k)!Word(t, epoch[t] + 1, range, write, atomic, FALSE)
           o == [pc |-> "load", cur |-> w, idx |-> 0, stored |-> FALSE, heap |-> FALSE]
<1>3. range \in Granule /\ live \in BOOLEAN /\ epoch[t] + 1 \in Nat
  BY DEF SInv, STyped
<1>4. Shadow(k)!Record(w, live) /\ op' = [op EXCEPT ![t] = o]
  BY <1>2
<1>5. WordIs(w, t, epoch[t] + 1, range, write, atomic)
  BY <1>3, SWord
<1> HIDE DEF w
<1>6. Starts(t, w, live)
  BY <1>1, <1>4 DEF Shadow!Record, Starts
<1>7. CRecords(k, t, w, live) /\ w \in Words
  BY <1>1, <1>5, <1>6, CStart DEF WordIs
<1>8. o \in Ops(k) /\ o.cur = w /\ o.pc = "load" /\ o.idx = 0
  BY <1>7 DEF Ops
<1>9. ~o.heap /\ ~o.stored
  BY Zenon
<1> HIDE DEF o
<1>10. /\ Len(hist') = Len(hist) + 1 /\ Len(hist) \in Nat
       /\ syncs \in Nat /\ frees \in Nat /\ epoch \in [Tids -> Nat]
  <2>1. Len(hist') = w.id
    BY <1>3, <1>7, CRecord
  <2> QED  BY <1>5, <2>1 DEF WordIs, SInv, STyped, CInv, CTyped
<1>11. CBegins(k, t, w, live, o)
  BY <1>1, <1>3, <1>4, <1>8, <1>9, <1>10 DEF CBegins
<1>12. CCount(k)'
  <2>1. \A u \in Tids : op[u] = Idle
    BY <1>1, CIdle
  <2>2. op'[t] = o /\ \A u \in Tids : u # t => op'[u] = Idle
    BY <1>4, <2>1 DEF SInv, STyped
  <2>3. (\A u \in Tids : ~Freeing(u)') /\ ~Remade'
    BY <1>8, <1>9, <2>2 DEF Freeing, Busy, Remade, Idle
  <2>4. /\ frees <= k.frees /\ syncs <= k.syncs
        /\ \A u \in Tids : epoch[u] <= Len(hist) + frees + syncs
        /\ ~live => frees >= 1
    BY DEF CInv, CCount
  <2>5. \A u \in Tids : epoch'[u] <= Len(hist) + 1 + frees + syncs
    BY <1>1, <1>10, <2>4
  <2> QED  BY <1>1, <1>10, <2>3, <2>4, <2>5 DEF CCount
<1> QED  BY <1>3, <1>7, <1>11, <1>12, CBegin

(* A free, and a malloc() of freed memory.                                     *)
LEMMA CFree ==
  ASSUME NEW k, k.cnt \in Nat \ {0}, k.accesses \in Nat, k.frees \in Nat, k.serial,
         SInv(k), CInv(k), NEW t \in Tids,
         Shadow(k)!MemoryRangeFreed(t) \/ Shadow(k)!MemoryRangeImitateWrite(t)
  PROVE  CInv(k)'
<1> DEFINE w == Shadow(k)!Word(t, epoch[t] + 1, <<0, 8>>, TRUE, FALSE, FALSE)
<1>1. /\ op[t] = Idle /\ epoch' = [epoch EXCEPT ![t] = @ + 1]
      /\ clk' = clk /\ sclk' = sclk /\ carried' = carried /\ shadow' = shadow /\ reports' = reports
      /\ Shadow(k)!MayStart(t) /\ synch' = synch /\ syncs' = syncs /\ excused' = excused
      /\ Shadow(k)!Record(w, TRUE)
  BY DEF Shadow!MemoryRangeFreed, Shadow!MemoryRangeImitateWrite, Shadow!MayStart, Shadow!Idle, Idle,
         Shadow!Whole
<1>2. live' = FALSE
  BY DEF Shadow!MemoryRangeFreed, Shadow!MemoryRangeImitateWrite, SInv, STyped
<1>3. PICK pcs \in {"load", "mark", "set"}, stored \in BOOLEAN :
        /\ op' = [op EXCEPT ![t] = [pc |-> pcs, cur |-> w, idx |-> 0, stored |-> stored, heap |-> TRUE]]
        /\ pcs = "load" => ~stored
        /\ IF pcs = "set" THEN ~live /\ frees' = frees
           ELSE Len(hist) < k.accesses /\ frees < k.frees /\ frees' = frees + 1
  <2>1. CASE Shadow(k)!MemoryRangeFreed(t)
    <3>1. /\ live /\ frees < k.frees /\ Len(hist) < k.accesses /\ frees' = frees + 1
          /\ op' = [op EXCEPT ![t] = [pc |-> IF Shadow(k)!ContainsSameAccess(w) THEN "mark" ELSE "load",
                                      cur |-> w, idx |-> 0, stored |-> FALSE, heap |-> TRUE]]
      BY <2>1 DEF Shadow!MemoryRangeFreed, Shadow!Whole
    <3> QED  BY <3>1
  <2>2. CASE Shadow(k)!MemoryRangeImitateWrite(t)
    BY <2>2 DEF Shadow!MemoryRangeImitateWrite, Shadow!Whole
  <2> QED  BY <2>1, <2>2
<1> DEFINE o == [pc |-> pcs, cur |-> w, idx |-> 0, stored |-> stored, heap |-> TRUE]
<1>4. epoch[t] + 1 \in Nat
  BY DEF SInv, STyped
<1>5. WordIs(w, t, epoch[t] + 1, <<0, 8>>, TRUE, FALSE)
  BY <1>4, SWhole, SWord
<1> HIDE DEF w
<1>6. Starts(t, w, TRUE)
  BY <1>1 DEF Shadow!Record, Starts
<1>7. CRecords(k, t, w, TRUE) /\ w \in Words /\ Overall(w) /\ ~w.freed
  BY <1>1, <1>5, <1>6, CStart DEF WordIs, Overall
<1>8. o \in Ops(k) /\ o.cur = w /\ o.pc = pcs /\ o.idx = 0
  BY <1>7 DEF Ops
<1>9. o.heap /\ (o.stored <=> stored)
  BY Zenon
<1>10. op' = [op EXCEPT ![t] = o]
  BY <1>3
<1> HIDE DEF o
<1>11. /\ Len(hist') = Len(hist) + 1 /\ Len(hist) \in Nat
       /\ syncs \in Nat /\ frees \in Nat /\ epoch \in [Tids -> Nat]
  <2>1. Len(hist') = w.id
    BY <1>7, CRecord
  <2> QED  BY <1>5, <2>1 DEF WordIs, SInv, STyped, CInv, CTyped
<1>12. CBegins(k, t, w, TRUE, o)
  <2>1. o.pc = "load" => ~o.stored
    BY <1>3, <1>8, <1>9
  <2>2. frees' \in Nat /\ o.pc \in {"load", "mark", "set"}
    BY <1>3, <1>8, <1>11
  <2> QED  BY <1>1, <1>7, <1>8, <1>9, <1>10, <2>1, <2>2 DEF CBegins
<1>13. CCount(k)'
  <2>1. \A u \in Tids : op[u] = Idle
    BY <1>1, CIdle
  <2>2. op'[t] = o /\ \A u \in Tids : u # t => op'[u] = Idle
    BY <1>10, <2>1 DEF SInv, STyped
  <2>3. ~Remade
    BY <2>1 DEF Remade, Idle
  <2>4. /\ frees <= k.frees /\ syncs <= k.syncs
        /\ \A u \in Tids : epoch[u] <= Len(hist) + frees + syncs
        /\ ~live => frees >= 1 /\ Len(hist) < k.accesses + frees
    BY <2>3 DEF CInv, CCount
  <2>5. \A u \in Tids : epoch'[u] <= Len(hist) + 1 + frees + syncs /\ epoch'[u] \in Nat
    BY <1>1, <1>11, <2>4
  <2>6. CASE pcs = "set"
    <3>1. Remade' /\ \A u \in Tids : ~Freeing(u)'
      BY <1>7, <1>8, <2>2, <2>6 DEF Remade, Freeing, Busy, Idle
    <3> QED  BY <1>1, <1>2, <1>3, <1>11, <2>4, <2>5, <2>6, <3>1 DEF CCount
  <2>7. CASE pcs # "set"
    <3>1. /\ frees' = frees + 1 /\ frees < k.frees /\ Len(hist) < k.accesses
      BY <1>3, <2>7
    <3>2. \A u \in Tids : epoch'[u] < Len(hist') + frees' + syncs'
      BY <1>1, <1>11, <2>5, <3>1
    <3> QED  BY <1>1, <1>11, <2>4, <2>5, <3>1, <3>2 DEF CCount
  <2> QED  BY <2>6, <2>7
<1> QED  BY <1>7, <1>12, <1>13, CBegin

(* The fast scan sees every epoch of the instance as it is.                    *)
WideEnough(k) ==
  \A e \in 0 .. k.accesses + 2 * k.frees + k.syncs : Shadow(k)!Signed(e) = e

Sizeable(k) ==
  /\ k.cnt \in Nat \ {0} /\ k.ranges \subseteq Granule /\ k.serial
  /\ k.accesses \in Nat /\ k.frees \in Nat /\ k.syncs \in Nat

(* No epoch is beyond that.                                                    *)
LEMMA CWide ==
  ASSUME NEW k, Sizeable(k), WideEnough(k), SInv(k), CInv(k), NEW t \in Tids, NEW e \in Nat, e <= epoch[t]
  PROVE  Shadow(k)!Signed(e) = e
<1>1. Len(hist) \in Nat /\ frees \in Nat /\ syncs \in Nat /\ epoch[t] \in Nat
  BY DEF SInv, STyped, CInv, CTyped
<1>2. /\ frees <= k.frees /\ syncs <= k.syncs /\ Len(hist) <= k.accesses + frees
      /\ epoch[t] <= Len(hist) + frees + syncs
  BY DEF CInv, CCount
<1>3. e \in 0 .. k.accesses + 2 * k.frees + k.syncs
  BY <1>1, <1>2 DEF Sizeable
<1> QED  BY <1>3 DEF WideEnough

(* A word by which an access is known: nobody else has seen it.                *)
LEMMA CKnown ==
  ASSUME NEW k, Sizeable(k), WideEnough(k), SInv(k), CInv(k), NEW t \in Tids, NEW w \in Words,
         w.tid = t, ~w.freed, NEW n \in Slots(k), NEW x, x = shadow[n], Shadow(k)!Known(x, w)
  PROVE  /\ x # ZeroWord /\ ~x.freed /\ x \in Words /\ x.id \in Made /\ x.tid = t /\ hist[x.id].word = x
         /\ x.range = w.range /\ (x.atomic <=> w.atomic) /\ (w.write => x.write)
         /\ x.epoch > synch[t] /\ x.epoch <= epoch[t] /\ x.epoch \in Nat
         /\ x.id \in seen[t] /\ \A u \in Tids : u # t => x.id \notin seen[u]
         /\ \A s \in Syncs : x.id \notin carried[s]
<1>1. /\ x # ZeroWord /\ x.range = w.range /\ x.tid = w.tid /\ x.freed = w.freed
      /\ x.atomic = w.atomic /\ (w.write => x.write)
      /\ Shadow(k)!Signed(x.epoch) > Shadow(k)!Signed(synch[w.tid])
  BY DEF Shadow!Known, Shadow!SameAs, Shadow!SameTid, Shadow!ZeroWord, ZeroWord
<1>2. /\ x \in Words /\ Describes(x) /\ x.id \in Made /\ hist[x.id].word.tid = x.tid /\ x.epoch \in Nat
  BY <1>1, CWord
<1>3. ~x.freed
  BY <1>1, Zenon
<1>4. x.atomic <=> w.atomic
  BY <1>1, Zenon
<1>5. hist[x.id].word = x
  BY <1>2, <1>3 DEF Describes
<1>6. synch[t] \in Nat /\ epoch[t] \in Nat /\ synch[t] <= epoch[t]
  BY DEF CInv, CTyped, CExact, SInv, STyped
<1>7. x.epoch <= epoch[t]
  BY <1>1, <1>2, <1>5 DEF SInv, SHistory
<1>8. Shadow(k)!Signed(x.epoch) = x.epoch /\ Shadow(k)!Signed(synch[t]) = synch[t]
  BY <1>2, <1>6, <1>7, CWide
<1>9. x.epoch > synch[t]
  BY <1>1, <1>8
<1>10. x.id \in seen[t]
  BY <1>1, <1>2 DEF CInv, CClosed
<1>11. ASSUME NEW u \in Tids, u # t, x.id \in seen[u] PROVE FALSE
  <2>1. x.epoch <= clk[u][t]
    BY <1>1, <1>5, <1>11 DEF SInv, SHistory
  <2>2. clk[u][t] <= synch[t] /\ clk[u][t] \in Nat
    BY <1>11 DEF CInv, CExact, SInv, STyped
  <2> QED  BY <1>2, <1>6, <1>9, <2>1, <2>2
<1>12. ASSUME NEW s \in Syncs, x.id \in carried[s] PROVE FALSE
  <2>1. x.epoch <= sclk[s][t]
    BY <1>1, <1>5, <1>12 DEF SInv, SHistory
  <2>2. sclk[s][t] <= synch[t] /\ sclk[s][t] \in Nat
    BY DEF CInv, CExact, SInv, STyped
  <2> QED  BY <1>2, <1>6, <1>9, <2>1, <2>2
<1> QED  BY <1>1, <1>2, <1>3, <1>4, <1>5, <1>7, <1>9, <1>10, <1>11, <1>12

(* Nothing is known of freed memory.                                           *)
LEMMA CLive ==
  ASSUME NEW k, Sizeable(k), WideEnough(k), SInv(k), CInv(k), NEW t \in Tids, Shadow(k)!MayStart(t),
         NEW n \in Slots(k), shadow[n] # ZeroWord, ~shadow[n].freed
  PROVE  live /\ \A m \in Slots(k) : shadow[m] # ZeroWord => ~shadow[m].freed
<1>1. \A u \in Tids : ~op[u].heap
  BY CIdle DEF Sizeable
<1>2. live
  BY <1>1 DEF CInv, CDead
<1> QED  BY <1>2 DEF Slots, SInv, SFreed, Gone

(* What the words by which an access is known make of the other words.         *)
LEMMA CKnows ==
  ASSUME NEW k, Sizeable(k), WideEnough(k), SInv(k), CInv(k), NEW t \in Tids, NEW w \in Words,
         w.tid = t, ~w.freed, Shadow(k)!MayStart(t), NEW n \in Slots(k), NEW x, x = shadow[n],
         Shadow(k)!Known(x, w), ~HalfScanned(x),
         NEW m \in Slots(k), NEW y, y = shadow[m], y # ZeroWord, ~HalfScanned(y), Clash(y, w)
  PROVE  y.id \in seen[t]
<1>1. /\ x # ZeroWord /\ ~x.freed /\ x.id \in Made /\ x.tid = t /\ hist[x.id].word = x
      /\ x.range = w.range /\ (x.atomic <=> w.atomic) /\ (w.write => x.write)
      /\ x.id \in seen[t] /\ \A u \in Tids : u # t => x.id \notin seen[u]
  BY CKnown
<1>2. y \in Words /\ Describes(y) /\ y.id \in Made /\ hist[y.id].word.tid = y.tid /\ y.tid \in Tids
  BY CWord
<1>3. ~y.freed
  BY <1>1, CLive
<1>4. hist[y.id].word = y
  BY <1>2, <1>3 DEF Describes
<1>5. Clash(y, x) /\ Clash(x, y)
  BY <1>1 DEF Clash
<1>6. \A a, b : ~Ahead(a, b)
  BY CIdle DEF Sizeable
<1>7. Sound(k, x.id) /\ Sound(k, y.id)
  BY <1>1 DEF Sound, Cell
<1>8. CASE y.id < x.id
  <2>1. Compared(y, x.id)
    BY <1>1, <1>6, <1>7 DEF CInv, CCompared
  <2>2. y.id \in hist[x.id].knew
    BY <1>1, <1>5, <1>8, <2>1 DEF Compared
  <2> QED  BY <1>1, <2>2 DEF CInv, CClosed
<1>9. CASE x.id < y.id
  <2>1. Compared(x, y.id)
    BY <1>2, <1>6, <1>7 DEF CInv, CCompared
  <2>2. x.id \in hist[y.id].knew
    BY <1>1, <1>4, <1>5, <1>9, <2>1 DEF Compared
  <2>3. x.id \in seen[y.tid]
    BY <1>2, <2>2 DEF SInv, SHistory
  <2>4. y.tid = t
    BY <1>1, <1>2, <2>3
  <2> QED  BY <1>2, <2>4 DEF CInv, CClosed
<1>10. x.id \in Nat /\ y.id \in Nat
  BY <1>1, <1>2, SMade
<1> QED  BY <1>1, <1>8, <1>9, <1>10

(* An access that is in the cell already.                                      *)
LEMMA CSame ==
  ASSUME NEW k, Sizeable(k), WideEnough(k), SInv(k), CInv(k), NEW t \in Tids, Shadow(k)!Same(t)
  PROVE  CInv(k)'
<1>1. /\ op' = op /\ epoch' = epoch /\ live' = live /\ frees' = frees /\ syncs' = syncs /\ synch' = synch
      /\ clk' = clk /\ sclk' = sclk /\ carried' = carried /\ shadow' = shadow /\ reports' = reports
      /\ Shadow(k)!MayStart(t) /\ Len(hist) < k.accesses
  BY DEF Shadow!Same, Shadow!clocks
<1>2. PICK range \in k.ranges, write \in BOOLEAN, atomic \in BOOLEAN :
        LET cur == Shadow(k)!Word(t, epoch[t], range, write, atomic, FALSE)
        IN  /\ Shadow(k)!ContainsSameAccess(cur) /\ Shadow(k)!Record(cur, live)
            /\ excused' = IF \E i \in DOMAIN shadow :
                               Shadow(k)!Known(shadow[i], cur) /\ ~Shadow(k)!HalfScanned(shadow[i])
                          THEN excused ELSE excused \union {cur.id}
  BY DEF Shadow!Same
<1> DEFINE w == Shadow(k)!Word(t, epoch[t], range, write, atomic, FALSE)
<1>3. epoch[t] \in Nat /\ synch[t] \in Nat /\ range \in Granule /\ live \in BOOLEAN
      /\ DOMAIN shadow = Slots(k)
  BY DEF SInv, STyped, Sizeable, CInv, CTyped, Slots
<1>4. WordIs(w, t, epoch[t], range, write, atomic)
  BY <1>3, SWord
<1>5. /\ \E n \in Slots(k) : Shadow(k)!Known(shadow[n], w)
      /\ excused' \in {excused, excused \union {w.id}}
      /\ w.id \notin excused' =>
           \E n \in Slots(k) : Shadow(k)!Known(shadow[n], w) /\ ~HalfScanned(shadow[n])
      /\ Shadow(k)!Record(w, live)
  BY <1>2, <1>3 DEF Shadow!ContainsSameAccess, Shadow!ContainsSameAccessFast, Shadow!HalfScanned,
     HalfScanned
<1> HIDE DEF w
<1>6. w \in Words /\ w.id = Len(hist) + 1 /\ w.tid = t /\ ~w.freed /\ w.epoch = epoch[t]
  BY <1>4 DEF WordIs
<1>7. PICK n0 \in Slots(k) : Shadow(k)!Known(shadow[n0], w)
  BY <1>5
<1>8. w.epoch > synch[t] /\ live
  <2>1. /\ shadow[n0] # ZeroWord /\ ~shadow[n0].freed /\ shadow[n0].epoch > synch[t]
        /\ shadow[n0].epoch <= epoch[t] /\ shadow[n0].epoch \in Nat
    BY <1>6, <1>7, CKnown
  <2>2. live
    BY <1>1, <2>1, CLive
  <2> QED  BY <1>3, <1>6, <2>1, <2>2
<1>9. CRecords(k, t, w, live)
  <2>1. /\ hist' = Append(hist, [word |-> w, knew |-> seen[t], alive |-> live])
        /\ seen' = [seen EXCEPT ![t] = @ \union {w.id}]
    BY <1>5, <1>6 DEF Shadow!Record
  <2>2. epoch' \in [Tids -> Nat] /\ (\A u \in Tids : epoch[u] <= epoch'[u]) /\ w.epoch <= epoch'[t]
    BY <1>1, <1>3, <1>6 DEF SInv, STyped
  <2>3. \A u \in Tids : op[u] = Idle
    BY <1>1, CIdle DEF Sizeable
  <2> QED  BY <1>1, <1>6, <1>8, <2>1, <2>2, <2>3 DEF CRecords, Records
<1>10. /\ CClosed' /\ CExact' /\ Recorded(t, w, live) /\ Len(hist') = w.id
       /\ seen'[t] = seen[t] \union {w.id} /\ (\A u \in Tids : u # t => seen'[u] = seen[u])
       /\ \A x : \A i \in Made : StandsFor(x, i) => (x.id \in Made => StandsFor(x, i)')
       /\ \A x : \A j \in Made : Compared(x, j)' <=> Compared(x, j)
       /\ \A x : HalfScanned(x)' <=> HalfScanned(x)
  BY <1>3, <1>6, <1>9, CRecord
<1>11. /\ Made' = Made \union {w.id} /\ w.id \notin Made
       /\ \A i \in Made : hist'[i] = hist[i] /\ i < w.id
       /\ hist'[w.id].knew = seen[t] /\ hist'[w.id].alive = live /\ hist'[w.id].word = w
  BY <1>10 DEF Recorded
<1>12. /\ \A u \in Tids : op[u] = Idle /\ ~Busy(u) /\ op[u].pc = "idle"
       /\ \A i : ~Doing(i)
       /\ \A i, n : ~Ahead(i, n)
  BY <1>1, CIdle DEF Sizeable
<1>13. /\ \A u \in Tids : ~Busy(u)'
       /\ \A i : ~Doing(i)'
       /\ \A i, n : ~Ahead(i, n)'
  BY <1>1, <1>12 DEF Busy, Doing, Ahead
<1>14. \A n \in Slots(k) : shadow[n] # ZeroWord => shadow[n].id \in Made
  BY CWord
<1>15. \A i \in Made : i \notin excused' => i \notin excused
  BY <1>5
<1>a. CTyped'
  <2>1. excused \subseteq Made /\ \A r \in reports : r[1] \in excused
    BY DEF CInv, CTyped
  <2>2. excused' \subseteq Made' /\ excused \subseteq excused'
    BY <1>5, <1>11, <2>1
  <2> QED  BY <1>1, <2>1, <2>2 DEF CInv, CTyped
<1>b. CSerial'
  BY <1>13 DEF CSerial
<1>n. CCount(k)'
  <2>1. Len(hist) \in Nat /\ Len(hist') = Len(hist) + 1
    BY <1>6, <1>10 DEF SInv, STyped
  <2>2. (\A u \in Tids : ~Freeing(u)') /\ epoch \in [Tids -> Nat] /\ frees \in Nat /\ syncs \in Nat
    BY <1>13 DEF Freeing, SInv, STyped, CInv, CTyped
  <2>3. /\ frees <= k.frees /\ syncs <= k.syncs
        /\ \A u \in Tids : epoch[u] <= Len(hist) + frees + syncs
    BY DEF CInv, CCount
  <2>4. \A u \in Tids : epoch'[u] <= Len(hist') + frees + syncs
    BY <1>1, <2>1, <2>2, <2>3
  <2>5. Len(hist') <= k.accesses + frees
    BY <1>1, <2>1, <2>2 DEF Sizeable
  <2> QED  BY <1>1, <1>8, <2>2, <2>3, <2>4, <2>5 DEF CCount
<1>16. ASSUME w.id \notin excused', NEW y \in Cell(k), y # ZeroWord, ~HalfScanned(y), Clash(y, w)
       PROVE  y.id \in seen[t]
  <2>1. PICK n \in Slots(k) : Shadow(k)!Known(shadow[n], w) /\ ~HalfScanned(shadow[n])
    BY <1>5, <1>16
  <2>2. PICK m \in Slots(k) : y = shadow[m]
    BY DEF Cell
  <2> QED  BY <1>1, <1>6, <1>16, <2>1, <2>2, CKnows
<1>c. CCompared(k)'
  <2> SUFFICES ASSUME NEW n \in Slots(k), NEW j \in Made', NEW x \in {shadow'[n]}, Sound(k, j)'
               PROVE  Compared(x, j)'
    BY DEF CCompared, Slots
  <2>1. CASE j \in Made
    <3>1. Sound(k, j)
      BY <1>1, <1>10, <1>15, <2>1 DEF Sound, Cell, Slots
    <3>2. Compared(x, j)
      BY <1>1, <1>12, <2>1, <3>1 DEF CInv, CCompared
    <3> QED  BY <1>10, <2>1, <3>2
  <2>2. CASE j = w.id
    <3>1. w.id \notin excused'
      <4>1. \A y \in Cell(k) : y # ZeroWord => y.id # w.id
        BY <1>11, <1>14 DEF Cell
      <4> QED  BY <1>1, <2>2, <4>1 DEF Sound, Cell, Slots
    <3> SUFFICES ASSUME x # ZeroWord, ~HalfScanned(x)', Clash(x, w) PROVE x.id \in seen[t]
      BY <1>11, <2>2 DEF Compared
    <3>2. x \in Cell(k)
      BY <1>1 DEF Cell
    <3> QED  BY <1>10, <1>16, <3>1, <3>2
  <2> QED  BY <1>11, <2>1, <2>2
<1>d. CCovered(k)'
  <2> SUFFICES ASSUME NEW i \in Made', i \notin excused', ~hist'[i].word.atomic
               PROVE  \E x \in Cell(k) : StandsFor(x, i)'
    BY <1>1 DEF CCovered, Cell, Slots
  <2>1. CASE i \in Made
    <3>1. PICK x \in Cell(k) : StandsFor(x, i)
      BY <1>11, <1>12, <1>15, <2>1 DEF CInv, CCovered
    <3>2. x.id \in Made
      BY <1>14, <3>1 DEF StandsFor, Cell
    <3> QED  BY <1>10, <2>1, <3>1, <3>2
  <2>2. CASE i = w.id
    <3>1. PICK n \in Slots(k) : Shadow(k)!Known(shadow[n], w) /\ ~HalfScanned(shadow[n])
      BY <1>5, <2>2
    <3>2. PICK x \in Cell(k) : x = shadow[n]
      BY DEF Cell
    <3>3. /\ x # ZeroWord /\ x.id \in Made /\ x.range = w.range /\ (x.atomic <=> w.atomic)
          /\ (w.write => x.write)
          /\ \A u \in Tids : u # t => x.id \notin seen[u]
          /\ \A s \in Syncs : x.id \notin carried[s]
      BY <1>6, <3>1, <3>2, CKnown
    <3>4. Follows(x.id, i)'
      BY <1>1, <1>10, <2>2, <3>3 DEF Follows
    <3>5. ~HalfScanned(x)'
      BY <1>10, <3>1, <3>2
    <3>6. ~x.atomic
      BY <1>11, <2>2, <3>3
    <3> QED  BY <1>11, <2>2, <3>3, <3>4, <3>5, <3>6 DEF StandsFor
  <2> QED  BY <1>11, <2>1, <2>2
<1>e. CScan(k)'
  BY <1>1, <1>12 DEF CScan, Scanning
<1>f. CDead(k)'
  BY <1>1, <1>8, <1>13 DEF CDead
<1>g. CRaces'
  <2> SUFFICES ASSUME NEW i \in Made', NEW j \in Made', i \notin excused', j \notin excused', i < j,
                      ~hist'[i].word.atomic, hist'[i].word.tid # hist'[j].word.tid,
                      Clash(hist'[i].word, hist'[j].word)
               PROVE  i \in hist'[j].knew
    BY DEF CRaces, Clash
  <2>1. i \in Made
    <3>1. \A x \in Made : x \in Nat /\ x < w.id /\ w.id \in Nat
      BY <1>11, SMade, <1>6 DEF Words
    <3> QED  BY <1>11, <3>1
  <2>2. CASE j \in Made
    BY <1>11, <1>12, <1>15, <2>1, <2>2 DEF CInv, CRaces
  <2>3. CASE j = w.id
    <3>1. PICK y \in Cell(k) : StandsFor(y, i)
      BY <1>11, <1>12, <1>15, <2>1 DEF CInv, CCovered
    <3>2. Clash(hist[i].word, w)
      BY <1>11, <2>1, <2>3
    <3>3. Clash(y, w)
      BY <3>1, <3>2 DEF StandsFor, Clash
    <3>4. y.id \in seen[t]
      BY <1>16, <2>3, <3>1, <3>3 DEF StandsFor
    <3>5. i \in seen[t]
      BY <3>1, <3>4 DEF StandsFor, Follows
    <3> QED  BY <1>11, <2>3, <3>5
  <2> QED  BY <1>11, <2>2, <2>3
<1>i. CFound'
  BY <1>1, <1>8, <1>11, <1>12 DEF CInv, CFound
<1> QED  BY <1>10, <1>a, <1>b, <1>c, <1>d, <1>e, <1>f, <1>g, <1>i, <1>n DEF CInv

(* Threads synchronize while nobody scans: the cell stays, and what a word     *)
(* stands for goes where the word goes.                                        *)
LEMMA CSync ==
  ASSUME NEW k, Sizeable(k), SInv(k), CInv(k), NEW t \in Tids, Shadow(k)!MayStart(t),
         UNCHANGED <<hist, shadow, op, reports, excused, live>>,
         CTyped', CClosed', CExact', CCount(k)',
         \A n, i \in Made : Follows(n, i) => Follows(n, i)'
  PROVE  CInv(k)'
<1>1. /\ hist' = hist /\ shadow' = shadow /\ op' = op /\ reports' = reports /\ excused' = excused
      /\ live' = live /\ Made' = Made /\ Cell(k)' = Cell(k)
  BY DEF Made, Cell, Slots
<1>2. /\ \A u \in Tids : ~Busy(u) /\ op[u].pc = "idle"
      /\ (\A i : ~Doing(i)) /\ (\A i, n : ~Ahead(i, n))
  BY CIdle DEF Sizeable
<1>3. /\ \A u \in Tids : ~Busy(u)' /\ op'[u].pc = "idle"
      /\ (\A i : ~Doing(i)') /\ (\A i, n : ~Ahead(i, n)')
  BY <1>1, <1>2 DEF Busy, Doing, Ahead
<1>4. /\ \A x : HalfScanned(x)' <=> HalfScanned(x)
      /\ \A x, j : Compared(x, j)' <=> Compared(x, j)
  BY <1>1 DEF HalfScanned, Compared
<1>5. CCompared(k)'
  <2>1. \A j : Sound(k, j)' => Sound(k, j)
    BY <1>1, <1>4 DEF Sound
  <2> QED  BY <1>1, <1>2, <1>4, <2>1 DEF CInv, CCompared, Slots
<1>6. CCovered(k)'
  <2> SUFFICES ASSUME NEW i \in Made, i \notin excused, ~hist[i].word.atomic
               PROVE  \E x \in Cell(k)' : StandsFor(x, i)'
    BY <1>1 DEF CCovered
  <2>1. PICK x \in Cell(k) : StandsFor(x, i)
    BY <1>2 DEF CInv, CCovered
  <2>2. x.id \in Made
    BY <2>1, CWord DEF Cell, StandsFor
  <2> QED  BY <1>1, <1>4, <2>1, <2>2 DEF StandsFor
<1>7. CSerial' /\ CScan(k)'
  BY <1>3 DEF CSerial, CScan, Scanning
<1>8. CDead(k)'
  BY <1>1, <1>3 DEF CInv, CDead, Slots
<1>9. CRaces' /\ CFound'
  BY <1>1, <1>2 DEF CInv, CRaces, CFound
<1> QED  BY <1>5, <1>6, <1>7, <1>8, <1>9 DEF CInv

(* The count of what happened bounds the epochs.                               *)
LEMMA CCounted ==
  ASSUME NEW k, Sizeable(k), SInv(k), CInv(k), NEW t \in Tids, Shadow(k)!MayStart(t),
         UNCHANGED <<hist, op, live, frees>>, syncs < k.syncs, syncs' = syncs + 1,
         \A u \in Tids : epoch'[u] \in {epoch[u], epoch[u] + 1}
  PROVE  CCount(k)'
<1>1. \A u \in Tids : ~Busy(u)
  BY CIdle DEF Sizeable
<1>2. \A u \in Tids : ~Freeing(u)'
  BY <1>1 DEF Freeing, Busy
<1>3. epoch \in [Tids -> Nat] /\ frees \in Nat /\ syncs \in Nat /\ Len(hist) \in Nat
  BY DEF SInv, STyped, CInv, CTyped
<1>4. /\ frees <= k.frees
      /\ \A u \in Tids : epoch[u] <= Len(hist) + frees + syncs
      /\ Len(hist) <= k.accesses + frees
      /\ ~live => frees >= 1
      /\ ~live /\ ~Remade => Len(hist) < k.accesses + frees
  BY DEF CInv, CCount
<1>5. \A u \in Tids : epoch'[u] <= Len(hist) + frees + (syncs + 1)
  BY <1>3, <1>4
<1>6. syncs + 1 <= k.syncs
  BY <1>3 DEF Sizeable
<1>7. Remade' <=> Remade
  BY DEF Remade
<1> QED  BY <1>2, <1>4, <1>5, <1>6, <1>7 DEF CCount

LEMMA CAcquire ==
  ASSUME NEW k, Sizeable(k), SInv(k), CInv(k), NEW t \in Tids, NEW s \in Syncs, Shadow(k)!Acquire(t, s)
  PROVE  CInv(k)'
<1> DEFINE from == [clk[t] EXCEPT ![t] = epoch[t]]
           now == [u \in Tids |-> IF from[u] >= sclk[s][u] THEN from[u] ELSE sclk[s][u]]
<1>1. /\ Shadow(k)!MayStart(t) /\ clk' = [clk EXCEPT ![t] = now]
      /\ seen' = [seen EXCEPT ![t] = @ \union carried[s]]
      /\ sclk' = sclk /\ carried' = carried /\ hist' = hist /\ epoch' = epoch /\ synch' = synch
      /\ shadow' = shadow /\ live' = live /\ reports' = reports /\ op' = op /\ excused' = excused
      /\ frees' = frees /\ syncs' = syncs + 1 /\ syncs < k.syncs
  BY DEF Shadow!Acquire, Shadow!Join
<1>2. \A u \in Tids : u # t => now[u] \in {clk[t][u], sclk[s][u]}
  <2>1. \A u \in Tids : u # t => from[u] = clk[t][u]
    BY DEF SInv, STyped
  <2> HIDE DEF from
  <2> QED  BY <2>1
<1> HIDE DEF now
<1>3. /\ clk'[t] = now /\ (\A u \in Tids : u # t => clk'[u] = clk[u])
      /\ seen'[t] = seen[t] \union carried[s]
      /\ \A u \in Tids : u # t => seen'[u] = seen[u]
  BY <1>1 DEF SInv, STyped
<1>4. Made' = Made
  BY <1>1 DEF Made
<1>5. CTyped'
  BY <1>1, <1>4 DEF CInv, CTyped
<1>6. CClosed'
  <2>1. ASSUME NEW u \in Tids, NEW i \in seen'[u] PROVE hist[i].knew \subseteq seen'[u]
    BY <1>3, <2>1 DEF CInv, CClosed
  <2>2. ASSUME NEW i \in Made PROVE i \in seen'[hist[i].word.tid]
    <3>1. i \in seen[hist[i].word.tid] /\ hist[i].word.tid \in Tids
      BY SMade DEF CInv, CClosed
    <3> QED  BY <1>3, <3>1
  <2> QED  BY <1>1, <1>4, <2>1, <2>2 DEF CInv, CClosed
<1>7. CExact'
  <2>1. ASSUME NEW u \in Tids, NEW v \in Tids, u # v PROVE clk'[u][v] <= synch[v]
    <3>1. clk[u][v] <= synch[v] /\ sclk[s][v] <= synch[v]
      BY <2>1 DEF CInv, CExact
    <3> QED  BY <1>2, <1>3, <2>1, <3>1
  <2>2. ASSUME NEW i \in Made, NEW u \in Tids, hist[i].word.epoch <= clk'[u][hist[i].word.tid]
        PROVE  i \in seen'[u]
    <3>1. i \in seen[hist[i].word.tid] /\ hist[i].word.tid \in Tids
      BY SMade DEF CInv, CClosed
    <3>2. /\ hist[i].word.epoch <= clk[u][hist[i].word.tid] => i \in seen[u]
          /\ hist[i].word.epoch <= sclk[s][hist[i].word.tid] => i \in carried[s]
      BY DEF CInv, CExact
    <3> QED  BY <1>2, <1>3, <2>2, <3>1, <3>2
  <2> QED  BY <1>1, <1>4, <2>1, <2>2 DEF CInv, CExact
<1>8. CCount(k)'
  BY <1>1, CCounted
<1>9. ASSUME NEW n \in Made, NEW i \in Made, Follows(n, i) PROVE Follows(n, i)'
  BY <1>1, <1>3, <1>9 DEF Follows
<1> QED  BY <1>1, <1>5, <1>6, <1>7, <1>8, <1>9, CSync

LEMMA CRelease ==
  ASSUME NEW k, Sizeable(k), SInv(k), CInv(k), NEW t \in Tids, NEW s \in Syncs, Shadow(k)!Release(t, s)
  PROVE  CInv(k)'
<1> DEFINE now == [clk[t] EXCEPT ![t] = epoch[t] + 1]
           to == [u \in Tids |-> IF sclk[s][u] >= now[u] THEN sclk[s][u] ELSE now[u]]
<1>1. /\ Shadow(k)!MayStart(t) /\ clk' = [clk EXCEPT ![t] = now]
      /\ epoch' = [epoch EXCEPT ![t] = epoch[t] + 1]
      /\ synch' = [synch EXCEPT ![t] = epoch[t] + 1]
      /\ carried' = [carried EXCEPT ![s] = @ \union seen[t]]
      /\ sclk' = [sclk EXCEPT ![s] = to] /\ hist' = hist /\ seen' = seen
      /\ shadow' = shadow /\ live' = live /\ reports' = reports /\ op' = op /\ excused' = excused
      /\ frees' = frees /\ syncs' = syncs + 1 /\ syncs < k.syncs
  BY DEF Shadow!Release, Shadow!Join
<1>2. /\ now[t] = epoch[t] + 1 /\ (\A u \in Tids : u # t => now[u] = clk[t][u])
      /\ epoch[t] \in Nat
  BY DEF SInv, STyped
<1> HIDE DEF now
<1>3. \A u \in Tids : to[u] \in {sclk[s][u], now[u]}
  OBVIOUS
<1> HIDE DEF to
<1>4. /\ clk'[t] = now /\ (\A u \in Tids : u # t => clk'[u] = clk[u])
      /\ sclk'[s] = to /\ (\A x \in Syncs : x # s => sclk'[x] = sclk[x])
      /\ carried'[s] = carried[s] \union seen[t]
      /\ \A x \in Syncs : x # s => carried'[x] = carried[x]
      /\ epoch'[t] = epoch[t] + 1 /\ \A u \in Tids : u # t => epoch'[u] = epoch[u]
  BY <1>1 DEF SInv, STyped
<1>5. /\ synch'[t] = epoch[t] + 1 /\ synch' \in [Tids -> Nat] /\ \A u \in Tids : u # t => synch'[u] = synch[u]
  BY <1>1, <1>2 DEF CInv, CTyped
<1>6. Made' = Made
  BY <1>1 DEF Made
<1>7. CTyped'
  BY <1>1, <1>5, <1>6 DEF CInv, CTyped
<1>8. CClosed'
  <2>1. ASSUME NEW x \in Syncs, NEW i \in carried'[x] PROVE hist[i].knew \subseteq carried'[x]
    BY <1>4, <2>1 DEF CInv, CClosed
  <2> QED  BY <1>1, <1>6, <2>1 DEF CInv, CClosed
<1>9. CExact'
  <2>1. \A u \in Tids : synch[u] \in Nat /\ epoch[u] \in Nat /\ synch[u] <= epoch[u]
    BY DEF CInv, CTyped, CExact, SInv, STyped
  <2>2. \A u \in Tids : synch'[u] <= epoch'[u] /\ synch[u] <= synch'[u] /\ synch'[u] \in Nat
    BY <1>4, <1>5, <2>1
  <2>3. ASSUME NEW u \in Tids, NEW v \in Tids, u # v PROVE clk'[u][v] <= synch'[v]
    <3>1. clk[u][v] <= synch[v] /\ clk[u][v] \in Nat
      BY <2>3 DEF CInv, CExact, SInv, STyped
    <3>2. clk'[u][v] = clk[u][v]
      BY <1>2, <1>4, <2>3
    <3> QED  BY <2>1, <2>2, <3>1, <3>2
  <2>4. ASSUME NEW x \in Syncs, NEW v \in Tids PROVE sclk'[x][v] <= synch'[v]
    <3>1. sclk[x][v] <= synch[v] /\ sclk[x][v] \in Nat
      BY DEF CInv, CExact, SInv, STyped
    <3>2. CASE sclk'[x][v] = sclk[x][v]
      BY <2>1, <2>2, <3>1, <3>2
    <3>3. CASE x = s /\ sclk'[x][v] = now[v]
      <4>1. CASE v = t
        BY <1>2, <1>5, <3>3, <4>1
      <4>2. CASE v # t
        <5>1. clk[t][v] <= synch[v] /\ clk[t][v] \in Nat
          BY <4>2 DEF CInv, CExact, SInv, STyped
        <5> QED  BY <1>2, <1>5, <3>3, <4>2, <5>1
      <4> QED  BY <4>1, <4>2
    <3> QED  BY <1>3, <1>4, <3>2, <3>3
  <2>5. ASSUME NEW i \in Made
        PROVE  /\ \A u \in Tids : hist[i].word.epoch <= clk'[u][hist[i].word.tid] => i \in seen[u]
               /\ \A x \in Syncs : hist[i].word.epoch <= sclk'[x][hist[i].word.tid] => i \in carried'[x]
    <3>1. i \in seen[hist[i].word.tid] /\ hist[i].word.tid \in Tids
      BY SMade DEF CInv, CClosed
    <3>2. /\ \A u \in Tids : hist[i].word.epoch <= clk[u][hist[i].word.tid] => i \in seen[u]
          /\ \A x \in Syncs : hist[i].word.epoch <= sclk[x][hist[i].word.tid] => i \in carried[x]
      BY DEF CInv, CExact
    <3>3. ASSUME NEW u \in Tids, hist[i].word.epoch <= clk'[u][hist[i].word.tid] PROVE i \in seen[u]
      BY <1>2, <1>4, <3>1, <3>2, <3>3
    <3>4. ASSUME NEW x \in Syncs, hist[i].word.epoch <= sclk'[x][hist[i].word.tid]
          PROVE  i \in carried'[x]
      <4>1. CASE sclk'[x][hist[i].word.tid] = sclk[x][hist[i].word.tid]
        BY <1>4, <3>2, <3>4, <4>1
      <4>2. CASE x = s /\ sclk'[x][hist[i].word.tid] = now[hist[i].word.tid]
        BY <1>2, <1>4, <3>1, <3>2, <3>4, <4>2
      <4> QED  BY <1>3, <1>4, <3>1, <4>1, <4>2
    <3> QED  BY <3>3, <3>4
  <2> QED  BY <1>1, <1>6, <2>2, <2>3, <2>4, <2>5 DEF CExact
<1>10. CCount(k)'
  <2>1. \A u \in Tids : epoch'[u] \in {epoch[u], epoch[u] + 1}
    BY <1>4
  <2> QED  BY <1>1, <2>1, CCounted
<1>11. ASSUME NEW n \in Made, NEW i \in Made, Follows(n, i) PROVE Follows(n, i)'
  BY <1>1, <1>4, <1>11 DEF Follows
<1> QED  BY <1>1, <1>7, <1>8, <1>9, <1>10, <1>11, CSync

(* While a cell is scanned or filled only epochs advance.                      *)
LEMMA CStill ==
  ASSUME NEW k, SInv(k), CInv(k), Still, synch' = synch,
         epoch' \in [Tids -> Nat], \A u \in Tids : epoch[u] <= epoch'[u]
  PROVE  CClosed' /\ CExact' /\ Made' = Made
<1>1. /\ clk' = clk /\ sclk' = sclk /\ carried' = carried /\ hist' = hist /\ seen' = seen
      /\ Made' = Made
  BY DEF Still, Made
<1>2. \A u \in Tids : synch[u] <= epoch'[u]
  <2>1. \A u \in Tids : synch[u] \in Nat /\ epoch[u] \in Nat /\ epoch'[u] \in Nat /\ synch[u] <= epoch[u]
    BY DEF CInv, CTyped, CExact, SInv, STyped
  <2> QED  BY <2>1
<1> QED  BY <1>1, <1>2 DEF CInv, CClosed, CExact

(* A step of a scan: what does not depend on the words.                        *)
CScans(k, t, x) ==
  /\ Scanning(t) /\ Onward(k, op[t], x) /\ (x = Idle => ~op[t].heap)
  /\ op' = [op EXCEPT ![t] = x]
  /\ Still /\ UNCHANGED <<synch, epoch, live, frees, syncs>>
  /\ excused' \subseteq Made /\ (\A r \in reports' : r[1] \in excused')
  /\ Scanning(t)' => Len(hist) \notin excused'
  /\ live \/ op[t].heap \/ (x = Idle /\ shadow' = shadow)

LEMMA CBase ==
  ASSUME NEW k, Sizeable(k), SInv(k), CInv(k), NEW t \in Tids, NEW x, CScans(k, t, x)
  PROVE  /\ CTyped' /\ CSerial' /\ CClosed' /\ CExact' /\ CCount(k)' /\ CDead(k)'
         /\ Made' = Made /\ hist' = hist /\ op'[t] = x /\ (\A u \in Tids : u # t => op'[u] = Idle)
         /\ \A i : Doing(i)' <=> i = Len(hist) /\ x # Idle
         /\ \A n, i : Ahead(i, n)' <=> i = Len(hist) /\ x # Idle /\ ~Passed(t, n)'
         /\ \A y : \A i : Follows(y, i)' <=> Follows(y, i)
<1>h. /\ Scanning(t) /\ Onward(k, op[t], x) /\ (x = Idle => ~op[t].heap)
      /\ op' = [op EXCEPT ![t] = x]
      /\ Still /\ UNCHANGED <<synch, epoch, live, frees, syncs>>
      /\ excused' \subseteq Made /\ (\A r \in reports' : r[1] \in excused')
      /\ Scanning(t)' => Len(hist) \notin excused'
      /\ live \/ op[t].heap \/ (x = Idle /\ shadow' = shadow)
  BY DEF CScans
<1>1. op[t] # Idle
  BY <1>h DEF Scanning, Idle
<1>2. /\ Busy(t) /\ op[t] \in Ops(k) /\ op[t].cur.id = Len(hist)
      /\ \A u \in Tids : u # t => op[u] = Idle
      /\ seen[t] = hist[Len(hist)].knew \union {Len(hist)}
  BY <1>1, CBusy DEF Sizeable
<1>3. x # Idle => /\ x \in Ops(k) /\ x.cur = op[t].cur /\ (x.heap <=> op[t].heap) /\ x.pc # "set"
                  /\ x.pc = "mark" => x.heap
  BY <1>h DEF Onward
<1>4. op'[t] = x /\ (\A u \in Tids : u # t => op'[u] = Idle)
  BY <1>h, <1>2 DEF SInv, STyped
<1>5. /\ Busy(t)' <=> x # Idle
      /\ \A u \in Tids : u # t => ~Busy(u)'
  <2>1. x # Idle => x.pc # "idle"
    BY <1>3 DEF Ops
  <2> QED  BY <1>4, <2>1 DEF Busy, Idle
<1>6. epoch \in [Tids -> Nat] /\ \A u \in Tids : epoch[u] <= epoch'[u]
  BY <1>h DEF SInv, STyped
<1>7. /\ CClosed' /\ CExact' /\ Made' = Made /\ hist' = hist /\ seen' = seen /\ carried' = carried
  BY <1>h, <1>6, CStill DEF Still
<1>8. CTyped'
  BY <1>h, <1>7 DEF CInv, CTyped
<1>9. CSerial'
  <2>1. op[t].heap => Overall(op[t].cur)
    BY <1>2 DEF CInv, CSerial
  <2>2. x # Idle /\ x.heap => Overall(x.cur)
    BY <1>3, <2>1 DEF Overall
  <2> QED  BY <1>h, <1>2, <1>3, <1>4, <1>5, <1>7, <2>2 DEF CSerial
<1>10. CCount(k)'
  <2>1. ~Remade /\ ~Remade'
    BY <1>h, <1>2, <1>3, <1>4 DEF Remade, Scanning, Idle
  <2>2. \A u \in Tids : Freeing(u)' => Freeing(u)
    BY <1>h, <1>2, <1>3, <1>4, <1>5 DEF Freeing, Scanning
  <2> QED  BY <1>h, <1>7, <2>1, <2>2 DEF CInv, CCount
<1>11. CDead(k)'
  <2>d. /\ ~live /\ (\A u \in Tids : ~op[u].heap) =>
           /\ shadow[0] # ZeroWord /\ shadow[0].freed /\ Overall(shadow[0])
           /\ \A n \in Slots(k) : n # 0 => shadow[n] = ZeroWord
        /\ ~hist[op[t].cur.id].alive => ~live /\ ~op[t].heap
    BY <1>2 DEF CInv, CDead
  <2>1. CASE live \/ op[t].heap
    <3>1. ~(~live' /\ \A u \in Tids : ~op'[u].heap)
      BY <1>h, <1>3, <1>4, <2>1
    <3>2. ASSUME NEW u \in Tids, Busy(u)'
          PROVE  hist'[op'[u].cur.id].alive /\ (live' \/ op'[u].heap)
      BY <1>h, <1>3, <1>4, <1>5, <1>7, <2>1, <2>d, <3>2
    <3> QED  BY <3>1, <3>2 DEF CDead
  <2>2. CASE x = Idle /\ shadow' = shadow
    <3>1. \A u \in Tids : ~Busy(u)'
      BY <1>5, <2>2
    <3>2. \A u \in Tids : ~op[u].heap
      BY <1>h, <1>2, <2>2 DEF Idle
    <3> QED  BY <1>h, <2>2, <2>d, <3>1, <3>2 DEF CDead, Overall, Slots
  <2> QED  BY <1>h, <2>1, <2>2
<1>12. \A i : Doing(i)' <=> i = Len(hist) /\ x # Idle
  BY <1>2, <1>3, <1>4, <1>5 DEF Doing
<1>13. \A n, i : Ahead(i, n)' <=> i = Len(hist) /\ x # Idle /\ ~Passed(t, n)'
  BY <1>2, <1>3, <1>4, <1>5 DEF Ahead
<1>14. \A y : \A i : Follows(y, i)' <=> Follows(y, i)
  BY <1>7 DEF Follows
<1> QED  BY <1>4, <1>7, <1>8, <1>9, <1>10, <1>11, <1>12, <1>13, <1>14

(* A scan goes on from a word, or stores over it what stands for more, or ends *)
(* there with its own word in the cell.                                        *)
CGoes(k, t, x, z) ==
  /\ op[t].pc \in {"load", "store"} /\ (live \/ op[t].heap)
  /\ shadow' = [shadow EXCEPT ![op[t].idx] = z] /\ z \in {shadow[op[t].idx], ZeroWord, op[t].cur}
  /\ z # shadow[op[t].idx] =>
       /\ Shadow(k)!Verdict(shadow[op[t].idx], op[t].cur, op[t].stored) = "store"
       /\ op[t].cur \in Cell(k)'
  /\ x = Idle \/ x.pc = "evict" => op[t].idx + 1 = k.cnt
  /\ x # Idle /\ x.pc = "load" => x.idx = op[t].idx + 1
  /\ x # Idle /\ x.pc = "store" => x.idx = op[t].idx
  /\ x = Idle => op[t].cur \in Cell(k)'
  /\ op[t].pc = "load" => \A y \in {shadow[op[t].idx]} : Compared(y, Len(hist))
  /\ reports' = reports /\ excused' = excused

LEMMA CGo ==
  ASSUME NEW k, Sizeable(k), SInv(k), CInv(k), NEW t \in Tids, NEW x, NEW z,
         CScans(k, t, x), CGoes(k, t, x, z), CScan(k)'
  PROVE  CInv(k)'
<1> DEFINE o == op[t]
           j0 == Len(hist)
<1>h. /\ o.pc \in {"load", "store"} /\ (live \/ o.heap)
      /\ shadow' = [shadow EXCEPT ![o.idx] = z] /\ z \in {shadow[o.idx], ZeroWord, o.cur}
      /\ z # shadow[o.idx] =>
           /\ Shadow(k)!Verdict(shadow[o.idx], o.cur, o.stored) = "store"
           /\ o.cur \in Cell(k)'
      /\ x = Idle \/ x.pc = "evict" => o.idx + 1 = k.cnt
      /\ x # Idle /\ x.pc = "load" => x.idx = o.idx + 1
      /\ x # Idle /\ x.pc = "store" => x.idx = o.idx
      /\ x = Idle => o.cur \in Cell(k)'
      /\ o.pc = "load" => \A y \in {shadow[o.idx]} : Compared(y, j0)
      /\ reports' = reports /\ excused' = excused
  BY DEF CGoes
<1>s. /\ Onward(k, o, x) /\ (x = Idle => ~o.heap) /\ Still /\ UNCHANGED live
  BY DEF CScans
<1>1. /\ Busy(t) /\ o \in Ops(k) /\ o.cur \in Words /\ o.idx \in Slots(k)
      /\ o.cur.tid = t /\ o.cur.id = j0 /\ j0 \in Made
      /\ hist[j0].word.tid = t /\ (~o.cur.freed => o.cur = hist[j0].word)
      /\ seen[t] = hist[j0].knew \union {j0}
      /\ \A u \in Tids : u # t => j0 \notin seen[u]
      /\ \A s \in Syncs : j0 \notin carried[s]
      /\ \A i \in Made : i <= j0 /\ i \in Nat
      /\ \A i : Doing(i) <=> i = j0
      /\ \A n, i : Ahead(i, n) <=> i = j0 /\ ~Passed(t, n)
  <2>1. o # Idle
    BY <1>h DEF Idle
  <2> QED  BY <2>1, CBusy DEF Sizeable
<1>2. ~o.cur.freed /\ j0 \notin excused
  BY <1>h, <1>1 DEF SInv, SWords, CInv, CSerial, Scanning
<1>3. o.cur = hist[j0].word
  BY <1>1, <1>2
<1>4. /\ CTyped' /\ CSerial' /\ CClosed' /\ CExact' /\ CCount(k)' /\ CDead(k)'
      /\ Made' = Made /\ hist' = hist /\ op'[t] = x
      /\ \A i : Doing(i)' <=> i = j0 /\ x # Idle
      /\ \A n, i : Ahead(i, n)' <=> i = j0 /\ x # Idle /\ ~Passed(t, n)'
      /\ \A y : \A i : Follows(y, i)' <=> Follows(y, i)
  BY CBase
<1>5. /\ \A y : HalfScanned(y)' <=> HalfScanned(y)
      /\ \A y, i : Compared(y, i)' <=> Compared(y, i)
      /\ \A y, i : StandsFor(y, i)' <=> StandsFor(y, i)
  <2>1. \A y : HalfScanned(y)' <=> HalfScanned(y)
    BY <1>h DEF HalfScanned
  <2> QED  BY <1>4, <2>1 DEF Compared, StandsFor
<1>6. shadow'[o.idx] = z /\ \A n \in Slots(k) : n # o.idx => shadow'[n] = shadow[n]
  BY <1>h, <1>1 DEF SInv, STyped, Slots
<1>7. Cell(k)' = {shadow'[n] : n \in Slots(k)}
  BY DEF Cell, Slots
<1>8. ~HalfScanned(o.cur)
  BY <1>1, <1>2 DEF HalfScanned, CInv, CTyped
<1>9. ASSUME NEW n \in Slots(k), ~Ahead(j0, n)' PROVE n < o.idx \/ n = o.idx
  <2>1. n \in Nat /\ o.idx \in Nat /\ n <= k.cnt - 1 /\ k.cnt \in Nat
    BY <1>1 DEF Slots, Sizeable
  <2>2. CASE x = Idle \/ x.pc = "evict"
    <3>1. o.idx + 1 = k.cnt
      BY <1>h, <2>2
    <3> QED  BY <2>1, <3>1
  <2>3. CASE x # Idle /\ x.pc # "evict"
    <3>1. Passed(t, n)'
      BY <1>4, <1>9, <2>3
    <3>2. \/ x.pc = "load" /\ n < x.idx
          \/ x.pc = "store" /\ n <= x.idx
      BY <1>4, <2>3, <3>1 DEF Passed
    <3>3. CASE x.pc = "load" /\ n < x.idx
      <4>1. x.idx = o.idx + 1
        BY <1>h, <2>3, <3>3
      <4> QED  BY <2>1, <3>3, <4>1
    <3>4. CASE x.pc = "store" /\ n <= x.idx
      <4>1. x.idx = o.idx
        BY <1>h, <2>3, <3>4
      <4> QED  BY <2>1, <3>4, <4>1
    <3> QED  BY <3>2, <3>3, <3>4
  <2> QED  BY <2>2, <2>3
<1>c. CCompared(k)'
  <2> SUFFICES ASSUME NEW n \in Slots(k), NEW j \in Made, NEW y \in {shadow'[n]},
                      Sound(k, j)', ~Ahead(j, n)'
               PROVE  Compared(y, j)
    BY <1>4, <1>5 DEF CCompared, Slots
  <2>1. CASE y = o.cur \/ y = ZeroWord
    BY <1>1, <2>1 DEF Compared
  <2>2. CASE y = shadow[n] /\ y # o.cur
    <3>1. Sound(k, j)
      <4>1. CASE j \notin excused
        BY <4>1 DEF Sound
      <4>2. CASE j \in excused
        <5>1. PICK v \in Cell(k)' : v # ZeroWord /\ v.id = j /\ ~HalfScanned(v)
          BY <1>h, <1>5, <4>2 DEF Sound
        <5>2. v # o.cur
          BY <1>1, <1>2, <4>2, <5>1
        <5>3. v \in Cell(k)
          BY <1>h, <1>1, <1>6, <1>7, <5>1, <5>2 DEF Cell
        <5> QED  BY <5>1, <5>3 DEF Sound
      <4> QED  BY <4>1, <4>2
    <3>2. CASE j # j0
      BY <1>1, <2>2, <3>1, <3>2 DEF CInv, CCompared
    <3>3. CASE j = j0 /\ o.pc = "load" /\ n = o.idx
      BY <1>h, <2>2, <3>3
    <3>4. CASE j = j0 /\ ~(o.pc = "load" /\ n = o.idx)
      <4>0. ~Ahead(j0, n)'
        BY <1>4, <3>4
      <4>1. n < o.idx \/ n = o.idx
        BY <1>9, <4>0
      <4>2. Passed(t, n)
        BY <1>h, <1>1, <3>4, <4>1 DEF Passed, Slots
      <4> QED  BY <1>1, <2>2, <3>1, <3>4, <4>2 DEF CInv, CCompared
    <3> QED  BY <3>2, <3>3, <3>4
  <2> QED  BY <1>h, <1>6, <2>1, <2>2
<1>d. CCovered(k)'
  <2> SUFFICES ASSUME NEW i \in Made, i \notin excused, ~hist[i].word.atomic, ~Doing(i)'
               PROVE  \E y \in Cell(k)' : StandsFor(y, i)
    BY <1>h, <1>4, <1>5 DEF CCovered
  <2>1. CASE i = j0
    <3>1. o.cur \in Cell(k)'
      BY <1>h, <1>4, <2>1
    <3>2. o.cur # ZeroWord
      BY <1>1 DEF Words, ZeroWord
    <3>3. StandsFor(o.cur, i)
      BY <1>1, <1>3, <1>8, <2>1, <3>2 DEF StandsFor, Follows
    <3> QED  BY <3>1, <3>3
  <2>2. CASE i # j0
    <3>1. PICK y \in Cell(k) : StandsFor(y, i)
      BY <1>1, <2>2 DEF CInv, CCovered
    <3>2. CASE y \in Cell(k)'
      BY <3>1, <3>2
    <3>3. CASE y \notin Cell(k)'
      <4>1. y = shadow[o.idx] /\ z # y
        BY <1>1, <1>6, <1>7, <3>3 DEF Cell
      <4>2. y # ZeroWord /\ Shadow(k)!Verdict(y, o.cur, o.stored) = "store" /\ o.cur \in Cell(k)'
        BY <1>h, <3>1, <4>1 DEF StandsFor
      <4>3. /\ Shadow(k)!SameTid(y, o.cur) \/ Shadow(k)!HappensBefore(y, o.cur.tid)
            /\ y.range = o.cur.range /\ Shadow(k)!Weakness(y) >= Shadow(k)!Weakness(o.cur)
        BY <4>2 DEF Shadow!Verdict, Shadow!ZeroWord, ZeroWord
      <4>4. y.id \in seen[t]
        <5>1. y.tid = t \/ Shadow(k)!HappensBefore(y, t)
          BY <1>1, <4>3 DEF Shadow!SameTid
        <5> QED  BY <1>1, <4>1, <4>2, <5>1, COrdered DEF Sizeable
      <4>5. ~o.cur.atomic /\ (y.write => o.cur.write)
        BY <1>1, <3>1, <4>3, CWords DEF StandsFor
      <4>6. Follows(o.cur.id, i)
        BY <1>1, <3>1, <4>4 DEF StandsFor, Follows
      <4>7. o.cur # ZeroWord
        BY <1>1 DEF Words, ZeroWord
      <4>8. StandsFor(o.cur, i)
        BY <1>8, <3>1, <4>3, <4>5, <4>6, <4>7 DEF StandsFor
      <4> QED  BY <4>2, <4>8
    <3> QED  BY <3>2, <3>3
  <2> QED  BY <2>1, <2>2
<1>g. CRaces'
  <2> SUFFICES ASSUME NEW i \in Made, NEW j \in Made, i \notin excused, j \notin excused, i < j,
                      ~hist[i].word.atomic, ~Doing(j)', hist[i].word.tid # hist[j].word.tid,
                      Clash(hist[i].word, hist[j].word)
               PROVE  i \in hist[j].knew
    BY <1>h, <1>4 DEF CRaces, Clash
  <2>1. CASE j # j0
    BY <1>1, <2>1 DEF CInv, CRaces
  <2>2. CASE j = j0
    <3>1. x = Idle /\ i # j0
      BY <1>1, <1>4, <2>2
    <3>2. PICK y \in Cell(k)' : StandsFor(y, i)
      BY <1>d, <1>h, <1>4, <1>5, <3>1 DEF CCovered
    <3>3. Clash(y, hist[j0].word)
      BY <2>2, <3>2 DEF StandsFor, Clash
    <3>4. PICK n \in Slots(k) : y = shadow'[n]
      BY <1>7, <3>2
    <3>5. Compared(y, j0)
      <4>1. Sound(k, j0)' /\ ~Ahead(j0, n)'
        BY <1>h, <1>2, <1>4, <3>1 DEF Sound
      <4> QED  BY <1>1, <1>4, <1>5, <1>c, <3>4, <4>1 DEF CCompared, Slots
    <3>6. y.id \in Made
      <4>1. CASE y = o.cur
        BY <1>1, <4>1
      <4>2. CASE y # o.cur
        <5>1. y = shadow[n] /\ y # ZeroWord
          BY <1>h, <1>6, <3>2, <3>4, <4>2 DEF StandsFor
        <5> QED  BY <5>1, CWord
      <4> QED  BY <4>1, <4>2
    <3>7. y.id \in seen[t]
      <4>1. CASE y.id = j0
        BY <1>1, <4>1
      <4>2. CASE y.id # j0
        <5>1. y.id < j0
          BY <1>1, <3>6, <4>2
        <5>2. y.id \in hist[j0].knew
          BY <3>2, <3>3, <3>5, <5>1 DEF Compared, StandsFor
        <5> QED  BY <1>1, <5>2
      <4> QED  BY <4>1, <4>2
    <3>8. i \in seen[t]
      BY <3>2, <3>7 DEF StandsFor, Follows
    <3> QED  BY <1>1, <2>2, <3>1, <3>8
  <2> QED  BY <2>1, <2>2
<1>i. CFound'
  <2> SUFFICES ASSUME NEW j \in Made, ~hist[j].alive, ~Doing(j)'
               PROVE  \E r \in reports : r[1] = j
    BY <1>h, <1>4 DEF CFound
  <2>1. CASE j = j0
    BY <1>1, <1>h, <2>1 DEF CInv, CDead
  <2>2. CASE j # j0
    BY <1>1, <2>2 DEF CInv, CFound
  <2> QED  BY <2>1, <2>2
<1> QED  BY <1>4, <1>c, <1>d, <1>g, <1>i DEF CInv

(* Where exactly a scan goes on.                                               *)
LEMMA CAfter ==
  ASSUME NEW k, k.cnt \in Nat \ {0}, NEW o \in Ops(k), o.pc # "set", o.pc # "mark",
         NEW x, x = Shadow(k)!AfterWord(o)
  PROVE  /\ x = Idle => ~o.heap /\ o.stored /\ o.idx + 1 = k.cnt
         /\ x # Idle => /\ x.pc \in {"load", "evict", "mark"}
                        /\ x.pc = "load" => x.idx = o.idx + 1 /\ (x.stored <=> o.stored)
                        /\ x.pc = "evict" => ~x.stored /\ o.idx + 1 = k.cnt
<1>0. o.idx \in 0 .. k.cnt - 1
  BY DEF Ops
<1>1. CASE o.idx + 1 < k.cnt
  <2> DEFINE y == [o EXCEPT !.pc = "load"]
             z == [y EXCEPT !.idx = o.idx + 1]
  <2>1. x = [o EXCEPT !.pc = "load", !.idx = o.idx + 1]
    BY <1>1 DEF Shadow!AfterWord
  <2>2. [o EXCEPT !.pc = "load", !.idx = o.idx + 1] = z
    OBVIOUS
  <2>3. y \in Ops(k) /\ (y.stored <=> o.stored) /\ y.pc = "load"
    BY DEF Ops
  <2> HIDE DEF y
  <2>4. z.idx = o.idx + 1 /\ (z.stored <=> o.stored) /\ z.pc = "load"
    BY <2>3 DEF Ops
  <2> HIDE DEF z
  <2>5. x = z
    BY <2>1, <2>2
  <2>6. x # Idle
    BY <2>4, <2>5 DEF Idle
  <2> QED  BY <2>4, <2>5, <2>6
<1>2. CASE ~(o.idx + 1 < k.cnt) /\ ~o.stored
  <2> DEFINE z == [o EXCEPT !.pc = "evict"]
  <2>1. x = z
    BY <1>2 DEF Shadow!AfterWord
  <2>2. z.pc = "evict" /\ ~z.stored
    BY <1>2 DEF Ops
  <2> HIDE DEF z
  <2>3. x # Idle
    BY <2>1, <2>2 DEF Idle
  <2> QED  BY <1>0, <1>2, <2>1, <2>2, <2>3
<1>3. CASE ~(o.idx + 1 < k.cnt) /\ o.stored
  <2>1. x = Shadow(k)!End(o)
    BY <1>3 DEF Shadow!AfterWord
  <2>2. o.idx + 1 = k.cnt
    BY <1>0, <1>3
  <2>3. CASE o.heap
    <3> DEFINE z == [o EXCEPT !.pc = "mark"]
    <3>1. x = z
      BY <2>1, <2>3 DEF Shadow!End
    <3>2. z.pc = "mark"
      BY DEF Ops
    <3> HIDE DEF z
    <3> QED  BY <3>1, <3>2 DEF Idle
  <2>4. CASE ~o.heap
    BY <1>3, <2>1, <2>2, <2>4 DEF Shadow!End, Shadow!Idle, Idle
  <2> QED  BY <2>3, <2>4
<1> QED  BY <1>1, <1>2, <1>3

(* A scan goes on from a word; s says that its own word is in the cell by now. *)
CPasses(k, t, y, z) ==
  /\ op[t].pc \in {"load", "store"} /\ (live \/ op[t].heap)
  /\ y \in Ops(k) /\ y.cur = op[t].cur /\ y.idx = op[t].idx /\ (y.heap <=> op[t].heap)
  /\ y.pc \in {"load", "store"}
  /\ op' = [op EXCEPT ![t] = Shadow(k)!AfterWord(y)]
  /\ Still /\ UNCHANGED <<synch, epoch, live, frees, syncs, reports, excused>>
  /\ shadow' = [shadow EXCEPT ![op[t].idx] = z] /\ z \in {shadow[op[t].idx], ZeroWord, op[t].cur}
  /\ z # shadow[op[t].idx] =>
       Shadow(k)!Verdict(shadow[op[t].idx], op[t].cur, op[t].stored) = "store" /\ y.stored
  /\ y.stored => \E m \in Slots(k) : shadow'[m] = op[t].cur /\ m <= op[t].idx
  /\ op[t].pc = "load" => \A v \in {shadow[op[t].idx]} : Compared(v, Len(hist))

LEMMA CPass ==
  ASSUME NEW k, Sizeable(k), SInv(k), CInv(k), NEW t \in Tids, NEW y, NEW z, CPasses(k, t, y, z)
  PROVE  CInv(k)'
<1> DEFINE o == op[t]
           x == Shadow(k)!AfterWord(y)
<1>h. /\ o.pc \in {"load", "store"} /\ (live \/ o.heap)
      /\ y \in Ops(k) /\ y.cur = o.cur /\ y.idx = o.idx /\ (y.heap <=> o.heap)
      /\ y.pc \in {"load", "store"}
      /\ op' = [op EXCEPT ![t] = x]
      /\ Still /\ UNCHANGED <<synch, epoch, live, frees, syncs, reports, excused>>
      /\ shadow' = [shadow EXCEPT ![o.idx] = z] /\ z \in {shadow[o.idx], ZeroWord, o.cur}
      /\ z # shadow[o.idx] => Shadow(k)!Verdict(shadow[o.idx], o.cur, o.stored) = "store" /\ y.stored
      /\ y.stored => \E m \in Slots(k) : shadow'[m] = o.cur /\ m <= o.idx
      /\ o.pc = "load" => \A v \in {shadow[o.idx]} : Compared(v, Len(hist))
  BY DEF CPasses
<1>1. /\ o # Idle /\ Busy(t) /\ o \in Ops(k) /\ o.cur.id = Len(hist) /\ Len(hist) \in Made
      /\ \A u \in Tids : u # t => op[u] = Idle
  <2>1. o # Idle
    BY <1>h DEF Idle
  <2> QED  BY <2>1, CBusy DEF Sizeable
<1>2. Onward(k, y, x)
  BY <1>h, SAfter DEF Sizeable
<1>3. /\ x = Idle => ~y.heap /\ y.stored /\ y.idx + 1 = k.cnt
      /\ x # Idle => /\ x.pc \in {"load", "evict", "mark"}
                     /\ x.pc = "load" => x.idx = y.idx + 1 /\ (x.stored <=> y.stored)
                     /\ x.pc = "evict" => ~x.stored /\ y.idx + 1 = k.cnt
  BY <1>h, CAfter DEF Sizeable
<1> HIDE DEF x
<1>4. Onward(k, o, x)
  BY <1>h, <1>2 DEF Onward
<1>5. op'[t] = x /\ \A u \in Tids : u # t => op'[u] = Idle
  BY <1>h, <1>1 DEF SInv, STyped
<1>6. y.stored => o.cur \in Cell(k)'
  BY <1>h DEF Cell, Slots
<1>7. Idle.pc = "idle"
  BY DEF Idle
<1>8. CScans(k, t, x)
  <2>1. Scanning(t)
    BY <1>h DEF Scanning
  <2>2. excused' \subseteq Made /\ (\A r \in reports' : r[1] \in excused') /\ Len(hist) \notin excused'
    BY <1>h, <1>1, <2>1 DEF CInv, CTyped, CSerial
  <2> QED  BY <1>h, <1>3, <1>4, <2>1, <2>2 DEF CScans
<1>9. CGoes(k, t, x, z)
  <2>1. x = Idle \/ x.pc = "evict" => o.idx + 1 = k.cnt
    BY <1>h, <1>3, <1>7
  <2> QED  BY <1>h, <1>3, <1>6, <2>1 DEF CGoes
<1>10. CScan(k)'
  <2> SUFFICES ASSUME NEW u \in Tids
               PROVE  /\ Scanning(u)' /\ op'[u].stored =>
                           \E m \in Slots(k) :
                             /\ shadow'[m] = op'[u].cur /\ Passed(u, m)'
                             /\ op'[u].pc = "store" => m # op'[u].idx
                      /\ op'[u].pc # "store" /\ op'[u].pc # "set"
    BY DEF CScan, Slots
  <2>1. CASE u # t \/ x = Idle
    BY <1>5, <1>7, <2>1 DEF Scanning
  <2>2. CASE u = t /\ x # Idle
    <3>1. x.pc # "store" /\ x.pc # "set"
      BY <1>3, <2>2
    <3>2. ASSUME Scanning(t)', x.stored
          PROVE  \E m \in Slots(k) : shadow'[m] = o.cur /\ Passed(t, m)'
      <4>1. x.pc = "load" /\ x.idx = o.idx + 1 /\ y.stored
        BY <1>h, <1>3, <1>5, <2>2, <3>2 DEF Scanning
      <4>2. PICK m \in Slots(k) : shadow'[m] = o.cur /\ m <= o.idx
        BY <1>h, <4>1
      <4>3. m < x.idx
        BY <1>1, <4>1, <4>2 DEF Slots, Ops
      <4> QED  BY <1>5, <4>1, <4>2, <4>3 DEF Passed
    <3>3. x.cur = o.cur
      BY <1>4, <2>2 DEF Onward
    <3> QED  BY <1>5, <2>2, <3>1, <3>2, <3>3
  <2> QED  BY <2>1, <2>2
<1> QED  BY <1>8, <1>9, <1>10, CGo

(* A word that an access passes without a report, it was compared with.        *)
LEMMA CLooks ==
  ASSUME NEW k, Sizeable(k), SInv(k), CInv(k), NEW t \in Tids, op[t].pc \in {"load", "store"},
         NEW y, y = shadow[op[t].idx],
         Shadow(k)!Verdict(y, op[t].cur, op[t].stored) # "race"
  PROVE  /\ Compared(y, Len(hist))
         /\ live \/ op[t].heap
<1> DEFINE o == op[t]
<1>1. /\ Busy(t) /\ o \in Ops(k) /\ o.cur \in Words /\ o.idx \in Slots(k)
      /\ o.cur.tid = t /\ o.cur.id = Len(hist)
      /\ (~o.cur.freed => o.cur = hist[Len(hist)].word)
      /\ \A u \in Tids : u # t => op[u] = Idle
      /\ seen[t] = hist[Len(hist)].knew \union {Len(hist)}
      /\ \A i \in Made : i <= Len(hist) /\ i \in Nat
  <2>1. o # Idle
    BY DEF Idle
  <2> QED  BY <2>1, CBusy DEF Sizeable
<1>2. ~o.cur.freed
  BY <1>1 DEF SInv, SWords
<1>3. o.cur = hist[Len(hist)].word
  BY <1>1, <1>2
<1>4. \/ y = ZeroWord
      \/ ~Shadow(k)!Intersect(y.range, o.cur.range)
      \/ Shadow(k)!SameTid(y, o.cur) \/ Shadow(k)!HappensBefore(y, t)
      \/ Shadow(k)!Harmless(y, o.cur)
  BY <1>1 DEF Shadow!Verdict, Shadow!ZeroWord, ZeroWord
<1>5. Compared(y, Len(hist))
  <2> SUFFICES ASSUME y # ZeroWord, y.id < Len(hist), Clash(y, o.cur)
               PROVE  y.id \in hist[Len(hist)].knew
    BY <1>3 DEF Compared
  <2>1. Shadow(k)!Intersect(y.range, o.cur.range) /\ ~Shadow(k)!Harmless(y, o.cur)
    BY DEF Shadow!Intersect, Shadow!Harmless, Clash
  <2>2. y.tid = t \/ Shadow(k)!HappensBefore(y, t)
    BY <1>1, <1>4, <2>1 DEF Shadow!SameTid
  <2>3. y.id \in seen[t]
    BY <1>1, <2>2, COrdered DEF Sizeable
  <2>4. y.id # Len(hist)
    BY <1>1, <2>3 DEF SInv, SHistory
  <2> QED  BY <1>1, <2>3, <2>4
<1>6. live \/ o.heap
  <2> SUFFICES ASSUME ~live, ~o.heap PROVE FALSE
    OBVIOUS
  <2>1. \A u \in Tids : ~op[u].heap
    BY <1>1 DEF Idle
  <2>2. /\ shadow[0] # ZeroWord /\ shadow[0].freed /\ Overall(shadow[0])
        /\ o.pc = "load" /\ o.idx = 0
    BY <1>1, <2>1 DEF CInv, CDead
  <2>3. y # ZeroWord /\ y.freed /\ y.range = <<0, 8>> /\ y.write /\ ~y.atomic
    BY <2>2 DEF Overall
  <2>4. ~Shadow(k)!SameTid(y, o.cur)
    BY <1>2, <2>3 DEF Shadow!SameTid
  <2>5. ~Shadow(k)!HappensBefore(y, t) /\ ~Shadow(k)!Harmless(y, o.cur)
    BY <2>3 DEF Shadow!HappensBefore, Shadow!Harmless
  <2>6. Shadow(k)!Intersect(y.range, o.cur.range)
    <3>1. o.cur.range \in Granule
      BY <1>1 DEF Words
    <3>2. /\ o.cur.range[1] \in 0 .. 7 /\ o.cur.range[2] \in {1, 2, 4, 8}
      BY <3>1 DEF Granule
    <3>3. y.range[1] = 0 /\ y.range[2] = 8
      BY <2>3
    <3> QED  BY <3>2, <3>3 DEF Shadow!Intersect
  <2> QED  BY <1>4, <2>3, <2>4, <2>5, <2>6
<1> QED  BY <1>5, <1>6

(* A race is reported: the access is known to have raced, and what the cell    *)
(* knew of all accesses before is no longer asked for.                         *)
LEMMA CRace ==
  ASSUME NEW k, Sizeable(k), SInv(k), CInv(k), NEW t \in Tids, op[t].pc = "load",
         NEW x, x = Shadow(k)!End(op[t]), op' = [op EXCEPT ![t] = x], NEW r0,
         r0[1] = Len(hist), reports' = reports \union {r0}, excused' = Made,
         Still, UNCHANGED <<synch, epoch, live, frees, syncs, shadow>>
  PROVE  CInv(k)'
<1> DEFINE o == op[t]
           j0 == Len(hist)
<1>1. /\ o # Idle /\ o \in Ops(k) /\ j0 \in Made /\ Made \subseteq Nat
      /\ \A i : Doing(i) <=> i = j0
      /\ \A n, i : Ahead(i, n) <=> i = j0 /\ ~Passed(t, n)
  <2>1. o # Idle
    BY DEF Idle
  <2> QED  BY <2>1, CBusy DEF Sizeable
<1>2. Onward(k, o, x)
  BY <1>1, SAfter DEF Sizeable
<1>3. /\ x = Idle => ~o.heap
      /\ x # Idle => x.pc = "mark"
  <2>1. CASE o.heap
    <3> DEFINE y == [o EXCEPT !.pc = "mark"]
    <3>1. y.pc = "mark" /\ x = y
      BY <1>1, <2>1 DEF Ops, Shadow!End
    <3> HIDE DEF y
    <3> QED  BY <3>1 DEF Idle
  <2>2. CASE ~o.heap
    BY <2>2 DEF Shadow!End, Shadow!Idle, Idle
  <2> QED  BY <2>1, <2>2
<1>4. op'[t] = x
  BY DEF SInv, STyped
<1>5. Idle.pc = "idle"
  BY DEF Idle
<1>6. CScans(k, t, x)
  <2>1. Scanning(t) /\ ~Scanning(t)'
    BY <1>3, <1>4, <1>5 DEF Scanning
  <2>2. \A r \in reports' : r[1] \in excused'
    BY <1>1 DEF SInv, SReports
  <2>3. live \/ o.heap \/ (x = Idle /\ shadow' = shadow)
    BY DEF Shadow!End, Shadow!Idle, Idle
  <2> QED  BY <1>2, <1>3, <2>1, <2>2, <2>3 DEF CScans
<1>7. /\ CTyped' /\ CSerial' /\ CClosed' /\ CExact' /\ CCount(k)' /\ CDead(k)'
      /\ Made' = Made /\ hist' = hist /\ (\A u \in Tids : u # t => op'[u] = Idle)
      /\ \A i : Doing(i)' <=> i = j0 /\ x # Idle
  BY <1>6, CBase
<1>8. /\ \A y : HalfScanned(y) => HalfScanned(y)'
      /\ \A y : HalfScanned(y)' => HalfScanned(y) \/ y.id = j0
      /\ \A y : y.id = j0 => HalfScanned(y)'
      /\ \A y, i : Compared(y, i) => Compared(y, i)'
  <2>1. r0 \in reports' /\ \A r \in reports : r \in reports'
    OBVIOUS
  <2>2. \A y : HalfScanned(y) => HalfScanned(y)'
    BY <2>1 DEF HalfScanned
  <2>3. \A y : y.id = j0 => HalfScanned(y)'
    BY <2>1 DEF HalfScanned
  <2>4. \A y : HalfScanned(y)' => HalfScanned(y) \/ y.id = j0
    BY DEF HalfScanned
  <2> QED  BY <1>7, <2>2, <2>3, <2>4 DEF Compared
<1>9. Cell(k)' = Cell(k)
  BY DEF Cell, Slots
<1>c. CCompared(k)'
  <2> SUFFICES ASSUME NEW n \in Slots(k), NEW j \in Made, NEW y \in {shadow[n]}, Sound(k, j)'
               PROVE  Compared(y, j)'
    BY <1>7 DEF CCompared, Slots
  <2>1. PICK v \in Cell(k) : v # ZeroWord /\ v.id = j /\ ~HalfScanned(v)'
    BY <1>9 DEF Sound
  <2>2. j # j0 /\ Sound(k, j)
    BY <1>8, <2>1 DEF Sound
  <2>3. Compared(y, j)
    BY <1>1, <2>2 DEF CInv, CCompared
  <2> QED  BY <1>8, <2>3
<1>d. CCovered(k)' /\ CRaces'
  BY <1>7 DEF CCovered, CRaces
<1>e. CScan(k)'
  <2>1. \A u \in Tids : ~Scanning(u)' /\ op'[u].pc # "store" /\ op'[u].pc # "set"
    BY <1>3, <1>4, <1>5, <1>7 DEF Scanning
  <2> QED  BY <2>1 DEF CScan
<1>i. CFound'
  <2> SUFFICES ASSUME NEW j \in Made, ~hist[j].alive
               PROVE  \E r \in reports' : r[1] = j
    BY <1>7 DEF CFound
  <2>1. CASE j = j0
    BY <2>1
  <2>2. CASE j # j0
    BY <1>1, <2>2 DEF CInv, CFound
  <2> QED  BY <2>1, <2>2
<1> QED  BY <1>7, <1>c, <1>d, <1>e, <1>i DEF CInv

(* One look at a word.                                                         *)
LEMMA CLoad ==
  ASSUME NEW k, Sizeable(k), SInv(k), CInv(k), NEW t \in Tids, Shadow(k)!Load(t)
  PROVE  CInv(k)'
<1> DEFINE o == op[t]
           old == shadow[o.idx]
           v == Shadow(k)!Verdict(old, o.cur, o.stored)
           x == CASE v = "leave" -> Shadow(k)!AfterWord(o)
                  [] v = "store" -> [o EXCEPT !.pc = "store"]
                  [] v = "race" -> Shadow(k)!End(o)
<1>1. /\ o.pc = "load" /\ op' = [op EXCEPT ![t] = x]
      /\ v = "race" => reports' = reports \union {<<o.cur.id, old.id>>} /\ excused' = 1 .. Len(hist)
      /\ v # "race" => reports' = reports /\ excused' = excused
      /\ Still /\ UNCHANGED <<synch, epoch, live, frees, syncs, shadow>>
  BY DEF Shadow!Load, Shadow!clocks, Still
<1>2. v \in {"leave", "store", "race"}
  BY DEF Shadow!Verdict
<1>3. /\ o \in Ops(k) /\ Busy(t) /\ o.idx \in Slots(k) /\ o.cur.id = Len(hist)
      /\ \A u \in Tids : u # t => op[u] = Idle
  <2>1. o # Idle
    BY <1>1 DEF Idle
  <2> QED  BY <2>1, CBusy DEF Sizeable
<1>4. shadow' = [shadow EXCEPT ![o.idx] = shadow[o.idx]]
  BY <1>1 DEF SInv, STyped
<1>5. CASE v = "race"
  <2> DEFINE r0 == <<o.cur.id, old.id>>
  <2>1. r0[1] = Len(hist) /\ reports' = reports \union {r0} /\ excused' = Made
    BY <1>1, <1>3, <1>5 DEF Made
  <2> HIDE DEF r0
  <2>2. op' = [op EXCEPT ![t] = Shadow(k)!End(o)]
    <3> HIDE DEF v
    <3> QED  BY <1>1, <1>5
  <2> HIDE DEF x, v
  <2> QED  BY <1>1, <2>1, <2>2, CRace
<1>6. CASE v # "race"
  <2>1. live \/ o.heap
    BY <1>1, <1>6, CLooks
  <2>2. \A y \in {shadow[o.idx]} : Compared(y, Len(hist))
    BY <1>1, <1>6, CLooks
  <2>3. Scanning(t) /\ Len(hist) \notin excused
    BY <1>1, <1>3 DEF Scanning, CInv, CSerial
  <2>4. o.stored => \E m \in Slots(k) : shadow[m] = o.cur /\ m < o.idx
    BY <1>1, <2>3 DEF CInv, CScan, Passed
  <2>5. CASE v = "leave"
    <3>1. op' = [op EXCEPT ![t] = Shadow(k)!AfterWord(o)]
      <4> HIDE DEF v
      <4> QED  BY <1>1, <2>5
    <3> HIDE DEF x, v
    <3>2. o.stored => \E m \in Slots(k) : shadow'[m] = o.cur /\ m <= o.idx
      <4>1. \A m \in Slots(k) : m < o.idx => m <= o.idx
        BY <1>3 DEF Slots
      <4> QED  BY <1>1, <2>4, <4>1
    <3>3. CPasses(k, t, o, shadow[o.idx])
      BY <1>1, <1>3, <1>4, <1>6, <2>1, <2>2, <3>1, <3>2 DEF CPasses
    <3> QED  BY <3>3, CPass
  <2>6. CASE v = "store"
    <3> DEFINE y == [o EXCEPT !.pc = "store"]
    <3>1. /\ y \in Ops(k) /\ y.cur = o.cur /\ (y.heap <=> o.heap) /\ y.pc = "store" /\ y.idx = o.idx
      BY <1>3 DEF Ops
    <3>9. y.stored = o.stored
      BY <1>3 DEF Ops
    <3>2. op' = [op EXCEPT ![t] = y]
      <4> HIDE DEF v, y
      <4>1. x = y
        BY <2>6 DEF y
      <4> QED  BY <1>1, <4>1
    <3> HIDE DEF x, y
    <3>3. op'[t] = y /\ \A u \in Tids : u # t => op'[u] = Idle
      BY <1>3, <3>2 DEF SInv, STyped
    <3>4. Idle.pc = "idle" /\ y # Idle
      BY <3>1 DEF Idle
    <3>5. CScans(k, t, y)
      <4>1. excused' \subseteq Made /\ (\A r \in reports' : r[1] \in excused') /\ Len(hist) \notin excused'
        BY <1>1, <1>6, <2>3 DEF CInv, CTyped
      <4>2. Onward(k, o, y)
        BY <3>1 DEF Onward
      <4> QED  BY <1>1, <2>1, <2>3, <3>2, <3>4, <4>1, <4>2 DEF CScans
    <3>6. CGoes(k, t, y, shadow[o.idx])
      BY <1>1, <1>4, <1>6, <2>1, <2>2, <3>1, <3>4 DEF CGoes
    <3>7. CScan(k)'
      <4> SUFFICES ASSUME NEW u \in Tids
                   PROVE  /\ Scanning(u)' /\ op'[u].stored =>
                               \E m \in Slots(k) :
                                 /\ shadow'[m] = op'[u].cur /\ Passed(u, m)'
                                 /\ op'[u].pc = "store" => m # op'[u].idx
                          /\ op'[u].pc = "store" => u = t
                          /\ op'[u].pc # "set"
        <5>1. Shadow(k)!Verdict(shadow[y.idx], y.cur, y.stored) = "store"
          BY <2>6, <3>1, <3>9
        <5>2. Shadow(k)!Verdict(shadow[op[t].idx], op[t].cur, op[t].stored)' = "store"
          BY <1>1, <3>3, <5>1 DEF Still, Shadow!Verdict, Shadow!HappensBefore, Shadow!SameTid,
             Shadow!Intersect, Shadow!Weakness, Shadow!Harmless, Shadow!ZeroWord
        <5> QED  BY <5>1, <5>2 DEF CScan, Slots
      <4>1. CASE u # t
        BY <3>3, <3>4, <4>1 DEF Scanning
      <4>2. CASE u = t
        <5>1. ASSUME y.stored
              PROVE  \E m \in Slots(k) : shadow'[m] = y.cur /\ Passed(t, m)' /\ m # y.idx
          <6>1. PICK m \in Slots(k) : shadow[m] = o.cur /\ m < o.idx
            BY <2>4, <3>9, <5>1
          <6>2. m <= o.idx /\ m # o.idx
            BY <1>3, <6>1 DEF Slots
          <6> QED  BY <1>1, <3>1, <3>3, <6>1, <6>2 DEF Passed
        <5> QED  BY <3>1, <3>3, <4>2, <5>1
      <4> QED  BY <4>1, <4>2
    <3> QED  BY <3>5, <3>6, <3>7, CGo
  <2> QED  BY <1>2, <1>6, <2>5, <2>6
<1> QED  BY <1>5, <1>6

(* The store of the word, or of zero over a weaker one.                        *)
LEMMA CStore ==
  ASSUME NEW k, Sizeable(k), SInv(k), CInv(k), NEW t \in Tids, Shadow(k)!Store(t)
  PROVE  CInv(k)'
<1> DEFINE o == op[t]
           y == [o EXCEPT !.stored = TRUE]
           z == IF o.stored THEN ZeroWord ELSE o.cur
<1>1. /\ o.pc = "store" /\ op' = [op EXCEPT ![t] = Shadow(k)!AfterWord(y)]
      /\ shadow' = [shadow EXCEPT ![o.idx] = z]
      /\ Still /\ UNCHANGED <<synch, epoch, live, frees, syncs, reports, excused>>
  BY DEF Shadow!Store, Shadow!clocks, Shadow!ZeroWord, ZeroWord, Still
<1>2. o \in Ops(k) /\ Busy(t) /\ o.idx \in Slots(k)
  <2>1. o # Idle
    BY <1>1 DEF Idle
  <2> QED  BY <2>1, CBusy DEF Sizeable
<1>3. /\ y \in Ops(k) /\ y.cur = o.cur /\ (y.heap <=> o.heap) /\ y.pc = "store" /\ y.idx = o.idx
      /\ y.stored
  BY <1>1, <1>2 DEF Ops
<1> HIDE DEF y
<1>4. Shadow(k)!Verdict(shadow[o.idx], o.cur, o.stored) = "store"
  BY <1>1 DEF CInv, CScan
<1>5. live \/ o.heap
  BY <1>1, <1>4, CLooks
<1>6. \E m \in Slots(k) : shadow'[m] = o.cur /\ m <= o.idx
  <2>1. CASE o.stored
    <3>1. PICK m \in Slots(k) : shadow[m] = o.cur /\ Passed(t, m) /\ m # o.idx
      BY <1>1, <2>1 DEF CInv, CScan, Scanning
    <3>2. shadow'[m] = shadow[m] /\ m <= o.idx
      BY <1>1, <3>1 DEF SInv, STyped, Slots, Passed
    <3> QED  BY <3>1, <3>2
  <2>2. CASE ~o.stored
    <3>1. shadow'[o.idx] = o.cur
      BY <1>1, <1>2, <2>2 DEF SInv, STyped, Slots
    <3>2. o.idx <= o.idx
      BY <1>2 DEF Slots
    <3> QED  BY <1>2, <3>1, <3>2
  <2> QED  BY <2>1, <2>2
<1>7. z \in {shadow[o.idx], ZeroWord, o.cur}
  OBVIOUS
<1> HIDE DEF z
<1>8. CPasses(k, t, y, z)
  BY <1>1, <1>3, <1>4, <1>5, <1>6, <1>7 DEF CPasses
<1> QED  BY <1>8, CPass

(* The cell forgets an access: of all before this one nothing is asked any     *)
(* more.                                                                       *)
LEMMA CEvict ==
  ASSUME NEW k, Sizeable(k), SInv(k), CInv(k), NEW t \in Tids, Shadow(k)!Evict(t)
  PROVE  CInv(k)'
<1> DEFINE o == op[t]
           j0 == Len(hist)
           e == o.cur.epoch % k.cnt
           x == Shadow(k)!End(o)
<1>1. /\ o.pc = "evict" /\ op' = [op EXCEPT ![t] = x]
      /\ shadow' = [shadow EXCEPT ![e] = o.cur]
      /\ excused' = excused \union (1 .. o.cur.id - 1)
      /\ Still /\ UNCHANGED <<synch, epoch, live, frees, syncs, reports>>
  BY DEF Shadow!Evict, Shadow!clocks, Still
<1>2. /\ o # Idle /\ Busy(t) /\ o \in Ops(k) /\ o.cur \in Words /\ o.cur.id = j0 /\ j0 \in Made
      /\ (~o.cur.freed => o.cur = hist[j0].word)
      /\ \A i \in Made : i <= j0 /\ i \in Nat
      /\ \A i : Doing(i) <=> i = j0
      /\ \A n, i : Ahead(i, n) <=> i = j0 /\ ~Passed(t, n)
  <2>1. o # Idle
    BY <1>1 DEF Idle
  <2> QED  BY <2>1, CBusy DEF Sizeable
<1>3. ~o.cur.freed /\ Scanning(t) /\ j0 \notin excused
  BY <1>1, <1>2 DEF SInv, SWords, CInv, CSerial, Scanning
<1>4. o.cur = hist[j0].word /\ o.cur # ZeroWord
  BY <1>2, <1>3 DEF Words, ZeroWord
<1>5. e \in Slots(k)
  BY <1>2 DEF Words, Slots, Sizeable
<1>6. Onward(k, o, x)
  BY <1>1, <1>2, SAfter DEF Sizeable
<1>7. /\ x = Idle => ~o.heap
      /\ x # Idle => x.pc = "mark"
  <2>1. CASE o.heap
    <3> DEFINE y == [o EXCEPT !.pc = "mark"]
    <3>1. y.pc = "mark" /\ x = y
      BY <1>2, <2>1 DEF Ops, Shadow!End
    <3> HIDE DEF y
    <3> QED  BY <3>1 DEF Idle
  <2>2. CASE ~o.heap
    BY <2>2 DEF Shadow!End, Shadow!Idle, Idle
  <2> QED  BY <2>1, <2>2
<1> HIDE DEF x, e
<1>8. op'[t] = x
  BY <1>1 DEF SInv, STyped
<1>9. Idle.pc = "idle"
  BY DEF Idle
<1>10. hist[j0].alive /\ (live \/ o.heap)
  BY <1>1, <1>2 DEF CInv, CDead
<1>11. /\ j0 \notin excused' /\ (\A i \in Made : i \notin excused' => i = j0)
       /\ excused \subseteq excused' /\ excused' \subseteq Made
  <2>1. \A i \in Made : i # j0 => i \in 1 .. o.cur.id - 1
    BY <1>2 DEF Made
  <2>2. 1 .. o.cur.id - 1 \subseteq Made /\ j0 \notin 1 .. o.cur.id - 1
    BY <1>2 DEF Made
  <2> QED  BY <1>1, <1>3, <2>1, <2>2 DEF CInv, CTyped
<1>12. CScans(k, t, x)
  <2>1. ~Scanning(t)'
    BY <1>7, <1>8, <1>9 DEF Scanning
  <2>2. \A r \in reports' : r[1] \in excused'
    BY <1>1, <1>11 DEF CInv, CTyped
  <2> QED  BY <1>1, <1>3, <1>6, <1>7, <1>10, <1>11, <2>1, <2>2 DEF CScans
<1>13. /\ CTyped' /\ CSerial' /\ CClosed' /\ CExact' /\ CCount(k)' /\ CDead(k)'
       /\ Made' = Made /\ hist' = hist /\ (\A u \in Tids : u # t => op'[u] = Idle)
       /\ \A i : Doing(i)' <=> i = j0 /\ x # Idle
       /\ \A y : \A i : Follows(y, i)' <=> Follows(y, i)
  BY <1>12, CBase
<1>14. /\ \A y : HalfScanned(y)' <=> HalfScanned(y)
       /\ \A y, i : Compared(y, i)' <=> Compared(y, i)
  <2>1. \A y : HalfScanned(y)' <=> HalfScanned(y)
    BY <1>1 DEF HalfScanned
  <2> QED  BY <1>13, <2>1 DEF Compared
<1>15. shadow'[e] = o.cur /\ \A n \in Slots(k) : n # e => shadow'[n] = shadow[n]
  BY <1>1, <1>5 DEF SInv, STyped, Slots
<1>16. Cell(k)' = {shadow'[n] : n \in Slots(k)}
  BY DEF Cell, Slots
<1>c. CCompared(k)'
  <2> SUFFICES ASSUME NEW n \in Slots(k), NEW j \in Made, NEW y \in {shadow'[n]}, Sound(k, j)'
               PROVE  Compared(y, j)
    BY <1>13, <1>14 DEF CCompared, Slots
  <2>1. CASE y = o.cur
    BY <1>2, <2>1 DEF Compared
  <2>2. CASE y # o.cur
    <3>1. y = shadow[n]
      BY <1>15, <2>2
    <3>2. Sound(k, j)
      <4>1. CASE j = j0
        BY <1>3, <4>1 DEF Sound
      <4>2. CASE j # j0
        <5>1. PICK v \in Cell(k)' : v # ZeroWord /\ v.id = j /\ ~HalfScanned(v)
          BY <1>11, <1>14, <4>2 DEF Sound
        <5>2. v \in Cell(k)
          BY <1>2, <1>15, <1>16, <4>2, <5>1 DEF Cell
        <5> QED  BY <5>1, <5>2 DEF Sound
      <4> QED  BY <4>1, <4>2
    <3>3. ~Ahead(j, n)
      BY <1>1, <1>2 DEF Passed
    <3> QED  BY <3>1, <3>2, <3>3 DEF CInv, CCompared
  <2> QED  BY <2>1, <2>2
<1>d. CCovered(k)'
  <2> SUFFICES ASSUME NEW i \in Made, i = j0, ~hist[i].word.atomic
               PROVE  \E y \in Cell(k)' : StandsFor(y, i)'
    BY <1>11, <1>13 DEF CCovered
  <2>1. o.cur \in Cell(k)'
    BY <1>5, <1>15, <1>16
  <2>2. ~HalfScanned(o.cur)
    BY <1>2, <1>3 DEF HalfScanned, CInv, CTyped
  <2>3. Follows(o.cur.id, i)
    BY <1>2 DEF Follows
  <2> QED  BY <1>4, <1>13, <1>14, <2>1, <2>2, <2>3 DEF StandsFor
<1>e. CScan(k)'
  <2>1. \A u \in Tids : ~Scanning(u)' /\ op'[u].pc # "store" /\ op'[u].pc # "set"
    BY <1>7, <1>8, <1>9, <1>13 DEF Scanning
  <2> QED  BY <2>1 DEF CScan
<1>g. CRaces'
  BY <1>2, <1>11, <1>13 DEF CRaces
<1>i. CFound'
  <2> SUFFICES ASSUME NEW j \in Made, ~hist[j].alive
               PROVE  \E r \in reports : r[1] = j
    BY <1>1, <1>13 DEF CFound
  <2> QED  BY <1>2, <1>10 DEF CInv, CFound
<1> QED  BY <1>13, <1>c, <1>d, <1>e, <1>g, <1>i DEF CInv

(* The thread that frees the memory begins to mark the cell.                   *)
LEMMA CMark ==
  ASSUME NEW k, Sizeable(k), SInv(k), CInv(k), NEW t \in Tids, Shadow(k)!Mark(t)
  PROVE  CInv(k)'
<1> DEFINE w == [op[t].cur EXCEPT !.epoch = epoch[t] + 1, !.freed = TRUE]
           o == [op[t] EXCEPT !.pc = "set", !.idx = 0, !.cur = w]
           j0 == Len(hist)
<1>1. /\ op[t].pc = "mark" /\ op' = [op EXCEPT ![t] = o]
      /\ epoch' = [epoch EXCEPT ![t] = @ + 1] /\ Still
      /\ UNCHANGED <<shadow, live, reports, synch, syncs, frees, excused>>
  BY DEF Shadow!Mark, Still
<1>2. /\ Busy(t) /\ op[t] \in Ops(k) /\ op[t].cur \in Words /\ op[t].heap
      /\ \A u \in Tids : u # t => op[u] = Idle
      /\ op[t].cur.id = j0 /\ seen[t] = hist[j0].knew \union {j0}
      /\ \A i : Doing(i) <=> i = j0
      /\ \A n, i : Ahead(i, n) <=> i = j0 /\ ~Passed(t, n)
  <2>1. op[t] # Idle
    BY <1>1 DEF Idle
  <2> QED  BY <1>1, <2>1, CBusy DEF Sizeable, SInv, SWords
<1>3. epoch' \in [Tids -> Nat] /\ \A u \in Tids : epoch[u] <= epoch'[u] /\ epoch'[u] <= epoch[u] + 1
  BY <1>1 DEF SInv, STyped
<1>4. w.freed /\ w.id = op[t].cur.id /\ Overall(w) /\ w \in Words
  <2>1. Overall(op[t].cur)
    BY <1>2 DEF CInv, CSerial
  <2>2. epoch[t] + 1 \in Nat
    BY DEF SInv, STyped
  <2> QED  BY <1>2, <2>1, <2>2 DEF Words, Overall
<1> HIDE DEF w
<1>5. o.pc = "set" /\ o.idx = 0 /\ o.cur = w /\ o.heap
  <2> DEFINE a == [op[t] EXCEPT !.pc = "set"]
             b == [a EXCEPT !.idx = 0]
             c == [b EXCEPT !.cur = w]
  <2>1. a \in Ops(k) /\ a.pc = "set" /\ (a.heap <=> op[t].heap)
    BY <1>2 DEF Ops
  <2>2. o = c
    OBVIOUS
  <2> HIDE DEF a
  <2>3. b \in Ops(k) /\ b.pc = "set" /\ b.idx = 0 /\ (b.heap <=> op[t].heap)
    <3>1. 0 \in 0 .. k.cnt - 1
      BY DEF Sizeable
    <3> QED  BY <2>1, <3>1 DEF Ops
  <2> HIDE DEF b
  <2>4. c.pc = "set" /\ c.idx = 0 /\ c.cur = w /\ (c.heap <=> op[t].heap)
    BY <1>4, <2>3 DEF Ops
  <2> HIDE DEF c, o
  <2> QED  BY <1>2, <2>2, <2>4
<1> HIDE DEF o
<1>6. op'[t] = o /\ \A u \in Tids : u # t => op'[u] = Idle
  BY <1>1, <1>2 DEF SInv, STyped
<1>7. /\ Busy(t)' /\ (\A u \in Tids : Busy(u)' => u = t)
      /\ \A u \in Tids : ~Scanning(u)' /\ op'[u].pc # "store"
  BY <1>5, <1>6 DEF Busy, Idle, Scanning
<1>8. /\ \A i : Doing(i)' <=> Doing(i)
      /\ \A n, i : Ahead(i, n)' <=> Ahead(i, n)
  <2>1. \A n : ~Passed(t, n) /\ ~Passed(t, n)'
    BY <1>1, <1>5, <1>6 DEF Passed
  <2> QED  BY <1>2, <1>4, <1>5, <1>6, <1>7, <2>1 DEF Doing, Ahead
<1>9. CClosed' /\ CExact' /\ Made' = Made /\ hist' = hist /\ seen' = seen
  BY <1>1, <1>3, CStill DEF Still
<1>10. Cell(k)' = Cell(k)
  BY <1>1 DEF Cell, Slots
<1>11. /\ \A y : HalfScanned(y)' <=> HalfScanned(y)
       /\ \A y, i : Compared(y, i)' <=> Compared(y, i)
       /\ \A y, i : StandsFor(y, i)' <=> StandsFor(y, i)
       /\ \A i : Sound(k, i)' <=> Sound(k, i)
  <2>1. \A y : HalfScanned(y)' <=> HalfScanned(y)
    BY <1>1 DEF HalfScanned
  <2> QED  BY <1>1, <1>9, <1>10, <2>1 DEF Compared, StandsFor, Follows, Still, Sound
<1>a. CTyped'
  BY <1>1, <1>9 DEF CInv, CTyped
<1>b. CSerial'
  BY <1>2, <1>4, <1>5, <1>6, <1>7, <1>9 DEF CSerial, Overall
<1>n. CCount(k)'
  <2>1. Freeing(t) /\ ~Remade /\ \A u \in Tids : ~Freeing(u)'
    BY <1>1, <1>2, <1>5, <1>6, <1>7 DEF Freeing, Remade, Idle
  <2>2. \A u \in Tids : epoch[u] < Len(hist) + frees + syncs
    BY <2>1 DEF CInv, CCount
  <2>3. Len(hist) \in Nat /\ frees \in Nat /\ syncs \in Nat /\ epoch \in [Tids -> Nat]
    BY DEF CInv, CTyped, SInv, STyped
  <2>4. \A u \in Tids : epoch'[u] <= Len(hist) + frees + syncs
    BY <1>3, <2>2, <2>3
  <2> QED  BY <1>1, <1>9, <2>1, <2>4 DEF CInv, CCount
<1>c. CCompared(k)' /\ CCovered(k)'
  BY <1>1, <1>8, <1>9, <1>10, <1>11 DEF CInv, CCompared, CCovered, Slots
<1>e. CScan(k)'
  <2>1. \A u \in Tids : op'[u].pc = "set" => op'[u].idx = 0
    BY <1>5, <1>6, <1>7 DEF Idle
  <2>2. \A n \in Slots(k) : ~(0 < n /\ n < 0)
    BY DEF Slots
  <2> QED  BY <1>7, <2>1, <2>2 DEF CScan, Slots
<1>f. CDead(k)'
  <2>1. op'[t].heap /\ hist[j0].alive
    BY <1>2, <1>5, <1>6 DEF CInv, CDead
  <2> QED  BY <1>2, <1>4, <1>5, <1>6, <1>7, <1>9, <2>1 DEF CDead
<1>g. CRaces' /\ CFound'
  BY <1>1, <1>8, <1>9 DEF CInv, CRaces, CFound
<1> QED  BY <1>9, <1>a, <1>b, <1>c, <1>e, <1>f, <1>g, <1>n DEF CInv

(* One store of MemoryRangeSet: the cell is filled with the word and zeros.    *)
LEMMA CSet ==
  ASSUME NEW k, Sizeable(k), SInv(k), CInv(k), NEW t \in Tids, Shadow(k)!Set(t)
  PROVE  CInv(k)'
<1> DEFINE i == op[t].idx
           w == op[t].cur
           j0 == Len(hist)
           last == i + 1 = k.cnt
           z == IF i = 0 THEN op[t].cur ELSE ZeroWord
           o == IF last THEN Idle ELSE [op[t] EXCEPT !.idx = i + 1]
<1>1. /\ op[t].pc = "set" /\ op' = [op EXCEPT ![t] = o]
      /\ shadow' = [shadow EXCEPT ![i] = z]
      /\ live' = (last /\ ~op[t].cur.freed)
      /\ excused' = excused \union (1 .. w.id - 1) /\ Still
      /\ UNCHANGED <<epoch, synch, syncs, frees, reports>>
  BY DEF Shadow!Set, Shadow!clocks, Shadow!Idle, Idle, Shadow!ZeroWord, ZeroWord, Still
<1>2. /\ Busy(t) /\ op[t] \in Ops(k) /\ w \in Words /\ op[t].heap /\ i \in Slots(k)
      /\ \A u \in Tids : u # t => op[u] = Idle
      /\ w.id = j0 /\ j0 \in Made /\ seen[t] = hist[j0].knew \union {j0} /\ Describes(w)
      /\ \A m \in Made : m <= j0 /\ m \in Nat
      /\ \A m : Doing(m) <=> m = j0
      /\ \A n, m : Ahead(m, n) <=> m = j0 /\ ~Passed(t, n)
  <2>1. op[t] # Idle
    BY <1>1 DEF Idle
  <2>2. Describes(w) /\ op[t].heap
    BY <1>1, <2>1, SIndex DEF Sizeable, SInv, SWords
  <2> QED  BY <2>1, <2>2, CBusy DEF Sizeable
<1>3. Overall(w)
  BY <1>2 DEF CInv, CSerial
<1>4. /\ hist[j0].word.range = w.range /\ (hist[j0].word.write => w.write) /\ w # ZeroWord
      /\ ~w.atomic
  BY <1>2, <1>3 DEF Describes, Overall, Words, ZeroWord
<1>5. /\ i > 0 => shadow[0] = w
      /\ \A n \in Slots(k) : 0 < n /\ n < i => shadow[n] = ZeroWord
  BY <1>1 DEF CInv, CScan
<1>6. o # Idle => /\ o.pc = "set" /\ o.idx = i + 1 /\ o.cur = w /\ o.heap /\ ~last
  <2>1. CASE last
    BY <2>1
  <2>2. CASE ~last
    <3>1. i + 1 \in 0 .. k.cnt - 1
      BY <1>2, <2>2 DEF Slots, Sizeable
    <3> QED  BY <1>1, <1>2, <2>2, <3>1 DEF Ops
  <2> QED  BY <2>1, <2>2
<1>7. /\ last <=> o = Idle
      /\ live' <=> last /\ ~w.freed
      /\ z = w \/ z = ZeroWord
      /\ i = 0 => z = w
      /\ i # 0 => z = ZeroWord
  <2>1. ~last => o # Idle
    BY <1>1, <1>2 DEF Ops, Idle
  <2> QED  BY <1>1, <2>1
<1> HIDE DEF z, o
<1>8. op'[t] = o /\ \A u \in Tids : u # t => op'[u] = Idle
  BY <1>1, <1>2 DEF SInv, STyped
<1>9. /\ Busy(t)' <=> ~last
      /\ \A u \in Tids : Busy(u)' => u = t /\ ~last
      /\ \A u \in Tids : ~Scanning(u)' /\ op'[u].pc # "store"
  BY <1>6, <1>7, <1>8 DEF Busy, Idle, Scanning
<1>10. shadow'[i] = z /\ \A n \in Slots(k) : n # i => shadow'[n] = shadow[n]
  BY <1>1, <1>2 DEF SInv, STyped, Slots
<1>11. /\ 0 \in Slots(k) /\ k.cnt \in Nat
       /\ \A n \in Slots(k) : n \in Nat /\ n < k.cnt
  BY DEF Slots, Sizeable
<1>12. /\ shadow'[0] = w
       /\ \A n \in Slots(k) : 0 < n /\ n < i + 1 => shadow'[n] = ZeroWord
  <2>1. CASE i = 0
    <3>1. \A n \in Slots(k) : ~(0 < n /\ n < i + 1)
      BY <1>11, <2>1
    <3> QED  BY <1>7, <1>10, <2>1, <3>1
  <2>2. CASE i # 0
    <3>1. i > 0 /\ i \in Nat
      BY <1>2, <1>11, <2>2
    <3>2. shadow'[0] = w
      BY <1>5, <1>10, <1>11, <3>1
    <3>3. ASSUME NEW n \in Slots(k), 0 < n, n < i + 1 PROVE shadow'[n] = ZeroWord
      <4>1. CASE n = i
        BY <1>7, <1>10, <2>2, <4>1
      <4>2. CASE n # i
        <5>1. n < i
          BY <1>11, <3>1, <3>3, <4>2
        <5> QED  BY <1>5, <1>10, <3>3, <4>2, <5>1
      <4> QED  BY <4>1, <4>2
    <3> QED  BY <3>2, <3>3
  <2> QED  BY <2>1, <2>2
<1>13. last => \A n \in Slots(k) : n # 0 => shadow'[n] = ZeroWord
  <2> SUFFICES ASSUME last, NEW n \in Slots(k), n # 0 PROVE shadow'[n] = ZeroWord
    OBVIOUS
  <2>1. 0 < n /\ n < i + 1
    BY <1>11
  <2> QED  BY <1>12, <2>1
<1> HIDE DEF last
<1>14. CClosed' /\ CExact' /\ Made' = Made /\ hist' = hist /\ seen' = seen
  <2>1. epoch' \in [Tids -> Nat] /\ \A u \in Tids : epoch[u] <= epoch'[u]
    BY <1>1 DEF SInv, STyped
  <2> QED  BY <1>1, <2>1, CStill DEF Still
<1>15. /\ (\A m \in Made : m \notin excused' => m = j0) /\ excused \subseteq excused'
       /\ excused' \subseteq Made
  <2>1. \A m \in Made : m # j0 => m \in 1 .. w.id - 1
    BY <1>2 DEF Made
  <2>2. 1 .. w.id - 1 \subseteq Made
    BY <1>2 DEF Made
  <2> QED  BY <1>1, <2>1, <2>2 DEF CInv, CTyped
<1>16. /\ \A m : Doing(m)' <=> m = j0 /\ ~last
       /\ \A m, n : m = j0 /\ ~last => Ahead(m, n)'
  <2>1. ~last => \A n : ~Passed(t, n)'
    BY <1>6, <1>7, <1>8 DEF Passed
  <2>2. ~last => op'[t].cur.id = j0 /\ Busy(t)'
    BY <1>2, <1>6, <1>7, <1>8, <1>9
  <2> QED  BY <1>9, <2>1, <2>2 DEF Doing, Ahead
<1>17. /\ \A y : HalfScanned(y)' <=> HalfScanned(y)
       /\ \A y, m : Compared(y, m)' <=> Compared(y, m)
  <2>1. \A y : HalfScanned(y)' <=> HalfScanned(y)
    BY <1>1 DEF HalfScanned
  <2> QED  BY <1>14, <2>1 DEF Compared
<1>18. Cell(k)' = {shadow'[n] : n \in Slots(k)}
  BY DEF Cell, Slots
<1>19. hist[j0].alive
  BY <1>2 DEF CInv, CDead
<1>a. CTyped'
  BY <1>1, <1>14, <1>15 DEF CInv, CTyped
<1>b. CSerial'
  BY <1>2, <1>3, <1>6, <1>7, <1>8, <1>9, <1>14 DEF CSerial, Overall
<1>n. CCount(k)'
  <2>1. (\A u \in Tids : ~Freeing(u)')
    BY <1>6, <1>7, <1>8, <1>9 DEF Freeing
  <2>2. ~live
    BY <1>2 DEF SInv, SFreed
  <2>3. Remade => ~w.freed
    BY <1>1, <1>2 DEF Remade, Idle
  <2>4. ~last /\ ~w.freed => Remade'
    BY <1>6, <1>7, <1>8 DEF Remade
  <2>5. ~live' /\ ~Remade' => ~Remade
    BY <1>7, <2>3, <2>4
  <2> QED  BY <1>1, <1>14, <2>1, <2>2, <2>5 DEF CInv, CCount
<1>c. CCompared(k)'
  <2> SUFFICES ASSUME NEW n \in Slots(k), NEW j \in Made, NEW y \in {shadow'[n]},
                      Sound(k, j)', ~Ahead(j, n)', y # w, y # ZeroWord
               PROVE  Compared(y, j)
    BY <1>2, <1>14, <1>17 DEF CCompared, Slots, Compared
  <2>1. ~last
    BY <1>12, <1>13
  <2>2. j # j0
    BY <1>16, <2>1
  <2>3. y = shadow[n]
    BY <1>7, <1>10
  <2>4. PICK v \in Cell(k)' : v # ZeroWord /\ v.id = j /\ ~HalfScanned(v)
    BY <1>15, <1>17, <2>2 DEF Sound
  <2>5. v \in Cell(k)
    BY <1>2, <1>7, <1>10, <1>18, <2>2, <2>4 DEF Cell
  <2>6. Sound(k, j) /\ ~Ahead(j, n)
    BY <1>2, <2>2, <2>4, <2>5 DEF Sound
  <2> QED  BY <2>3, <2>6 DEF CInv, CCompared
<1>d. CCovered(k)'
  <2> SUFFICES ASSUME NEW m \in Made, m = j0, m \notin excused'
               PROVE  \E y \in Cell(k)' : StandsFor(y, m)'
    BY <1>14, <1>15 DEF CCovered
  <2>1. PICK y \in Cell(k)' : y = w
    BY <1>11, <1>12, <1>18
  <2>2. ~HalfScanned(y)
    BY <1>2, <1>15, <2>1 DEF HalfScanned, CInv, CTyped
  <2>3. Follows(y.id, m)'
    BY <1>2, <2>1 DEF Follows
  <2> QED  BY <1>4, <1>14, <1>17, <2>1, <2>2, <2>3 DEF StandsFor
<1>e. CScan(k)'
  <2> SUFFICES ASSUME NEW u \in Tids, op'[u].pc = "set"
               PROVE  /\ op'[u].idx > 0 => shadow'[0] = op'[u].cur
                      /\ \A n \in Slots(k) : 0 < n /\ n < op'[u].idx => shadow'[n] = ZeroWord
    BY <1>9 DEF CScan, Slots
  <2>1. u = t /\ ~last
    BY <1>9 DEF Busy
  <2> QED  BY <1>6, <1>7, <1>8, <1>12, <2>1
<1>f. CDead(k)'
  <2>1. ASSUME ~live', \A u \in Tids : ~op'[u].heap
        PROVE  /\ shadow'[0] # ZeroWord /\ shadow'[0].freed /\ Overall(shadow'[0])
               /\ \A n \in Slots(k) : n # 0 => shadow'[n] = ZeroWord
    <3>1. last
      BY <1>6, <1>7, <1>8, <2>1
    <3> QED  BY <1>3, <1>4, <1>7, <1>12, <1>13, <2>1, <3>1
  <2>2. ASSUME NEW u \in Tids, Busy(u)'
        PROVE  hist'[op'[u].cur.id].alive /\ op'[u].heap
    BY <1>2, <1>6, <1>7, <1>8, <1>9, <1>14, <1>19, <2>2
  <2> QED  BY <2>1, <2>2 DEF CDead, Overall, Slots
<1>g. CRaces'
  BY <1>2, <1>14, <1>15 DEF CRaces
<1>i. CFound'
  <2> SUFFICES ASSUME NEW j \in Made, ~hist[j].alive
               PROVE  \E r \in reports : r[1] = j
    BY <1>1, <1>14 DEF CFound
  <2> QED  BY <1>2, <1>19 DEF CInv, CFound
<1> QED  BY <1>14, <1>a, <1>b, <1>c, <1>d, <1>e, <1>f, <1>g, <1>i, <1>n DEF CInv

(* Nothing has happened.                                                       *)
LEMMA CInitially ==
  ASSUME NEW k, Sizeable(k), Shadow(k)!Init
  PROVE  CInv(k)
<1>1. /\ epoch = [t \in Tids |-> 0] /\ clk = [t \in Tids |-> [u \in Tids |-> 0]]
      /\ sclk = [s \in Syncs |-> [u \in Tids |-> 0]] /\ synch = [t \in Tids |-> 0]
      /\ shadow = [i \in 0 .. k.cnt - 1 |-> ZeroWord]
      /\ op = [t \in Tids |-> Idle] /\ live = TRUE /\ reports = {} /\ hist = <<>>
      /\ seen = [t \in Tids |-> {}] /\ carried = [s \in Syncs |-> {}]
      /\ excused = {} /\ syncs = 0 /\ frees = 0
  BY DEF Shadow!Init, Shadow!Idle, Idle, Shadow!ZeroWord, ZeroWord
<1>2. Made = {} /\ Len(hist) = 0
  BY <1>1 DEF Made
<1>3. \A t \in Tids : ~Busy(t) /\ ~Scanning(t) /\ op[t].pc # "store" /\ op[t].pc # "set"
  BY <1>1 DEF Busy, Scanning, Idle
<1>4. CTyped /\ CSerial /\ CClosed
  BY <1>1, <1>2, <1>3 DEF CTyped, CSerial, CClosed
<1>5. CExact
  BY <1>1, <1>2 DEF CExact
<1>6. CCount(k)
  <2>1. \A u \in Tids : ~Freeing(u)
    BY <1>3 DEF Freeing
  <2>2. 0 <= k.frees /\ 0 <= k.syncs /\ 0 <= k.accesses + 0
    BY DEF Sizeable
  <2> QED  BY <1>1, <1>2, <2>1, <2>2 DEF CCount
<1>7. CCompared(k) /\ CCovered(k) /\ CScan(k) /\ CDead(k) /\ CRaces /\ CFound
  BY <1>1, <1>2, <1>3 DEF CCompared, CCovered, CScan, CDead, CRaces, CFound
<1> QED  BY <1>4, <1>5, <1>6, <1>7 DEF CInv

(* Nothing changes.                                                            *)
LEMMA CStutter ==
  ASSUME NEW k, CInv(k), UNCHANGED Shadow(k)!vars
  PROVE  CInv(k)'
<1>1. /\ epoch' = epoch /\ synch' = synch /\ clk' = clk /\ sclk' = sclk /\ shadow' = shadow
      /\ op' = op /\ live' = live /\ reports' = reports /\ hist' = hist /\ seen' = seen
      /\ carried' = carried /\ excused' = excused /\ syncs' = syncs /\ frees' = frees
  BY DEF Shadow!vars
<1>2. /\ Made' = Made /\ Cell(k)' = Cell(k) /\ (\A t \in Tids : Busy(t)' <=> Busy(t))
      /\ \A t \in Tids : Scanning(t)' <=> Scanning(t)
      /\ \A t \in Tids : Freeing(t)' <=> Freeing(t)
      /\ Remade' <=> Remade
      /\ \A t \in Tids : \A n : Passed(t, n)' <=> Passed(t, n)
      /\ \A y : HalfScanned(y)' <=> HalfScanned(y)
  BY <1>1 DEF Made, Cell, Slots, Busy, Scanning, Freeing, Remade, Passed, HalfScanned
<1>3. /\ \A j : Doing(j)' <=> Doing(j)
      /\ \A j, n : Ahead(j, n)' <=> Ahead(j, n)
      /\ \A j : Sound(k, j)' <=> Sound(k, j)
      /\ \A y, j : Compared(y, j)' <=> Compared(y, j)
      /\ \A y, j : StandsFor(y, j)' <=> StandsFor(y, j)
  BY <1>1, <1>2 DEF Doing, Ahead, Sound, Compared, StandsFor, Follows
<1>4. CTyped' /\ CSerial' /\ CClosed' /\ CExact' /\ CCount(k)'
  BY <1>1, <1>2 DEF CInv, CTyped, CSerial, CClosed, CExact, CCount
<1>5. CCompared(k)' /\ CCovered(k)' /\ CDead(k)' /\ CRaces' /\ CFound'
  BY <1>1, <1>2, <1>3 DEF CInv, CCompared, CCovered, CDead, CRaces, CFound, Slots
<1>6. CScan(k)'
  <2>1. \A t \in Tids : Shadow(k)!Verdict(shadow[op[t].idx], op[t].cur, op[t].stored)' =
                          Shadow(k)!Verdict(shadow[op[t].idx], op[t].cur, op[t].stored)
    BY <1>1 DEF Shadow!Verdict, Shadow!HappensBefore, Shadow!SameTid, Shadow!Intersect,
       Shadow!Weakness, Shadow!Harmless, Shadow!ZeroWord
  <2> QED  BY <1>1, <1>2, <2>1 DEF CInv, CScan, Slots
<1> QED  BY <1>4, <1>5, <1>6 DEF CInv

(* Every step keeps what the cell knows.                                       *)
LEMMA CStep ==
  ASSUME NEW k, Sizeable(k), WideEnough(k), SInv(k), CInv(k), [Shadow(k)!Next]_(Shadow(k)!vars)
  PROVE  CInv(k)'
<1>1. CASE UNCHANGED Shadow(k)!vars
  BY <1>1, CStutter
<1>2. CASE Shadow(k)!Next
  <2>1. PICK t \in Tids :
          \/ Shadow(k)!Same(t) \/ Shadow(k)!MemoryAccess(t)
          \/ Shadow(k)!MemoryRangeFreed(t) \/ Shadow(k)!MemoryRangeImitateWrite(t)
          \/ Shadow(k)!Load(t) \/ Shadow(k)!Store(t) \/ Shadow(k)!Evict(t)
          \/ Shadow(k)!Mark(t) \/ Shadow(k)!Set(t)
          \/ \E s \in Syncs : Shadow(k)!Acquire(t, s) \/ Shadow(k)!Release(t, s)
    BY <1>2 DEF Shadow!Next
  <2>2. CASE Shadow(k)!Same(t)
    BY <2>2, CSame
  <2>3. CASE Shadow(k)!MemoryAccess(t)
    BY <2>3, CAccess DEF Sizeable
  <2>4. CASE Shadow(k)!MemoryRangeFreed(t) \/ Shadow(k)!MemoryRangeImitateWrite(t)
    BY <2>4, CFree DEF Sizeable
  <2>5. CASE Shadow(k)!Load(t)
    BY <2>5, CLoad
  <2>6. CASE Shadow(k)!Store(t)
    BY <2>6, CStore
  <2>7. CASE Shadow(k)!Evict(t)
    BY <2>7, CEvict
  <2>8. CASE Shadow(k)!Mark(t)
    BY <2>8, CMark
  <2>9. CASE Shadow(k)!Set(t)
    BY <2>9, CSet
  <2>10. ASSUME NEW s \in Syncs, Shadow(k)!Acquire(t, s) \/ Shadow(k)!Release(t, s)
         PROVE  CInv(k)'
    BY <2>10, CAcquire, CRelease
  <2> QED  BY <2>1, <2>2, <2>3, <2>4, <2>5, <2>6, <2>7, <2>8, <2>9, <2>10
<1> QED  BY <1>1, <1>2

(* The invariant says which races are reported.                                *)
LEMMA CReported ==
  ASSUME NEW k, Sizeable(k), SInv(k), CInv(k)
  PROVE  Shadow(k)!EveryRaceIsReported /\ Shadow(k)!FreedIsReported
<1>1. \A j : Shadow(k)!InProgress(j) <=> Doing(j)
  <2>1. \A t \in Tids : op[t] # Idle <=> Busy(t)
    BY SOp DEF SInv, Busy, Idle
  <2> QED  BY <2>1 DEF Shadow!InProgress, Shadow!Idle, Idle, Doing
<1>2. Shadow(k)!EveryRaceIsReported
  <2> SUFFICES ASSUME NEW i \in Made \ excused, NEW j \in Made \ excused,
                      i < j, Shadow(k)!Conflict(i, j), ~hist[i].word.atomic, ~Shadow(k)!InProgress(j)
               PROVE  ~Shadow(k)!Unordered(i, j)
    BY DEF Shadow!EveryRaceIsReported, Made
  <2>1. hist[i].word.tid # hist[j].word.tid /\ Clash(hist[i].word, hist[j].word)
    BY CWords
  <2>2. i \in hist[j].knew
    BY <1>1, <2>1 DEF CInv, CRaces
  <2> QED  BY <2>2 DEF Shadow!Unordered
<1>3. Shadow(k)!FreedIsReported
  <2> SUFFICES ASSUME NEW j \in Made, ~hist[j].alive, ~Shadow(k)!InProgress(j)
               PROVE  \E r \in reports : r[1] = j
    BY DEF Shadow!FreedIsReported, Made
  <2> QED  BY <1>1 DEF CInv, CFound
<1> QED  BY <1>2, <1>3

(* tsan misses no race the cell can know of, nor an access to freed memory,    *)
(* when accesses do not overlap: for every number of threads, sync objects and *)
(* words in a cell, as long as the fast scan can tell the epochs apart         *)
(* (MemoryAccessImpl1, ContainsSameAccessFast, MemoryRangeFreed).              *)
THEOREM RacesAreReported ==
  ASSUME NEW CONSTANT k, Shadow(k)!ShadowAssumption, k.serial, WideEnough(k)
  PROVE  Shadow(k)!Spec => [](Shadow(k)!EveryRaceIsReported /\ Shadow(k)!FreedIsReported)
<1>1. Sizeable(k)
  BY DEF Shadow!ShadowAssumption, Sizeable, Granule
<1>2. k.cnt \in Nat \ {0} /\ k.ranges \subseteq Granule
  BY <1>1 DEF Sizeable
<1>3. Shadow(k)!Init => SInv(k) /\ CInv(k)
  BY <1>1, <1>2, SInitially, CInitially
<1>4. SInv(k) /\ CInv(k) /\ [Shadow(k)!Next]_(Shadow(k)!vars) => SInv(k)' /\ CInv(k)'
  BY <1>1, <1>2, SStep, CStep
<1>5. SInv(k) /\ CInv(k) => Shadow(k)!EveryRaceIsReported /\ Shadow(k)!FreedIsReported
  BY <1>1, CReported
<1> QED  BY <1>3, <1>4, <1>5, PTL DEF Shadow!Spec

-----------------------------------------------------------------------------
(* TsanMutex.  What t releases when it has run the hook of its unlock.         *)
Past(t) == [know[t] EXCEPT ![t] = mEpoch[t]]
Inside == {"idle", "lock", "repair", "realUnlock", "wait"}
Destroying == \E t \in Tids : mPc[t] = "destroy"
Leaving(t) == writer = t /\ depth = 1 /\ mPc[t] \in {"realUnlock", "wait"}

MTyped ==
  /\ kind \in {"mutex", "recursive", "rwlock", "none"}
  /\ writer \in Tids \union {NoTid} /\ depth \in Nat /\ readers \subseteq Tids
  /\ owner \in Tids \union {NoTid} /\ recursion \in Nat /\ abandoned \in BOOLEAN
  /\ released \in [Tids -> Nat] /\ readReleased \in [Tids -> Nat]
  /\ clock \in [Tids -> Nat] /\ readClock \in [Tids -> Nat]
  /\ know \in [Tids -> [Tids -> Nat]] /\ mClk \in [Tids -> [Tids -> Nat]]
  /\ mPc \in [Tids -> Inside \union {"readLock", "waiting", "dead", "destroy"}]
  /\ mEpoch \in [Tids -> Nat]

(* Who is between a real call and its hook has the lock.                       *)
MPlaces ==
  /\ \A t \in Tids :
       /\ mPc[t] \in {"lock", "repair", "wait"} => writer = t
       /\ mPc[t] = "readLock" => t \in readers
       /\ mPc[t] = "realUnlock" => writer = t \/ t \in readers
       /\ mPc[t] = "destroy" => kind = "none" /\ \A u \in Tids \ {t} : mPc[u] \in {"idle", "dead"}
       /\ mPc[t] \in {"wait", "waiting"} => kind \in {"mutex", "recursive"}
       /\ mPc[t] \in {"repair", "wait"} => depth = 1
       /\ writer = t => mPc[t] \in Inside
       /\ t \in readers => mPc[t] \in {"idle", "readLock", "realUnlock"}
  /\ writer # NoTid => readers = {} /\ kind # "none" /\ ~abandoned /\ depth # 0
  /\ writer = NoTid => depth = 0
  /\ readers # {} => kind = "rwlock"
  /\ kind \in {"rwlock", "none"} => ~abandoned

(* The SyncVar's owner and depth, as far as the hooks have been run.           *)
MOwner ==
  /\ writer = NoTid /\ ~abandoned => owner = NoTid /\ recursion = 0
  /\ \A t \in Tids : writer = t =>
       /\ mPc[t] = "idle" => owner = t /\ recursion = depth
       /\ mPc[t] \in {"lock", "realUnlock", "wait"} =>
            recursion = depth - 1 /\ owner = IF depth = 1 THEN NoTid ELSE t

(* The SyncVar's clocks are what POSIX says is released, ahead of it by those  *)
(* that are between the hook of an unlock and the real unlock.                 *)
MClocks ==
  /\ \A t \in Tids : Leaving(t) => clock = Past(t)
  /\ ~Destroying /\ (\A t \in Tids : ~Leaving(t)) => clock = released
  /\ ~Destroying => \A u \in Tids :
       /\ readReleased[u] <= readClock[u]
       /\ \A t \in readers : mPc[t] = "realUnlock" => Past(t)[u] <= readClock[u]
       /\ \/ readClock[u] = readReleased[u]
          \/ \E t \in readers : mPc[t] = "realUnlock" /\ readClock[u] = Past(t)[u]
  /\ kind # "rwlock" => readReleased = Mutex!Zero
  /\ kind = "none" => released = Mutex!Zero

(* Nothing is known or released before it happens.                             *)
MTimes == \A u \in Tids :
  /\ released[u] <= mEpoch[u] /\ readReleased[u] <= mEpoch[u]
  /\ \A t \in Tids : know[t][u] <= mEpoch[u]

(* What t knows of u and what its clock says, also while a hook is due.        *)
MKnowsOf(t, u) ==
  /\ writer = t => released[u] <= know[t][u] /\ readReleased[u] <= know[t][u]
  /\ mPc[t] \notin {"repair", "lock", "readLock"} \/ (mPc[t] = "lock" /\ depth > 1)
       => mClk[t][u] = know[t][u]
  /\ mPc[t] = "repair" \/ (mPc[t] = "lock" /\ depth = 1)
       => know[t][u] = Mutex!Join(mClk[t], Mutex!Join(clock, readClock))[u]
  /\ mPc[t] = "readLock" => know[t][u] = Mutex!Join(mClk[t], clock)[u]

MKnows == \A t, u \in Tids : t # u => MKnowsOf(t, u)

NoMisuse == broken = FALSE /\ misuses = 0
MInv == MTyped /\ MPlaces /\ MOwner /\ MClocks /\ MTimes /\ MKnows /\ NoMisuse

(* The least upper bound of two clocks.                                        *)
LEMMA MJoin ==
  ASSUME NEW v \in [Tids -> Nat], NEW w \in [Tids -> Nat]
  PROVE  /\ Mutex!Join(v, w) \in [Tids -> Nat]
         /\ \A u \in Tids : Mutex!Join(v, w)[u] = IF v[u] >= w[u] THEN v[u] ELSE w[u]
BY DEF Mutex!Join

(* The clock of nothing.                                                       *)
LEMMA MZero == Mutex!Zero \in [Tids -> Nat] /\ \A u \in Tids : Mutex!Zero[u] = 0
BY DEF Mutex!Zero

(* Nobody is no thread.                                                        *)
LEMMA MApart == NoTid \notin Tids
BY PartsAssumption DEF Mutex!MutexAssumption

(* The clock of a thread that has run the hook of its unlock.                  *)
LEMMA MPast ==
  ASSUME MTyped, NEW t \in Tids
  PROVE  Past(t) \in [Tids -> Nat] /\ \A u \in Tids : Past(t)[u] = IF u = t THEN mEpoch[t] ELSE know[t][u]
BY DEF MTyped, Past

(* The real lock: its hook is due.                                             *)
LEMMA MRealLock ==
  ASSUME MInv, NEW t \in Tids, Mutex!RealLock(t)
  PROVE  MInv'
<1> DEFINE both == Mutex!Join(released, readReleased)
           told == Mutex!Join(know[t], both)
<1>1. /\ both \in [Tids -> Nat] /\ told \in [Tids -> Nat]
      /\ \A u \in Tids : both[u] = IF released[u] >= readReleased[u] THEN released[u] ELSE readReleased[u]
      /\ \A u \in Tids : told[u] = IF know[t][u] >= both[u] THEN know[t][u] ELSE both[u]
  BY MJoin DEF MInv, MTyped
<1>2. /\ mPc[t] = "idle" /\ kind # "none" /\ readers = {}
      /\ writer = NoTid \/ writer = t
      /\ writer' = t /\ depth' = depth + 1 /\ abandoned' = FALSE
      /\ know' = [know EXCEPT ![t] = told]
      /\ mPc' = [mPc EXCEPT ![t] = IF abandoned THEN "repair" ELSE "lock"]
      /\ UNCHANGED <<kind, readers, released, readReleased, mEpoch, mClk, Mutex!sync>>
  BY DEF Mutex!RealLock, Mutex!Goto
<1> HIDE DEF both, told
<1> USE MApart DEF MInv, Mutex!sync
<1>3. MTyped'
  <2>1. know' \in [Tids -> [Tids -> Nat]]
    BY <1>1, <1>2 DEF MTyped
  <2>2. mPc' \in [Tids -> Inside \union {"readLock", "waiting", "dead", "destroy"}]
    BY <1>2 DEF MTyped, Inside
  <2>3. writer' \in Tids \union {NoTid} /\ depth' \in Nat
    BY <1>2 DEF MTyped
  <2>4. abandoned' \in BOOLEAN
    BY <1>2, Zenon
  <2> QED  BY <1>2, <2>1, <2>2, <2>3, <2>4 DEF MTyped
<1>4. MPlaces' /\ MOwner' /\ NoMisuse'
  BY <1>2 DEF MTyped, MPlaces, MOwner, Inside, NoMisuse
<1>5. MClocks'
  BY <1>1, <1>2 DEF MTyped, MPlaces, MClocks, Leaving, Destroying, Past
<1>6. MTimes'
  BY <1>1, <1>2 DEF MTyped, MTimes
<1>7. MKnows'
  <2> SUFFICES ASSUME NEW s \in Tids, NEW u \in Tids, s # u
               PROVE  MKnowsOf(s, u)'
    BY DEF MKnows
  <2>1. MKnowsOf(s, u)
    BY DEF MKnows
  <2>2. CASE s # t
    BY <1>2, <2>1, <2>2 DEF MKnowsOf, MTyped, MPlaces
  <2>3. CASE s = t
    <3>1. readClock = readReleased
      BY <1>2 DEF MClocks, MTyped, MPlaces, Destroying
    <3>2. writer = NoTid => clock = released
      BY <1>2, MApart DEF MClocks, MTyped, MPlaces, Destroying, Leaving
    <3>3. told[u] = IF know[t][u] >= both[u] THEN know[t][u] ELSE both[u]
      BY <1>1
    <3>4. mClk[t] \in [Tids -> Nat]
      BY DEF MTyped
    <3>8. Mutex!Join(mClk[t], both)[u] = IF mClk[t][u] >= both[u] THEN mClk[t][u] ELSE both[u]
      BY <1>1, <3>4, MJoin
    <3>5. mClk[t][u] = know[t][u] /\ know'[t][u] = told[u]
      BY <1>2, <2>1, <2>3 DEF MKnowsOf, MTyped
    <3>6. CASE writer = NoTid
      <4>1. Mutex!Join(mClk'[t], Mutex!Join(clock', readClock')) = Mutex!Join(mClk[t], both)
        BY <1>2, <3>1, <3>2, <3>6 DEF both
      <4> QED  BY <1>1, <1>2, <2>3, <3>3, <3>8, <3>5, <3>6, <4>1 DEF MKnowsOf, MTyped, MPlaces
    <3>7. CASE writer = t
      <4>1. both[u] <= know[t][u] /\ know[t][u] \in Nat
        BY <1>1, <2>1, <2>3, <3>7 DEF MKnowsOf, MTyped
      <4> QED  BY <1>1, <1>2, <2>1, <2>3, <3>3, <3>5, <3>7, <4>1 DEF MKnowsOf, MTyped, MPlaces
    <3> QED  BY <1>2, <3>6, <3>7
  <2> QED  BY <2>2, <2>3
<1> QED  BY <1>3, <1>4, <1>5, <1>6, <1>7

(* The thread ends with the lock in its hands.                                 *)
LEMMA MDie ==
  ASSUME MInv, NEW t \in Tids, Mutex!Die(t)
  PROVE  MInv'
<1>1. /\ mPc[t] = "idle" /\ writer = t /\ kind # "rwlock"
      /\ writer' = NoTid /\ depth' = 0 /\ abandoned' = TRUE
      /\ mPc' = [mPc EXCEPT ![t] = "dead"]
      /\ UNCHANGED <<kind, readers, released, readReleased, know, mEpoch, mClk, Mutex!sync>>
  BY DEF Mutex!Die, Mutex!Goto
<1> USE MApart DEF MInv, Mutex!sync
<1>2. abandoned' \in BOOLEAN
  BY <1>1, Zenon
<1>3. MTyped'
  BY <1>1, <1>2 DEF MTyped, Inside
<1>4. MPlaces' /\ MOwner' /\ NoMisuse'
  BY <1>1 DEF MTyped, MPlaces, MOwner, Inside, NoMisuse
<1>5. MClocks'
  BY <1>1 DEF MTyped, MPlaces, MClocks, Leaving, Destroying, Past
<1>6. MTimes'
  BY <1>1 DEF MTyped, MTimes
<1>7. MKnows'
  BY <1>1 DEF MKnows, MKnowsOf, MTyped, MPlaces
<1> QED  BY <1>3, <1>4, <1>5, <1>6, <1>7

(* The real read lock: its hook is due.                                        *)
LEMMA MRealReadLock ==
  ASSUME MInv, NEW t \in Tids, Mutex!RealReadLock(t)
  PROVE  MInv'
<1> DEFINE told == Mutex!Join(know[t], released)
<1>1. /\ told \in [Tids -> Nat]
      /\ \A u \in Tids : told[u] = IF know[t][u] >= released[u] THEN know[t][u] ELSE released[u]
  BY MJoin DEF MInv, MTyped
<1>2. /\ mPc[t] = "idle" /\ kind = "rwlock" /\ writer = NoTid /\ t \notin readers
      /\ readers' = readers \union {t}
      /\ know' = [know EXCEPT ![t] = told]
      /\ mPc' = [mPc EXCEPT ![t] = "readLock"]
      /\ UNCHANGED <<abandoned, kind, writer, depth, released, readReleased, mEpoch, mClk, Mutex!sync>>
  BY DEF Mutex!RealReadLock, Mutex!Goto
<1> HIDE DEF told
<1> USE MApart DEF MInv, Mutex!sync
<1>3. MTyped'
  <2>1. know' \in [Tids -> [Tids -> Nat]]
    BY <1>1, <1>2 DEF MTyped
  <2> QED  BY <1>2, <2>1 DEF MTyped, Inside
<1>4. MPlaces' /\ MOwner' /\ NoMisuse'
  BY <1>2 DEF MTyped, MPlaces, MOwner, Inside, NoMisuse
<1>5. MClocks'
  <2>1. ~Destroying /\ ~Destroying'
    BY <1>2 DEF MTyped, MPlaces, Destroying
  <2>2. \A s \in Tids : ~Leaving(s) /\ ~Leaving(s)'
    BY <1>2 DEF Leaving, MTyped
  <2>3. \A s \in Tids : s # t => Past(s)' = Past(s) /\ mPc'[s] = mPc[s]
    BY <1>2 DEF Past, MTyped
  <2>4. \A s \in readers' : mPc'[s] = "realUnlock" => s # t /\ s \in readers
    BY <1>2 DEF MTyped
  <2>5. \A s \in readers : mPc[s] = "realUnlock" => s # t /\ s \in readers'
    BY <1>2 DEF MTyped
  <2>6. readers \subseteq Tids /\ readers' \subseteq Tids
    BY <1>2 DEF MTyped
  <2>7. clock' = released'
    BY <1>2, <2>1, <2>2 DEF MClocks
  <2>8. ASSUME NEW u \in Tids
        PROVE  /\ readReleased[u] <= readClock[u]
               /\ \A s \in readers' : mPc'[s] = "realUnlock" => Past(s)'[u] <= readClock[u]
               /\ \/ readClock[u] = readReleased[u]
                  \/ \E s \in readers' : mPc'[s] = "realUnlock" /\ readClock[u] = Past(s)'[u]
    BY <2>1, <2>3, <2>4, <2>5, <2>6 DEF MClocks
  <2> QED  BY <1>2, <2>1, <2>2, <2>7, <2>8 DEF MClocks
<1>6. MTimes'
  BY <1>1, <1>2 DEF MTyped, MTimes
<1>7. MKnows'
  <2> SUFFICES ASSUME NEW s \in Tids, NEW u \in Tids, s # u
               PROVE  MKnowsOf(s, u)'
    BY DEF MKnows
  <2>1. MKnowsOf(s, u)
    BY DEF MKnows
  <2>2. CASE s # t
    BY <1>2, <2>1, <2>2 DEF MKnowsOf, MTyped, MPlaces
  <2>3. CASE s = t
    <3>1. clock = released
      BY <1>2 DEF MClocks, MTyped, MPlaces, Destroying, Leaving
    <3>2. mClk[t] \in [Tids -> Nat] /\ released \in [Tids -> Nat]
      BY DEF MTyped
    <3>3. Mutex!Join(mClk[t], released)[u] = IF mClk[t][u] >= released[u] THEN mClk[t][u] ELSE released[u]
      BY <3>2, MJoin
    <3>4. mClk[t][u] = know[t][u] /\ know'[t][u] = told[u]
      BY <1>2, <2>1, <2>3 DEF MKnowsOf, MTyped
    <3> QED  BY <1>1, <1>2, <2>3, <3>1, <3>3, <3>4 DEF MKnowsOf, MTyped
  <2> QED  BY <2>2, <2>3
<1> QED  BY <1>3, <1>4, <1>5, <1>6, <1>7

(* The real unlock, after its hook.                                            *)
LEMMA MRealUnlock ==
  ASSUME MInv, NEW t \in Tids, Mutex!RealUnlock(t)
  PROVE  MInv'
<1>1. /\ mPc[t] \in {"realUnlock", "wait"} /\ writer = t
      /\ depth' = depth - 1
      /\ writer' = IF depth = 1 THEN NoTid ELSE t
      /\ released' = IF depth = 1 THEN Past(t) ELSE released
      /\ mPc' = [mPc EXCEPT ![t] = IF mPc[t] = "wait" THEN "waiting" ELSE "idle"]
      /\ UNCHANGED <<abandoned, kind, readers, readReleased, know, mEpoch, mClk, Mutex!sync>>
  BY DEF Mutex!RealUnlock, Mutex!Goto, Past
<1> USE MApart DEF MInv, Mutex!sync
<1>2. Past(t) \in [Tids -> Nat] /\ \A u \in Tids : Past(t)[u] = IF u = t THEN mEpoch[t] ELSE know[t][u]
  BY MPast
<1>3. MTyped'
  <2>1. depth' \in Nat /\ writer' \in Tids \union {NoTid} /\ released' \in [Tids -> Nat]
    <3>1. depth \in Nat /\ depth # 0 /\ t \in Tids
      BY <1>1 DEF MTyped, MPlaces
    <3>2. released \in [Tids -> Nat] /\ depth - 1 \in Nat
      BY <3>1 DEF MTyped
    <3>3. released' \in [Tids -> Nat]
      BY <1>1, <1>2, <3>2
    <3>4. writer' \in Tids \union {NoTid}
      BY <1>1, <3>1
    <3> QED  BY <1>1, <3>2, <3>3, <3>4
  <2>2. mPc' \in [Tids -> Inside \union {"readLock", "waiting", "dead", "destroy"}]
    BY <1>1 DEF MTyped, Inside
  <2> QED  BY <1>1, <2>1, <2>2 DEF MTyped
<1>4. MPlaces' /\ MOwner' /\ NoMisuse'
  BY <1>1 DEF MTyped, MPlaces, MOwner, Inside, NoMisuse
<1>5. MClocks'
  BY <1>1, <1>2 DEF MTyped, MPlaces, MClocks, Leaving, Destroying, Past
<1>6. MTimes'
  <2>1. \A u \in Tids : mEpoch[u] \in Nat /\ released'[u] <= mEpoch[u]
    BY <1>1, <1>2 DEF MTyped, MTimes
  <2> QED  BY <1>1, <2>1 DEF MTimes
<1>7. MKnows'
  <2> SUFFICES ASSUME NEW s \in Tids, NEW u \in Tids, s # u
               PROVE  MKnowsOf(s, u)'
    BY DEF MKnows
  <2>1. MKnowsOf(s, u)
    BY DEF MKnows
  <2> QED  BY <1>1, <1>2, <2>1 DEF MKnowsOf, MTyped, MPlaces
<1> QED  BY <1>3, <1>4, <1>5, <1>6, <1>7

(* The real unlock of a reader, after its hook.                                *)
LEMMA MRealReadUnlock ==
  ASSUME MInv, NEW t \in Tids, Mutex!RealReadUnlock(t)
  PROVE  MInv'
<1> DEFINE both == Mutex!Join(readReleased, Past(t))
<1>1. Past(t) \in [Tids -> Nat] /\ \A u \in Tids : Past(t)[u] = IF u = t THEN mEpoch[t] ELSE know[t][u]
  BY MPast DEF MInv
<1>2. /\ both \in [Tids -> Nat]
      /\ \A u \in Tids : both[u] = IF readReleased[u] >= Past(t)[u] THEN readReleased[u] ELSE Past(t)[u]
  BY <1>1, MJoin DEF MInv, MTyped
<1>3. /\ mPc[t] = "realUnlock" /\ t \in readers
      /\ readers' = readers \ {t}
      /\ readReleased' = both
      /\ mPc' = [mPc EXCEPT ![t] = "idle"]
      /\ UNCHANGED <<abandoned, kind, writer, depth, released, know, mEpoch, mClk, Mutex!sync>>
  BY DEF Mutex!RealReadUnlock, Mutex!Goto, Past
<1> HIDE DEF both
<1> USE MApart DEF MInv, Mutex!sync
<1>4. MTyped'
  BY <1>2, <1>3 DEF MTyped, Inside
<1>5. MPlaces' /\ MOwner' /\ NoMisuse'
  BY <1>3 DEF MTyped, MPlaces, MOwner, Inside, NoMisuse
<1>6. MClocks'
  <2>1. writer = NoTid /\ kind = "rwlock" /\ ~Destroying
    BY <1>3 DEF MTyped, MPlaces, Destroying
  <2>2. \A s \in Tids : Past(s)' = Past(s)
    BY <1>3 DEF Past
  <2>3. ASSUME NEW u \in Tids
        PROVE  /\ both[u] <= readClock[u]
               /\ \A s \in readers' : mPc'[s] = "realUnlock" => Past(s)'[u] <= readClock[u]
               /\ \/ readClock[u] = both[u]
                  \/ \E s \in readers' : mPc'[s] = "realUnlock" /\ readClock[u] = Past(s)'[u]
    <3>1. /\ readReleased[u] <= readClock[u] /\ Past(t)[u] <= readClock[u]
          /\ \A s \in readers : mPc[s] = "realUnlock" => Past(s)[u] <= readClock[u]
          /\ \/ readClock[u] = readReleased[u]
             \/ \E s \in readers : mPc[s] = "realUnlock" /\ readClock[u] = Past(s)[u]
      BY <1>3, <2>1 DEF MClocks
    <3>2. readClock[u] \in Nat /\ readReleased[u] \in Nat /\ Past(t)[u] \in Nat
      BY <1>1 DEF MTyped
    <3>3. \A s \in readers' : s \in readers /\ s # t /\ mPc'[s] = mPc[s]
      BY <1>3 DEF MTyped
    <3>4. \A s \in readers : s # t => s \in readers' /\ mPc'[s] = mPc[s]
      BY <1>3 DEF MTyped
    <3>5. readers \subseteq Tids /\ readers' \subseteq Tids
      BY <1>3 DEF MTyped
    <3> QED  BY <1>2, <2>2, <3>1, <3>2, <3>3, <3>4, <3>5
  <2>4. \A s \in Tids : ~Leaving(s) /\ ~Leaving(s)'
    BY <1>3, <2>1 DEF Leaving, MTyped
  <2>5. clock' = released'
    BY <1>3, <2>1, <2>4 DEF MClocks
  <2>6. ~Destroying'
    BY <1>3, <2>1 DEF Destroying, MTyped
  <2> QED  BY <1>3, <2>1, <2>3, <2>4, <2>5, <2>6 DEF MClocks
<1>7. MTimes'
  BY <1>1, <1>2, <1>3 DEF MTyped, MTimes
<1>8. MKnows'
  <2> SUFFICES ASSUME NEW s \in Tids, NEW u \in Tids, s # u
               PROVE  MKnowsOf(s, u)'
    BY DEF MKnows
  <2>1. MKnowsOf(s, u)
    BY DEF MKnows
  <2> QED  BY <1>1, <1>3, <2>1 DEF MKnowsOf, MTyped, MPlaces
<1> QED  BY <1>4, <1>5, <1>6, <1>7, <1>8

(* The wait returns with the lock: its hook is due.                            *)
LEMMA MWakeUp ==
  ASSUME MInv, NEW t \in Tids, Mutex!WakeUp(t)
  PROVE  MInv'
<1> DEFINE told == Mutex!Join(know[t], released)
<1>1. /\ told \in [Tids -> Nat]
      /\ \A u \in Tids : told[u] = IF know[t][u] >= released[u] THEN know[t][u] ELSE released[u]
  BY MJoin DEF MInv, MTyped
<1>2. /\ mPc[t] = "waiting" /\ writer = NoTid
      /\ writer' = t /\ depth' = 1 /\ abandoned' = FALSE
      /\ know' = [know EXCEPT ![t] = told]
      /\ mPc' = [mPc EXCEPT ![t] = IF abandoned THEN "repair" ELSE "lock"]
      /\ UNCHANGED <<kind, readers, released, readReleased, mEpoch, mClk, Mutex!sync>>
  BY DEF Mutex!WakeUp, Mutex!Goto
<1> HIDE DEF told
<1> USE MApart DEF MInv, Mutex!sync
<1>3. readers = {} /\ kind \in {"mutex", "recursive"} /\ ~Destroying
  BY <1>2 DEF MPlaces, Destroying
<1>4. readReleased = Mutex!Zero /\ clock = released /\ \A u \in Tids : readReleased[u] = 0 /\ readClock[u] = 0
  BY <1>2, <1>3, MZero DEF MClocks, Leaving, MTyped
<1>5. MTyped'
  <2>1. know' \in [Tids -> [Tids -> Nat]]
    BY <1>1, <1>2 DEF MTyped
  <2>2. mPc' \in [Tids -> Inside \union {"readLock", "waiting", "dead", "destroy"}]
    BY <1>2 DEF MTyped, Inside
  <2>3. writer' \in Tids \union {NoTid} /\ depth' \in Nat
    BY <1>2 DEF MTyped
  <2>4. abandoned' \in BOOLEAN
    BY <1>2, Zenon
  <2> QED  BY <1>2, <2>1, <2>2, <2>3, <2>4 DEF MTyped
<1>6. MPlaces' /\ MOwner' /\ NoMisuse'
  BY <1>2, <1>3 DEF MTyped, MPlaces, MOwner, Inside, NoMisuse
<1>7. MClocks'
  BY <1>1, <1>2, <1>3 DEF MTyped, MPlaces, MClocks, Leaving, Destroying, Past
<1>8. MTimes'
  BY <1>1, <1>2 DEF MTyped, MTimes
<1>9. MKnows'
  <2> SUFFICES ASSUME NEW s \in Tids, NEW u \in Tids, s # u
               PROVE  MKnowsOf(s, u)'
    BY DEF MKnows
  <2>1. MKnowsOf(s, u)
    BY DEF MKnows
  <2>2. CASE s # t
    BY <1>2, <2>1, <2>2 DEF MKnowsOf, MTyped, MPlaces
  <2>3. CASE s = t
    <3>1. mClk[t] \in [Tids -> Nat] /\ clock \in [Tids -> Nat] /\ readClock \in [Tids -> Nat]
      BY DEF MTyped
    <3>2. Mutex!Join(clock, readClock) \in [Tids -> Nat] /\ Mutex!Join(clock, readClock)[u] = clock[u]
      BY <1>4, <3>1, MJoin
    <3>3. Mutex!Join(mClk[t], Mutex!Join(clock, readClock))[u]
             = IF mClk[t][u] >= clock[u] THEN mClk[t][u] ELSE clock[u]
      BY <3>1, <3>2, MJoin
    <3>4. mClk[t][u] = know[t][u] /\ know'[t][u] = told[u] /\ know[t][u] \in Nat /\ told[u] \in Nat
      BY <1>1, <1>2, <2>1, <2>3 DEF MKnowsOf, MTyped
    <3> QED  BY <1>1, <1>2, <1>4, <2>3, <3>1, <3>3, <3>4 DEF MKnowsOf, MTyped
  <2> QED  BY <2>2, <2>3
<1> QED  BY <1>5, <1>6, <1>7, <1>8, <1>9

(* The real destruction: its hook is due.                                      *)
LEMMA MDestroy ==
  ASSUME MInv, NEW t \in Tids, Mutex!Destroy(t)
  PROVE  MInv'
<1>1. /\ mPc[t] = "idle" /\ writer = NoTid /\ readers = {} /\ ~abandoned
      /\ \A u \in Tids : mPc[u] \in {"idle", "dead"}
      /\ kind' = "none" /\ released' = Mutex!Zero /\ readReleased' = Mutex!Zero
      /\ mPc' = [mPc EXCEPT ![t] = "destroy"]
      /\ UNCHANGED <<abandoned, writer, depth, readers, know, mEpoch, mClk, Mutex!sync>>
  BY DEF Mutex!Destroy, Mutex!Goto
<1> USE MApart, MZero DEF MInv, Mutex!sync
<1>2. MTyped'
  BY <1>1 DEF MTyped, Inside
<1>3. MPlaces' /\ MOwner' /\ NoMisuse'
  BY <1>1 DEF MTyped, MPlaces, MOwner, Inside, NoMisuse
<1>4. MClocks'
  <2>1. Destroying'
    BY <1>1 DEF MTyped, Destroying
  <2> QED  BY <1>1, <2>1 DEF MClocks, Leaving, MTyped
<1>5. MTimes'
  BY <1>1 DEF MTyped, MTimes
<1>6. MKnows'
  BY <1>1 DEF MKnows, MKnowsOf, MTyped, MPlaces
<1> QED  BY <1>2, <1>3, <1>4, <1>5, <1>6

(* The memory becomes another mutex.                                           *)
LEMMA MCreate ==
  ASSUME MInv, NEW t \in Tids, Mutex!Create(t)
  PROVE  MInv'
<1>1. /\ kind = "none" /\ \A u \in Tids : mPc[u] \in {"idle", "dead"}
      /\ kind' \in {"mutex", "recursive", "rwlock"}
      /\ UNCHANGED <<abandoned, writer, depth, readers, released, readReleased, know, mPc, mEpoch, mClk, Mutex!sync>>
  BY DEF Mutex!Create, Mutex!Kinds
<1> USE MApart, MZero DEF MInv, Mutex!sync
<1>2. MTyped'
  BY <1>1 DEF MTyped, Inside
<1>3. MPlaces' /\ MOwner' /\ NoMisuse'
  BY <1>1 DEF MTyped, MPlaces, MOwner, Inside, NoMisuse
<1>4. MClocks'
  BY <1>1 DEF MTyped, MPlaces, MClocks, Leaving, Destroying, Past
<1>5. MTimes'
  BY <1>1 DEF MTyped, MTimes
<1>6. MKnows'
  BY <1>1 DEF MKnows, MKnowsOf, MTyped, MPlaces
<1> QED  BY <1>2, <1>3, <1>4, <1>5, <1>6

(* The hooks: the clock of t when its time has gone on by one.                 *)
LEMMA MNow ==
  ASSUME MTyped, NEW t \in Tids
  PROVE  /\ Mutex!Now(t) \in [Tids -> Nat]
         /\ \A u \in Tids : Mutex!Now(t)[u] = IF u = t THEN mEpoch[t] + 1 ELSE mClk[t][u]
BY DEF MTyped, Mutex!Now

(* MutexLock brings what the lock before it ordered.                           *)
LEMMA MMutexLock ==
  ASSUME MInv, NEW t \in Tids, Mutex!MutexLock(t)
  PROVE  MInv'
<1> DEFINE both == Mutex!Join(clock, readClock)
           told == Mutex!Join(Mutex!Now(t), both)
<1>1. /\ Mutex!Now(t) \in [Tids -> Nat] /\ both \in [Tids -> Nat] /\ told \in [Tids -> Nat]
      /\ \A u \in Tids : told[u] = IF Mutex!Now(t)[u] >= both[u] THEN Mutex!Now(t)[u] ELSE both[u]
      /\ \A u \in Tids : u # t => Mutex!Now(t)[u] = mClk[t][u]
  BY MNow, MJoin DEF MInv, MTyped
<1>2. /\ mPc[t] = "lock"
      /\ owner' = IF owner = NoTid THEN t ELSE owner
      /\ broken' = (broken \/ owner \notin {NoTid, t})
      /\ misuses' = IF owner \notin {NoTid, t} /\ ~broken THEN misuses + 1 ELSE misuses
      /\ mClk' = [mClk EXCEPT ![t] = IF recursion = 0 THEN told ELSE @]
      /\ recursion' = recursion + 1
      /\ mEpoch' = [mEpoch EXCEPT ![t] = @ + 1]
      /\ mPc' = [mPc EXCEPT ![t] = "idle"]
      /\ UNCHANGED <<kind, writer, depth, readers, released, readReleased, know, abandoned, clock, readClock>>
  BY DEF Mutex!MutexLock, Mutex!Goto, Mutex!Tick, Mutex!Report, Mutex!real
<1>3. /\ writer = t /\ readers = {} /\ depth \in Nat \ {0} /\ recursion = depth - 1
      /\ owner = IF depth = 1 THEN NoTid ELSE t
  BY <1>2, MApart DEF MInv, MTyped, MPlaces, MOwner
<1> HIDE DEF both, told
<1> USE MApart DEF MInv
<1>4. NoMisuse'
  BY <1>2, <1>3 DEF NoMisuse
<1>5. MTyped'
  <2>1. mClk' \in [Tids -> [Tids -> Nat]]
    BY <1>1, <1>2 DEF MTyped
  <2>2. owner' \in Tids \union {NoTid} /\ recursion' \in Nat
    BY <1>2 DEF MTyped
  <2>3. mPc' \in [Tids -> Inside \union {"readLock", "waiting", "dead", "destroy"}] /\ mEpoch' \in [Tids -> Nat]
    BY <1>2 DEF MTyped, Inside
  <2> QED  BY <1>2, <2>1, <2>2, <2>3 DEF MTyped
<1>6. MPlaces'
  BY <1>2, <1>3 DEF MTyped, MPlaces, Inside
<1>7. MOwner'
  BY <1>2, <1>3 DEF MTyped, MOwner
<1>8. MClocks'
  BY <1>2, <1>3 DEF MTyped, MPlaces, MClocks, Leaving, Destroying, Past
<1>9. MTimes'
  BY <1>2 DEF MTyped, MTimes
<1>10. MKnows'
  <2> SUFFICES ASSUME NEW s \in Tids, NEW u \in Tids, s # u
               PROVE  MKnowsOf(s, u)'
    BY DEF MKnows
  <2>1. MKnowsOf(s, u)
    BY DEF MKnows
  <2>2. CASE s # t
    BY <1>2, <1>3, <2>1, <2>2 DEF MKnowsOf, MTyped, MPlaces
  <2>3. CASE s = t
    <3>1. mClk[t] \in [Tids -> Nat]
      BY DEF MTyped
    <3>2. Mutex!Join(mClk[t], both)[u] = told[u]
      BY <1>1, <2>3, <3>1, MJoin
    <3>3. CASE depth = 1
      BY <1>2, <1>3, <2>1, <2>3, <3>2, <3>3 DEF MKnowsOf, MTyped, both
    <3>4. CASE depth # 1
      BY <1>2, <1>3, <2>1, <2>3, <3>4 DEF MKnowsOf, MTyped
    <3> QED  BY <3>3, <3>4
  <2> QED  BY <2>2, <2>3
<1> QED  BY <1>4, <1>5, <1>6, <1>7, <1>8, <1>9, <1>10

(* MutexRepair: the owner died, and the hook of the lock follows.              *)
LEMMA MMutexRepair ==
  ASSUME MInv, NEW t \in Tids, Mutex!MutexRepair(t)
  PROVE  MInv'
<1>1. /\ mPc[t] = "repair" /\ owner' = NoTid /\ recursion' = 0
      /\ mPc' = [mPc EXCEPT ![t] = "lock"]
      /\ UNCHANGED <<kind, writer, depth, readers, released, readReleased, know, abandoned,
                     mEpoch, mClk, broken, clock, readClock, misuses>>
  BY DEF Mutex!MutexRepair, Mutex!Goto, Mutex!real
<1>2. writer = t /\ depth = 1 /\ readers = {}
  BY <1>1, MApart DEF MInv, MPlaces
<1> USE MApart DEF MInv
<1>3. MTyped'
  BY <1>1 DEF MTyped, Inside
<1>4. MPlaces' /\ MOwner' /\ NoMisuse'
  BY <1>1, <1>2 DEF MTyped, MPlaces, MOwner, Inside, NoMisuse
<1>5. MClocks'
  BY <1>1, <1>2 DEF MTyped, MPlaces, MClocks, Leaving, Destroying, Past
<1>6. MTimes'
  BY <1>1 DEF MTyped, MTimes
<1>7. MKnows'
  BY <1>1, <1>2 DEF MKnows, MKnowsOf, MTyped, MPlaces
<1> QED  BY <1>3, <1>4, <1>5, <1>6, <1>7

(* MutexUnlock before the real unlock, or before a wait.                       *)
LEMMA MMutexUnlock ==
  ASSUME MInv, NEW t \in Tids, Mutex!MutexUnlock(t)
  PROVE  MInv'
<1> DEFINE now == Mutex!Now(t)
<1>1. now \in [Tids -> Nat] /\ \A u \in Tids : now[u] = IF u = t THEN mEpoch[t] + 1 ELSE mClk[t][u]
  BY MNow DEF MInv
<1>2. mPc[t] = "idle" /\ writer = t /\ kind # "rwlock"
  BY DEF Mutex!MutexUnlock
<1>3. /\ owner = t /\ recursion = depth /\ depth \in Nat \ {0} /\ readers = {}
      /\ kind \in {"mutex", "recursive"}
  BY <1>2, MApart DEF MInv, MTyped, MPlaces, MOwner
<1>4. PICK where \in {"realUnlock", "wait"} :
        (where = "wait" => depth = 1) /\ mPc' = [mPc EXCEPT ![t] = where]
  BY DEF Mutex!MutexUnlock, Mutex!Goto
<1>5. /\ mEpoch' = [mEpoch EXCEPT ![t] = @ + 1]
      /\ recursion' = recursion - 1
      /\ owner' = IF depth = 1 THEN NoTid ELSE t
      /\ mClk' = [mClk EXCEPT ![t] = IF depth = 1 THEN now ELSE @]
      /\ clock' = IF depth = 1 THEN now ELSE clock
      /\ UNCHANGED <<kind, writer, depth, readers, released, readReleased, know, abandoned, readClock>>
  BY <1>3 DEF Mutex!MutexUnlock, Mutex!Tick, Mutex!real
<1>6. UNCHANGED <<broken, misuses>>
  BY <1>3 DEF Mutex!MutexUnlock, Mutex!Report, MInv, NoMisuse
<1> HIDE DEF now
<1> USE MApart DEF MInv
<1>7. MTyped'
  <2>1. mClk' \in [Tids -> [Tids -> Nat]]
    BY <1>1, <1>5 DEF MTyped
  <2>2. clock' \in [Tids -> Nat]
    BY <1>1, <1>5 DEF MTyped
  <2>3. owner' \in Tids \union {NoTid} /\ recursion' \in Nat
    BY <1>3, <1>5 DEF MTyped
  <2>4. mPc' \in [Tids -> Inside \union {"readLock", "waiting", "dead", "destroy"}] /\ mEpoch' \in [Tids -> Nat]
    BY <1>4, <1>5 DEF MTyped, Inside
  <2> QED  BY <1>5, <2>1, <2>2, <2>3, <2>4 DEF MTyped
<1>8. MPlaces' /\ NoMisuse'
  BY <1>2, <1>3, <1>4, <1>5, <1>6 DEF MTyped, MPlaces, Inside, NoMisuse
<1>9. MOwner'
  BY <1>2, <1>3, <1>4, <1>5 DEF MTyped, MOwner
<1>10. MClocks'
  <2>1. ~Destroying /\ ~Destroying'
    BY <1>3, <1>4, <1>5 DEF MPlaces, Destroying, MTyped
  <2>2. \A s \in Tids : (Leaving(s)' => s = t /\ depth = 1) /\ ~Leaving(s)
    BY <1>2, <1>5 DEF Leaving
  <2>3. clock = released
    BY <2>1, <2>2 DEF MClocks
  <2>4. depth = 1 => now = Past(t)'
    <3>1. Past(t)' = [know[t] EXCEPT ![t] = mEpoch[t] + 1]
      BY <1>5 DEF Past, MTyped
    <3>2. know[t] \in [Tids -> Nat] /\ \A u \in Tids : u # t => know[t][u] = mClk[t][u]
      BY <1>2 DEF MKnows, MKnowsOf, MTyped
    <3> QED  BY <1>1, <3>1, <3>2
  <2>5. depth # 1 => clock' = released'
    BY <1>5, <2>3
  <2>6. depth = 1 => Leaving(t)'
    BY <1>2, <1>4, <1>5 DEF Leaving, MTyped
  <2> QED  BY <1>3, <1>5, <2>1, <2>2, <2>4, <2>5, <2>6 DEF MClocks
<1>11. MTimes'
  BY <1>5 DEF MTyped, MTimes
<1>12. MKnows'
  <2> SUFFICES ASSUME NEW s \in Tids, NEW u \in Tids, s # u
               PROVE  MKnowsOf(s, u)'
    BY DEF MKnows
  <2>1. MKnowsOf(s, u)
    BY DEF MKnows
  <2>2. CASE s # t
    <3>1. mPc[s] \notin {"lock", "repair", "readLock"}
      BY <1>2, <1>3, <2>2 DEF MPlaces
    <3> QED  BY <1>2, <1>4, <1>5, <2>1, <2>2, <3>1 DEF MKnowsOf, MTyped
  <2>3. CASE s = t
    <3>1. mClk'[t][u] = mClk[t][u]
      BY <1>1, <1>5, <2>3 DEF MTyped
    <3> QED  BY <1>2, <1>4, <1>5, <2>1, <2>3, <3>1 DEF MKnowsOf, MTyped
  <2> QED  BY <2>2, <2>3
<1> QED  BY <1>7, <1>8, <1>9, <1>10, <1>11, <1>12

(* MutexReadLock brings what writers released.                                 *)
LEMMA MMutexReadLock ==
  ASSUME MInv, NEW t \in Tids, Mutex!MutexReadLock(t)
  PROVE  MInv'
<1> DEFINE told == Mutex!Join(Mutex!Now(t), clock)
<1>1. /\ Mutex!Now(t) \in [Tids -> Nat] /\ told \in [Tids -> Nat]
      /\ \A u \in Tids : told[u] = IF Mutex!Now(t)[u] >= clock[u] THEN Mutex!Now(t)[u] ELSE clock[u]
      /\ \A u \in Tids : u # t => Mutex!Now(t)[u] = mClk[t][u]
  BY MNow, MJoin DEF MInv, MTyped
<1>2. /\ mPc[t] = "readLock"
      /\ broken' = (broken \/ owner # NoTid)
      /\ misuses' = IF owner # NoTid /\ ~broken THEN misuses + 1 ELSE misuses
      /\ mClk' = [mClk EXCEPT ![t] = told]
      /\ mEpoch' = [mEpoch EXCEPT ![t] = @ + 1]
      /\ mPc' = [mPc EXCEPT ![t] = "idle"]
      /\ UNCHANGED <<kind, writer, depth, readers, released, readReleased, know, abandoned,
                     owner, recursion, clock, readClock>>
  BY DEF Mutex!MutexReadLock, Mutex!Goto, Mutex!Tick, Mutex!Report, Mutex!real
<1>3. t \in readers /\ writer = NoTid /\ kind = "rwlock" /\ owner = NoTid
  BY <1>2 DEF MInv, MTyped, MPlaces, MOwner
<1> HIDE DEF told
<1> USE MApart DEF MInv
<1>4. NoMisuse'
  BY <1>2, <1>3 DEF NoMisuse
<1>5. MTyped'
  <2>1. mClk' \in [Tids -> [Tids -> Nat]]
    BY <1>1, <1>2 DEF MTyped
  <2>2. mPc' \in [Tids -> Inside \union {"readLock", "waiting", "dead", "destroy"}] /\ mEpoch' \in [Tids -> Nat]
    BY <1>2 DEF MTyped, Inside
  <2> QED  BY <1>2, <2>1, <2>2 DEF MTyped
<1>6. MPlaces' /\ MOwner'
  BY <1>2, <1>3 DEF MTyped, MPlaces, MOwner, Inside
<1>7. MClocks'
  <2>1. ~Destroying /\ ~Destroying'
    BY <1>2, <1>3 DEF MTyped, MPlaces, Destroying
  <2>2. \A s \in Tids : ~Leaving(s) /\ ~Leaving(s)'
    BY <1>2, <1>3 DEF Leaving, MTyped
  <2>3. \A s \in Tids : s # t => Past(s)' = Past(s) /\ mPc'[s] = mPc[s]
    BY <1>2 DEF Past, MTyped
  <2>4. mPc[t] # "realUnlock" /\ mPc'[t] # "realUnlock"
    BY <1>2 DEF MTyped
  <2>5. readers \subseteq Tids /\ readers' = readers
    BY <1>2 DEF MTyped
  <2>6. clock' = released'
    BY <1>2, <2>1, <2>2 DEF MClocks
  <2>7. ASSUME NEW u \in Tids
        PROVE  /\ readReleased[u] <= readClock[u]
               /\ \A s \in readers : mPc'[s] = "realUnlock" => Past(s)'[u] <= readClock[u]
               /\ \/ readClock[u] = readReleased[u]
                  \/ \E s \in readers : mPc'[s] = "realUnlock" /\ readClock[u] = Past(s)'[u]
    BY <2>1, <2>3, <2>4, <2>5 DEF MClocks
  <2> QED  BY <1>2, <1>3, <2>1, <2>2, <2>6, <2>7 DEF MClocks
<1>8. MTimes'
  BY <1>2 DEF MTyped, MTimes
<1>9. MKnows'
  <2> SUFFICES ASSUME NEW s \in Tids, NEW u \in Tids, s # u
               PROVE  MKnowsOf(s, u)'
    BY DEF MKnows
  <2>1. MKnowsOf(s, u)
    BY DEF MKnows
  <2>2. CASE s # t
    BY <1>2, <1>3, <2>1, <2>2 DEF MKnowsOf, MTyped, MPlaces
  <2>3. CASE s = t
    <3>1. mClk[t] \in [Tids -> Nat] /\ clock \in [Tids -> Nat]
      BY DEF MTyped
    <3>2. Mutex!Join(mClk[t], clock)[u] = told[u]
      BY <1>1, <2>3, <3>1, MJoin
    <3> QED  BY <1>2, <1>3, <2>1, <2>3, <3>2 DEF MKnowsOf, MTyped
  <2> QED  BY <2>2, <2>3
<1> QED  BY <1>4, <1>5, <1>6, <1>7, <1>8, <1>9

(* pthread_rwlock_unlock of the writer.                                        *)
LEMMA MWriteUnlock ==
  ASSUME MInv, NEW t \in Tids, Mutex!MutexReadOrWriteUnlock(t), writer = t
  PROVE  MInv'
<1> DEFINE now == Mutex!Now(t)
<1>1. now \in [Tids -> Nat] /\ \A u \in Tids : now[u] = IF u = t THEN mEpoch[t] + 1 ELSE mClk[t][u]
  BY MNow DEF MInv
<1>2. mPc[t] = "idle" /\ writer = t /\ kind = "rwlock"
  BY DEF Mutex!MutexReadOrWriteUnlock
<1>3. owner = t /\ recursion = depth /\ depth \in Nat \ {0} /\ readers = {}
  BY <1>2, MApart DEF MInv, MTyped, MPlaces, MOwner
<1>4. /\ mPc' = [mPc EXCEPT ![t] = "realUnlock"]
      /\ mEpoch' = [mEpoch EXCEPT ![t] = @ + 1]
      /\ recursion' = recursion - 1
      /\ owner' = IF depth = 1 THEN NoTid ELSE t
      /\ mClk' = [mClk EXCEPT ![t] = now]
      /\ clock' = IF depth = 1 THEN Mutex!Join(clock, now) ELSE clock
      /\ UNCHANGED <<kind, writer, depth, readers, released, readReleased, know, abandoned, readClock>>
  BY <1>3, MApart DEF Mutex!MutexReadOrWriteUnlock, Mutex!Tick, Mutex!Goto, Mutex!real
<1>5. UNCHANGED <<broken, misuses>>
  BY <1>3, MApart DEF Mutex!MutexReadOrWriteUnlock, Mutex!Report, MInv, NoMisuse
<1> HIDE DEF now
<1> USE MApart DEF MInv
<1>6. ~Destroying /\ \A s \in Tids : ~Leaving(s)
  BY <1>2 DEF MPlaces, Destroying, Leaving
<1>7. clock = released
  BY <1>6 DEF MClocks
<1>8. Mutex!Join(clock, now) = now
  <2>1. ASSUME NEW u \in Tids
        PROVE  clock[u] <= now[u] /\ clock[u] \in Nat /\ now[u] \in Nat
    <3>1. CASE u = t
      BY <1>1, <1>7, <3>1 DEF MTimes, MTyped
    <3>2. CASE u # t
      BY <1>1, <1>2, <1>7, <3>2 DEF MKnows, MKnowsOf, MTyped
    <3> QED  BY <3>1, <3>2
  <2> QED  BY <1>1, <2>1 DEF Mutex!Join
<1>9. MTyped'
  <2>1. mClk' \in [Tids -> [Tids -> Nat]]
    BY <1>1, <1>4 DEF MTyped
  <2>2. clock' \in [Tids -> Nat]
    BY <1>1, <1>4, <1>8 DEF MTyped
  <2>3. owner' \in Tids \union {NoTid} /\ recursion' \in Nat
    BY <1>3, <1>4 DEF MTyped
  <2>4. mPc' \in [Tids -> Inside \union {"readLock", "waiting", "dead", "destroy"}] /\ mEpoch' \in [Tids -> Nat]
    BY <1>4 DEF MTyped, Inside
  <2> QED  BY <1>4, <2>1, <2>2, <2>3, <2>4 DEF MTyped
<1>10. MPlaces' /\ NoMisuse'
  BY <1>2, <1>3, <1>4, <1>5 DEF MTyped, MPlaces, Inside, NoMisuse
<1>11. MOwner'
  BY <1>2, <1>3, <1>4 DEF MTyped, MOwner
<1>12. MClocks'
  <2>1. ~Destroying'
    BY <1>4, <1>6 DEF Destroying, MTyped
  <2>2. \A s \in Tids : Leaving(s)' => s = t /\ depth = 1
    BY <1>2, <1>4 DEF Leaving
  <2>3. depth = 1 => now = Past(t)'
    <3>1. Past(t)' = [know[t] EXCEPT ![t] = mEpoch[t] + 1]
      BY <1>4 DEF Past, MTyped
    <3>2. know[t] \in [Tids -> Nat] /\ \A u \in Tids : u # t => know[t][u] = mClk[t][u]
      BY <1>2 DEF MKnows, MKnowsOf, MTyped
    <3> QED  BY <1>1, <3>1, <3>2
  <2>4. depth # 1 => clock' = released'
    BY <1>4, <1>7
  <2>5. depth = 1 => Leaving(t)'
    BY <1>2, <1>4 DEF Leaving, MTyped
  <2> QED  BY <1>2, <1>3, <1>4, <1>6, <1>8, <2>1, <2>2, <2>3, <2>4, <2>5 DEF MClocks
<1>13. MTimes'
  BY <1>4 DEF MTyped, MTimes
<1>14. MKnows'
  <2> SUFFICES ASSUME NEW s \in Tids, NEW u \in Tids, s # u
               PROVE  MKnowsOf(s, u)'
    BY DEF MKnows
  <2>1. MKnowsOf(s, u)
    BY DEF MKnows
  <2>2. CASE s # t
    <3>1. mPc[s] \notin {"lock", "repair", "readLock"}
      BY <1>2, <1>3, <2>2 DEF MPlaces
    <3> QED  BY <1>2, <1>4, <2>1, <2>2, <3>1 DEF MKnowsOf, MTyped
  <2>3. CASE s = t
    <3>1. mClk'[t][u] = mClk[t][u]
      BY <1>1, <1>4, <2>3 DEF MTyped
    <3> QED  BY <1>2, <1>4, <2>1, <2>3, <3>1 DEF MKnowsOf, MTyped
  <2> QED  BY <2>2, <2>3
<1> QED  BY <1>9, <1>10, <1>11, <1>12, <1>13, <1>14

(* And of a reader: others may be between their hook and the real unlock too.  *)
LEMMA MReadUnlock ==
  ASSUME MInv, NEW t \in Tids, Mutex!MutexReadOrWriteUnlock(t), t \in readers
  PROVE  MInv'
<1> DEFINE now == Mutex!Now(t)
           both == Mutex!Join(readClock, now)
<1>1. now \in [Tids -> Nat] /\ \A u \in Tids : now[u] = IF u = t THEN mEpoch[t] + 1 ELSE mClk[t][u]
  BY MNow DEF MInv
<1>2. /\ both \in [Tids -> Nat]
      /\ \A u \in Tids : both[u] = IF readClock[u] >= now[u] THEN readClock[u] ELSE now[u]
  BY <1>1, MJoin DEF MInv, MTyped
<1>3. mPc[t] = "idle" /\ kind = "rwlock" /\ writer = NoTid /\ owner = NoTid
  BY MApart DEF Mutex!MutexReadOrWriteUnlock, MInv, MPlaces, MTyped, MOwner
<1>4. /\ mPc' = [mPc EXCEPT ![t] = "realUnlock"]
      /\ mEpoch' = [mEpoch EXCEPT ![t] = @ + 1]
      /\ mClk' = [mClk EXCEPT ![t] = now]
      /\ readClock' = both
      /\ UNCHANGED <<kind, writer, depth, readers, released, readReleased, know, abandoned,
                     owner, recursion, clock>>
  BY <1>3, MApart DEF Mutex!MutexReadOrWriteUnlock, Mutex!Tick, Mutex!Goto, Mutex!real
<1>5. UNCHANGED <<broken, misuses>>
  BY <1>3, MApart DEF Mutex!MutexReadOrWriteUnlock, Mutex!Report, MInv, NoMisuse
<1> HIDE DEF now, both
<1> USE MApart DEF MInv
<1>6. MTyped'
  <2>1. mClk' \in [Tids -> [Tids -> Nat]] /\ readClock' \in [Tids -> Nat]
    BY <1>1, <1>2, <1>4 DEF MTyped
  <2>2. mPc' \in [Tids -> Inside \union {"readLock", "waiting", "dead", "destroy"}] /\ mEpoch' \in [Tids -> Nat]
    BY <1>4 DEF MTyped, Inside
  <2> QED  BY <1>4, <2>1, <2>2 DEF MTyped
<1>7. MPlaces' /\ MOwner' /\ NoMisuse'
  BY <1>3, <1>4, <1>5 DEF MTyped, MPlaces, MOwner, Inside, NoMisuse
<1>8. MClocks'
  <2>1. ~Destroying /\ ~Destroying'
    BY <1>3, <1>4 DEF MTyped, MPlaces, Destroying
  <2>2. \A s \in Tids : ~Leaving(s) /\ ~Leaving(s)'
    BY <1>3, <1>4 DEF Leaving, MTyped
  <2>3. Past(t)' = now
    <3>1. Past(t)' = [know[t] EXCEPT ![t] = mEpoch[t] + 1]
      BY <1>4 DEF Past, MTyped
    <3>2. know[t] \in [Tids -> Nat] /\ \A u \in Tids : u # t => know[t][u] = mClk[t][u]
      BY <1>3 DEF MKnows, MKnowsOf, MTyped
    <3> QED  BY <1>1, <3>1, <3>2
  <2>4. \A s \in Tids : s # t => Past(s)' = Past(s) /\ mPc'[s] = mPc[s]
    BY <1>4 DEF Past, MTyped
  <2>5. mPc[t] # "realUnlock" /\ mPc'[t] = "realUnlock"
    BY <1>3, <1>4 DEF MTyped
  <2>6. readers \subseteq Tids /\ readers' = readers
    BY <1>4 DEF MTyped
  <2>7. clock' = released'
    BY <1>4, <2>1, <2>2 DEF MClocks
  <2>8. ASSUME NEW u \in Tids
        PROVE  /\ readReleased[u] <= both[u]
               /\ \A s \in readers : mPc'[s] = "realUnlock" => Past(s)'[u] <= both[u]
               /\ \/ both[u] = readReleased[u]
                  \/ \E s \in readers : mPc'[s] = "realUnlock" /\ both[u] = Past(s)'[u]
    <3>1. readClock[u] \in Nat /\ readReleased[u] \in Nat /\ now[u] \in Nat
      BY <1>1 DEF MTyped
    <3>2. \A s \in Tids : Past(s)[u] \in Nat
      BY MPast
    <3>3. /\ readReleased[u] <= readClock[u]
          /\ \A s \in readers : mPc[s] = "realUnlock" => Past(s)[u] <= readClock[u]
          /\ \/ readClock[u] = readReleased[u]
             \/ \E s \in readers : mPc[s] = "realUnlock" /\ readClock[u] = Past(s)[u]
      BY <2>1 DEF MClocks
    <3>4. readClock[u] <= both[u] /\ now[u] <= both[u] /\ both[u] \in {readClock[u], now[u]} /\ both[u] \in Nat
      BY <1>2, <3>1
    <3>5. readReleased[u] <= both[u]
      BY <3>1, <3>3, <3>4
    <3>6. ASSUME NEW s \in readers, mPc'[s] = "realUnlock" PROVE Past(s)'[u] <= both[u]
      <4>1. CASE s = t
        BY <2>3, <3>4, <4>1
      <4>2. CASE s # t
        BY <2>4, <2>6, <3>1, <3>2, <3>3, <3>4, <3>6, <4>2
      <4> QED  BY <4>1, <4>2
    <3>7. \/ both[u] = readReleased[u]
          \/ \E s \in readers : mPc'[s] = "realUnlock" /\ both[u] = Past(s)'[u]
      BY <2>3, <2>4, <2>5, <2>6, <3>3, <3>4
    <3> QED  BY <3>5, <3>6, <3>7
  <2> QED  BY <1>3, <1>4, <2>1, <2>2, <2>7, <2>8 DEF MClocks
<1>9. MTimes'
  BY <1>4 DEF MTyped, MTimes
<1>10. MKnows'
  <2> SUFFICES ASSUME NEW s \in Tids, NEW u \in Tids, s # u
               PROVE  MKnowsOf(s, u)'
    BY DEF MKnows
  <2>1. MKnowsOf(s, u)
    BY DEF MKnows
  <2>2. CASE s # t
    BY <1>3, <1>4, <2>1, <2>2 DEF MKnowsOf, MTyped, MPlaces
  <2>3. CASE s = t
    <3>1. mClk'[t][u] = mClk[t][u]
      BY <1>1, <1>4, <2>3 DEF MTyped
    <3> QED  BY <1>3, <1>4, <2>1, <2>3, <3>1 DEF MKnowsOf, MTyped
  <2> QED  BY <2>2, <2>3
<1> QED  BY <1>6, <1>7, <1>8, <1>9, <1>10

(* MutexDestroy clears the object.                                             *)
LEMMA MMutexDestroy ==
  ASSUME MInv, NEW t \in Tids, Mutex!MutexDestroy(t)
  PROVE  MInv'
<1>1. /\ mPc[t] = "destroy"
      /\ misuses' = IF owner # NoTid /\ ~broken THEN misuses + 1 ELSE misuses
      /\ owner' = NoTid /\ recursion' = 0 /\ broken' = FALSE
      /\ clock' = Mutex!Zero /\ readClock' = Mutex!Zero
      /\ mPc' = [mPc EXCEPT ![t] = "idle"]
      /\ UNCHANGED <<kind, writer, depth, readers, released, readReleased, know, abandoned, mEpoch, mClk>>
  BY DEF Mutex!MutexDestroy, Mutex!Goto, Mutex!real
<1>2. /\ kind = "none" /\ writer = NoTid /\ readers = {} /\ owner = NoTid
      /\ \A u \in Tids \ {t} : mPc[u] \in {"idle", "dead"}
  BY <1>1, MApart DEF MInv, MTyped, MPlaces, MOwner
<1> USE MApart, MZero DEF MInv
<1>3. NoMisuse'
  BY <1>1, <1>2 DEF NoMisuse
<1>4. MTyped'
  BY <1>1 DEF MTyped, Inside
<1>5. MPlaces' /\ MOwner'
  BY <1>1, <1>2 DEF MTyped, MPlaces, MOwner, Inside
<1>6. MClocks'
  BY <1>1, <1>2 DEF MTyped, MClocks, Leaving, Destroying, Past
<1>7. MTimes'
  BY <1>1 DEF MTyped, MTimes
<1>8. MKnows'
  BY <1>1, <1>2 DEF MKnows, MKnowsOf, MTyped
<1> QED  BY <1>3, <1>4, <1>5, <1>6, <1>7, <1>8

(* Nothing has happened.                                                       *)
LEMMA MInitially == Mutex!Init => MInv
<1> SUFFICES ASSUME Mutex!Init PROVE MInv
  OBVIOUS
<1> USE MApart, MZero DEF Mutex!Init
<1>1. \A t \in Tids : mPc[t] = "idle" /\ mEpoch[t] = 0 /\ know[t] = Mutex!Zero /\ mClk[t] = Mutex!Zero
  OBVIOUS
<1>2. abandoned \in BOOLEAN
  BY Zenon
<1>3. MTyped
  BY <1>2 DEF MTyped, Inside, Mutex!Kinds
<1>4. MPlaces /\ MOwner /\ NoMisuse
  BY <1>1 DEF MPlaces, MOwner, NoMisuse, Inside, Mutex!Kinds
<1>5. MClocks
  BY <1>1 DEF MClocks, Leaving, Destroying, Mutex!Kinds
<1>6. MTimes /\ MKnows
  BY <1>1 DEF MTimes, MKnows, MKnowsOf
<1> QED  BY <1>3, <1>4, <1>5, <1>6 DEF MInv

(* Every real operation and every hook keeps the invariant.                    *)
LEMMA MStep == MInv /\ [Mutex!Next]_(Mutex!vars) => MInv'
<1> SUFFICES ASSUME MInv, [Mutex!Next]_(Mutex!vars) PROVE MInv'
  OBVIOUS
<1>1. CASE Mutex!Next
  <2>1. PICK t \in Tids :
          \/ Mutex!RealLock(t) \/ Mutex!RealReadLock(t) \/ Mutex!RealUnlock(t) \/ Mutex!RealReadUnlock(t)
          \/ Mutex!WakeUp(t) \/ Mutex!Die(t) \/ Mutex!Destroy(t) \/ Mutex!Create(t)
          \/ Mutex!MutexLock(t) \/ Mutex!MutexUnlock(t) \/ Mutex!MutexReadLock(t)
          \/ Mutex!MutexReadOrWriteUnlock(t) \/ Mutex!MutexRepair(t) \/ Mutex!MutexDestroy(t)
    BY <1>1 DEF Mutex!Next, Mutex!Hook
  <2>2. CASE Mutex!MutexReadOrWriteUnlock(t)
    <3>1. writer = t \/ t \in readers
      BY <2>2 DEF Mutex!MutexReadOrWriteUnlock
    <3> QED  BY <2>2, <3>1, MWriteUnlock, MReadUnlock
  <2> QED  BY <2>1, <2>2, MRealLock, MRealReadLock, MRealUnlock, MRealReadUnlock, MWakeUp, MDie, MDestroy,
              MCreate, MMutexLock, MMutexUnlock, MMutexReadLock, MMutexRepair, MMutexDestroy
<1>2. CASE UNCHANGED Mutex!vars
  BY <1>2 DEF Mutex!vars, Mutex!real, Mutex!sync, MInv, MTyped, MPlaces, MOwner, MClocks, MTimes, MKnows,
              MKnowsOf, NoMisuse, Leaving, Destroying, Past
<1> QED  BY <1>1, <1>2

(* The invariant says what the run checks.                                     *)
LEMMA MExact == MInv => OrderIsExact
<1> SUFFICES ASSUME MInv PROVE OrderIsExact
  OBVIOUS
<1>1. Mutex!OrderIsExact
  BY DEF MInv, MKnows, MKnowsOf, Mutex!OrderIsExact
<1>2. Mutex!NoFalseMisuse
  BY DEF MInv, NoMisuse, Mutex!NoFalseMisuse
<1>3. Mutex!OwnerIsHolder
  <2> SUFFICES ASSUME ~abandoned, \A t \in Tids : mPc[t] \in {"idle", "waiting", "dead"}
               PROVE  owner = writer /\ recursion = depth
    BY DEF Mutex!OwnerIsHolder
  <2>1. CASE writer = NoTid
    BY <2>1 DEF MInv, MOwner, MPlaces
  <2>2. CASE writer \in Tids
    <3>1. mPc[writer] = "idle"
      BY <2>2 DEF MInv, MPlaces, Inside
    <3> QED  BY <2>2, <3>1 DEF MInv, MOwner
  <2> QED  BY <2>1, <2>2 DEF MInv, MTyped
<1> QED  BY <1>1, <1>2, <1>3 DEF OrderIsExact

(* A thread knows of the others what POSIX orders before it, no misuse is      *)
(* reported to a correct program and the SyncVar says who holds the lock, for  *)
(* any threads, whatever hooks run between a real call and its own             *)
(* (tsan_rtl_mutex.cc, tsan_interceptors.cc).                                  *)
THEOREM OrderStaysExact == Mutex!Spec => []OrderIsExact
<1>1. Mutex!Init => MInv
  BY MInitially
<1>2. MInv /\ [Mutex!Next]_(Mutex!vars) => MInv'
  BY MStep
<1>3. MInv => OrderIsExact
  BY MExact
<1> QED  BY <1>1, <1>2, <1>3, PTL DEF Mutex!Spec

-----------------------------------------------------------------------------
(* The run.  Its other parts stand still.                                      *)
RInv ==
  /\ MInv
  /\ \A p \in DOMAIN Sizes : part = p => SInv(Sizes[p]) /\ (Sizes[p].serial => CInv(Sizes[p]))

(* All sizes of the run are covered.                                           *)
LEMMA SizesFit ==
  /\ DOMAIN Sizes = {"serial", "again", "overlap"}
  /\ \A p \in DOMAIN Sizes : Sizes[p].cnt \in Nat \ {0} /\ Sizes[p].ranges \subseteq Granule
<1>1. DOMAIN Sizes = {"serial", "again", "overlap"}
  BY DEF Sizes
<1>2. \A p \in DOMAIN Sizes : Shadow(Sizes[p])!ShadowAssumption
  BY PartsAssumption
<1> QED  BY <1>1, <1>2 DEF Shadow!ShadowAssumption, Granule

(* In those without overlapping accesses the fast scan sees every epoch.       *)
LEMMA SizesWide ==
  \A p \in DOMAIN Sizes : Sizes[p].serial => Sizeable(Sizes[p]) /\ WideEnough(Sizes[p])
<1> SUFFICES ASSUME NEW p \in DOMAIN Sizes, Sizes[p].serial
             PROVE  Sizeable(Sizes[p]) /\ WideEnough(Sizes[p])
  OBVIOUS
<1>0. p \in {"serial", "again"}
  <2>1. ~Sizes["overlap"].serial
    BY DEF Sizes
  <2> QED  BY <2>1, SizesFit
<1> DEFINE k == Sizes[p]
<1>1. /\ k.bits = 8 /\ k.accesses + 2 * k.frees + k.syncs \in 0 .. 7 /\ k.serial
      /\ k.accesses \in Nat /\ k.frees \in Nat /\ k.syncs \in Nat
  BY <1>0 DEF Sizes
<1>2. k.cnt \in Nat \ {0} /\ k.ranges \subseteq Granule
  BY SizesFit
<1> HIDE DEF k
<1>3. \A e \in 0 .. 7 : Shadow(k)!Signed(e) = e
  BY <1>1, SMT DEF Shadow!Signed
<1>4. WideEnough(k)
  <2>1. \A e \in 0 .. k.accesses + 2 * k.frees + k.syncs : e \in 0 .. 7
    BY <1>1
  <2> QED  BY <1>3, <2>1 DEF WideEnough
<1> QED  BY <1>1, <1>2, <1>4 DEF k, Sizeable

(* A cell is left alone by the other parts.                                    *)
LEMMA ShadowStill ==
  ASSUME NEW k, k.cnt \in Nat \ {0}, k.ranges \subseteq Granule, SInv(k), UNCHANGED shVars
  PROVE  SInv(k)' /\ (CInv(k) => CInv(k)')
<1>1. UNCHANGED Shadow(k)!vars
  BY DEF shVars, Shadow!vars
<1> QED  BY <1>1, SStep, CStutter

(* The mutex is left alone by the other parts.                                 *)
LEMMA MutexStill ==
  ASSUME MInv, UNCHANGED muVars
  PROVE  MInv'
<1>1. UNCHANGED Mutex!vars
  BY DEF muVars, Mutex!vars, Mutex!real, Mutex!sync
<1> QED  BY <1>1, MStep

(* The run starts right, in every part.                                        *)
LEMMA RunInit == MCInit => RInv
<1> SUFFICES ASSUME MCInit PROVE RInv
  OBVIOUS
<1>1. MInv
  BY MInitially DEF MCInit
<1>2. ASSUME NEW p \in DOMAIN Sizes PROVE SInv(Sizes[p]) /\ (Sizes[p].serial => CInv(Sizes[p]))
  <2>1. Sizes[p].cnt = 2 /\ Sizes.serial.cnt = 2
    BY SizesFit DEF Sizes
  <2>2. Shadow(Sizes[p])!Init
    <3>1. Shadow(Sizes.serial)!Init
      BY DEF MCInit
    <3> QED  BY <2>1, <3>1 DEF Shadow!Init, Shadow!Idle, Shadow!ZeroWord
  <2> QED  BY <2>2, SizesFit, SizesWide, SInitially, CInitially
<1> QED  BY <1>1, <1>2 DEF RInv

(* A step of one part.                                                         *)
LEMMA RunStep == RInv /\ [MCNext]_mcvars => RInv'
<1> SUFFICES ASSUME RInv, [MCNext]_mcvars PROVE RInv'
  OBVIOUS
<1>1. CASE UNCHANGED mcvars
  <2>1. UNCHANGED muVars /\ UNCHANGED shVars /\ part' = part
    BY <1>1 DEF mcvars
  <2> QED  BY <2>1, SizesFit, ShadowStill, MutexStill DEF RInv
<1>2. CASE \E p \in DOMAIN Sizes : part = p /\ Shadow(Sizes[p])!Next /\ UNCHANGED <<part, muVars, mmVars>>
  <2>1. PICK p \in DOMAIN Sizes : part = p /\ Shadow(Sizes[p])!Next /\ UNCHANGED <<part, muVars, mmVars>>
    BY <1>2
  <2>2. MInv'
    BY <2>1, MutexStill DEF RInv
  <2>3. SInv(Sizes[p])' /\ (Sizes[p].serial => CInv(Sizes[p])')
    BY <2>1, SizesFit, SizesWide, SStep, CStep DEF RInv
  <2> QED  BY <2>1, <2>2, <2>3 DEF RInv
<1>3. CASE part = "mutex" /\ Mutex!Next /\ UNCHANGED <<part, shVars, mmVars>>
  <2>1. MInv'
    BY <1>3, MStep DEF RInv
  <2> QED  BY <1>3, <2>1, SizesFit DEF RInv
<1>4. CASE part \in {"map", "moves"} /\ UNCHANGED <<part, shVars, muVars>>
  <2>1. MInv'
    BY <1>4, MutexStill DEF RInv
  <2> QED  BY <1>4, <2>1, SizesFit DEF RInv
<1> QED  BY <1>1, <1>2, <1>3, <1>4 DEF MCNext

(* In the run, what is reported is a race.                                     *)
THEOREM RunReportsAreRaces == MCSpec => []EveryReportIsARace
<1>1. RInv => EveryReportIsARace
  BY SReported DEF RInv, EveryReportIsARace
<1> QED  BY <1>1, RunInit, RunStep, PTL DEF MCSpec

(* In the run, every race the cell can know of is reported, and every access   *)
(* to freed memory.                                                            *)
THEOREM RunRacesAreReported == MCSpec => []EveryRaceIsReported
<1>1. RInv => EveryRaceIsReported
  <2> SUFFICES ASSUME NEW p \in DOMAIN Sizes, SInv(Sizes[p]), Sizes[p].serial => CInv(Sizes[p])
               PROVE  Shadow(Sizes[p])!EveryRaceIsReported /\ Shadow(Sizes[p])!FreedIsReported
    BY DEF RInv, EveryRaceIsReported
  <2>1. CASE Sizes[p].serial
    BY <2>1, SizesWide, CReported
  <2>2. CASE ~Sizes[p].serial
    BY <2>2 DEF Shadow!EveryRaceIsReported, Shadow!FreedIsReported
  <2> QED  BY <2>1, <2>2
<1> QED  BY <1>1, RunInit, RunStep, PTL DEF MCSpec

(* In the run, what threads know of each other through a mutex is exact, and   *)
(* nobody is accused of misuse.                                                *)
THEOREM RunOrderIsExact == MCSpec => []OrderIsExact
<1>1. RInv => OrderIsExact
  BY MExact DEF RInv
<1> QED  BY <1>1, RunInit, RunStep, PTL DEF MCSpec
===============================================================================
