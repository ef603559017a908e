------------------------------ MODULE HeapProofs ------------------------------
(***************************************************************************)
(* Proofs about the concurrent data structures of sanitizer_common, for    *)
(* every number of threads, nodes, chunks, addresses and stacks, and that  *)
(* they hold in the run of all of them (MCSanitizerHeap).                  *)
(*                                                                         *)
(* LFStack (L): the counter tells how many pushes a thread that pops has   *)
(* missed, and one that has missed none has the link of the first node.    *)
(* SizeClassAllocator (C): what a thread takes from the list, or makes,    *)
(* under the mutex is nobody's until it is in its cache.  AddrHashMap (H): *)
(* who writes to a bucket is alone with its writer's lock, so what a       *)
(* finder has seen stays.  StackDepot: a bucket's list is what its locker  *)
(* saw, an id is in a node or with one thread, and no block lies where the *)
(* allocator's position may still go.  AsanChunks (Q): every step moves a  *)
(* chunk from one place to one other, and quarantines are counted batch by *)
(* batch.                                                                  *)
(***************************************************************************)
EXTENDS MCSanitizerHeap, FiniteSetTheorems, SequenceTheorems, TLAPS

-------------------------------------------------------------------------------
(* Sequences: what pushing in front and taking the first away do.              *)
LEMMA SeqCons ==
  ASSUME NEW S, NEW s \in Seq(S), NEW x \in S
  PROVE  /\ <<x>> \o s \in Seq(S) /\ <<x>> \o s # << >>
         /\ Len(<<x>> \o s) = Len(s) + 1
         /\ (<<x>> \o s)[1] = x
         /\ \A n \in 1 .. Len(s) : (<<x>> \o s)[n + 1] = s[n]
         /\ \A n \in 2 .. Len(s) + 1 : (<<x>> \o s)[n] = s[n - 1]
OBVIOUS

LEMMA SeqTail ==
  ASSUME NEW S, NEW s \in Seq(S), s # << >>
  PROVE  /\ Tail(s) \in Seq(S) /\ Head(s) = s[1] /\ s[1] \in S
         /\ Len(s) \in Nat \ {0} /\ Len(Tail(s)) = Len(s) - 1
         /\ \A n \in 1 .. Len(s) - 1 : Tail(s)[n] = s[n + 1]
OBVIOUS

LEMMA SeqBasics ==
  ASSUME NEW S, NEW s \in Seq(S)
  PROVE  /\ Len(s) \in Nat /\ DOMAIN s = 1 .. Len(s)
         /\ \A n \in 1 .. Len(s) : s[n] \in S
         /\ s = << >> <=> Len(s) = 0
OBVIOUS

LEMMA SeqCut ==
  ASSUME NEW S, NEW s \in Seq(S), NEW k \in 0 .. Len(s)
  PROVE  /\ SubSeq(s, 1, k) \in Seq(S) /\ Len(SubSeq(s, 1, k)) = k
         /\ SubSeq(s, k + 1, Len(s)) \in Seq(S) /\ Len(SubSeq(s, k + 1, Len(s))) = Len(s) - k
         /\ C!Range(s) = C!Range(SubSeq(s, 1, k)) \union C!Range(SubSeq(s, k + 1, Len(s)))
         /\ C!IsInjective(s) =>
              /\ C!IsInjective(SubSeq(s, 1, k)) /\ C!IsInjective(SubSeq(s, k + 1, Len(s)))
              /\ C!Range(SubSeq(s, 1, k)) \intersect C!Range(SubSeq(s, k + 1, Len(s))) = {}
<1> DEFINE p == SubSeq(s, 1, k)  q == SubSeq(s, k + 1, Len(s))
<1>0. Len(s) \in Nat
  OBVIOUS
<1>1. /\ p \in Seq(S) /\ Len(p) = k /\ DOMAIN p = 1 .. k
      /\ \A n \in 1 .. k : p[n] = s[n]
  BY <1>0, SubSeqProperties
<1>2. /\ q \in Seq(S) /\ Len(q) = Len(s) - k /\ DOMAIN q = 1 .. Len(s) - k
      /\ \A n \in 1 .. Len(s) - k : q[n] = s[n + k]
  BY <1>0, SubSeqProperties
<1>3. DOMAIN s = 1 .. Len(s)
  OBVIOUS
<1> HIDE DEF p, q
<1>4. \A n \in 1 .. Len(s) : \/ n \in 1 .. k /\ s[n] = p[n]
                             \/ n - k \in 1 .. Len(s) - k /\ s[n] = q[n - k]
  BY <1>0, <1>1, <1>2
<1>5. C!Range(s) = C!Range(p) \union C!Range(q)
  <2>1. C!Range(s) \subseteq C!Range(p) \union C!Range(q)
    <3> SUFFICES ASSUME NEW n \in 1 .. Len(s) PROVE s[n] \in C!Range(p) \union C!Range(q)
      BY <1>3 DEF C!Range
    <3>1. CASE n \in 1 .. k /\ s[n] = p[n]
      BY <1>1, <3>1 DEF C!Range
    <3>2. CASE n - k \in 1 .. Len(s) - k /\ s[n] = q[n - k]
      BY <1>2, <3>2 DEF C!Range
    <3> QED  BY <1>4, <3>1, <3>2
  <2>2. C!Range(p) \subseteq C!Range(s)
    BY <1>0, <1>1, <1>3 DEF C!Range
  <2>3. \A n \in 1 .. Len(s) - k : n + k \in 1 .. Len(s)
    BY <1>0
  <2>4. C!Range(q) \subseteq C!Range(s)
    BY <1>2, <1>3, <2>3 DEF C!Range
  <2> QED  BY <2>1, <2>2, <2>4
<1>6. ASSUME C!IsInjective(s)
      PROVE  C!IsInjective(p) /\ C!IsInjective(q) /\ C!Range(p) \intersect C!Range(q) = {}
  <2>1. \A n \in 1 .. k : n \in 1 .. Len(s)
    BY <1>0
  <2>2. \A n \in 1 .. Len(s) - k : n + k \in 1 .. Len(s)
    BY <1>0
  <2>3. C!IsInjective(p)
    BY <1>1, <1>3, <1>6, <2>1 DEF C!IsInjective
  <2>4. C!IsInjective(q)
    <3>1. \A a, b \in 1 .. Len(s) - k : a + k = b + k => a = b
      BY <1>0
    <3> QED  BY <1>2, <1>3, <1>6, <2>2, <3>1 DEF C!IsInjective
  <2>5. \A a \in 1 .. k, b \in 1 .. Len(s) - k : a # b + k
    BY <1>0
  <2>6. C!Range(p) \intersect C!Range(q) = {}
    <3>1. \A a \in DOMAIN p, c \in DOMAIN q : p[a] # q[c]
      <4> SUFFICES ASSUME NEW a \in 1 .. k, NEW c \in 1 .. Len(s) - k, p[a] = q[c] PROVE FALSE
        BY <1>1, <1>2
      <4>1. s[a] = s[c + k] /\ a \in DOMAIN s /\ c + k \in DOMAIN s
        BY <1>1, <1>2, <1>3, <2>1, <2>2
      <4> QED  BY <1>6, <2>5, <4>1 DEF C!IsInjective
    <3> QED  BY <3>1 DEF C!Range
  <2> QED  BY <2>3, <2>4, <2>6
<1> QED  BY <1>1, <1>2, <1>5, <1>6 DEF p, q

(* All of a sequence but the last, and the last.                               *)
LEMMA SeqFront ==
  ASSUME NEW S, NEW s \in Seq(S), s # << >>
  PROVE  /\ C!Front(s) \in Seq(S) /\ Len(C!Front(s)) = Len(s) - 1 /\ C!Last(s) \in S
         /\ C!Range(s) = C!Range(C!Front(s)) \union {C!Last(s)}
         /\ C!IsInjective(s) => C!IsInjective(C!Front(s)) /\ C!Last(s) \notin C!Range(C!Front(s))
<1>1. Len(s) \in Nat \ {0} /\ Len(s) - 1 \in 0 .. Len(s) /\ Len(s) - 1 + 1 = Len(s) /\ s[Len(s)] \in S
  OBVIOUS
<1> DEFINE q == SubSeq(s, Len(s), Len(s))
<1>2. DOMAIN q = {1} /\ q[1] = s[Len(s)]
  <2>1. Len(q) = 1 /\ q \in Seq(S) /\ q[1] = s[Len(s)]
    BY <1>1, SubSeqProperties
  <2> QED  BY <2>1
<1>3. C!Range(q) = {s[Len(s)]}
  BY <1>2 DEF C!Range
<1>4. LET n == Len(s) - 1 IN
      /\ SubSeq(s, 1, n) \in Seq(S) /\ Len(SubSeq(s, 1, n)) = n
      /\ C!Range(s) = C!Range(SubSeq(s, 1, n)) \union C!Range(SubSeq(s, n + 1, Len(s)))
      /\ C!IsInjective(s) =>
           /\ C!IsInjective(SubSeq(s, 1, n))
           /\ C!Range(SubSeq(s, 1, n)) \intersect C!Range(SubSeq(s, n + 1, Len(s))) = {}
  BY <1>1, SeqCut
<1>5. SubSeq(s, Len(s) - 1 + 1, Len(s)) = q
  BY <1>1
<1> HIDE DEF q
<1> QED  BY <1>1, <1>3, <1>4, <1>5 DEF C!Front, C!Last

(* One more at the end.                                                        *)
LEMMA SeqAppend ==
  ASSUME NEW S, NEW s \in Seq(S), NEW x \in S
  PROVE  /\ Append(s, x) \in Seq(S) /\ Len(Append(s, x)) = Len(s) + 1
         /\ C!Range(Append(s, x)) = C!Range(s) \union {x}
         /\ C!IsInjective(s) /\ x \notin C!Range(s) => C!IsInjective(Append(s, x))
<1>1. /\ Len(s) \in Nat /\ DOMAIN s = 1 .. Len(s)
      /\ Append(s, x) \in Seq(S) /\ Len(Append(s, x)) = Len(s) + 1
      /\ DOMAIN Append(s, x) = 1 .. Len(s) + 1 /\ Append(s, x)[Len(s) + 1] = x
      /\ \A n \in 1 .. Len(s) : Append(s, x)[n] = s[n]
  OBVIOUS
<1> DEFINE r == Append(s, x)
<1> HIDE DEF r
<1>2. \A n \in 1 .. Len(s) + 1 : n \in 1 .. Len(s) \/ n = Len(s) + 1
  BY <1>1
<1>3. C!Range(r) = C!Range(s) \union {x}
  <2>1. 1 .. Len(s) \subseteq 1 .. Len(s) + 1 /\ Len(s) + 1 \in 1 .. Len(s) + 1
    BY <1>1
  <2> QED  BY <1>1, <1>2, <2>1 DEF C!Range, r
<1>4. C!IsInjective(s) /\ x \notin C!Range(s) => C!IsInjective(r)
  BY <1>1, <1>2 DEF C!IsInjective, C!Range, r
<1> QED  BY <1>1, <1>3, <1>4 DEF r

LEMMA SeqEmpty == C!Range(<< >>) = {} /\ C!IsInjective(<< >>)
BY DEF C!Range, C!IsInjective

-------------------------------------------------------------------------------
(* The list of batches.                                                        *)
Batched(l) ==
  /\ \A n \in DOMAIN l : C!IsInjective(l[n])
  /\ \A m, n \in DOMAIN l : m # n => C!Range(l[m]) \intersect C!Range(l[n]) = {}
InAll(l) == UNION {C!Range(l[n]) : n \in DOMAIN l}

LEMMA ListPush ==
  ASSUME NEW l \in Seq(Seq(Nat)), NEW x \in Seq(Nat)
  PROVE  /\ InAll(<<x>> \o l) = InAll(l) \union C!Range(x)
         /\ Batched(l) /\ C!IsInjective(x) /\ C!Range(x) \intersect InAll(l) = {} => Batched(<<x>> \o l)
<1> DEFINE r == <<x>> \o l
<1>1. /\ Len(l) \in Nat /\ DOMAIN l = 1 .. Len(l) /\ DOMAIN r = 1 .. Len(l) + 1
      /\ r[1] = x /\ \A n \in 1 .. Len(l) : r[n + 1] = l[n]
  BY SeqCons, SeqBasics
<1> HIDE DEF r
<1>2. \A n \in 1 .. Len(l) + 1 : n = 1 \/ (n - 1 \in 1 .. Len(l) /\ r[n] = l[n - 1])
  BY <1>1
<1>3. 1 \in DOMAIN r /\ \A n \in 1 .. Len(l) : n + 1 \in DOMAIN r
  BY <1>1
<1>4. InAll(r) = InAll(l) \union C!Range(x)
  <2>1. InAll(r) \subseteq InAll(l) \union C!Range(x)
    BY <1>1, <1>2 DEF InAll
  <2>2. InAll(l) \subseteq InAll(r)
    BY <1>1, <1>3 DEF InAll
  <2>3. C!Range(x) \subseteq InAll(r)
    BY <1>1, <1>3 DEF InAll
  <2> QED  BY <2>1, <2>2, <2>3
<1>5. ASSUME Batched(l), C!IsInjective(x), C!Range(x) \intersect InAll(l) = {} PROVE Batched(r)
  <2>1. \A n \in DOMAIN r : C!IsInjective(r[n])
    BY <1>1, <1>2, <1>5 DEF Batched
  <2>2. \A n \in DOMAIN l : C!Range(x) \intersect C!Range(l[n]) = {}
    BY <1>5 DEF InAll
  <2>3. ASSUME NEW m \in DOMAIN r, NEW n \in DOMAIN r, m # n
        PROVE  C!Range(r[m]) \intersect C!Range(r[n]) = {}
    <3>1. CASE m = 1 /\ n # 1
      BY <1>1, <1>2, <2>2, <3>1
    <3>2. CASE n = 1 /\ m # 1
      BY <1>1, <1>2, <2>2, <3>2
    <3>3. CASE n # 1 /\ m # 1
      <4>1. m - 1 \in DOMAIN l /\ n - 1 \in DOMAIN l /\ r[m] = l[m - 1] /\ r[n] = l[n - 1] /\ m - 1 # n - 1
        <5>1. m \in 1 .. Len(l) + 1 /\ n \in 1 .. Len(l) + 1 /\ m # n /\ m # 1 /\ n # 1
          BY <1>1, <2>3, <3>3
        <5>2. m - 1 # n - 1
          BY <1>1, <5>1
        <5> QED  BY <1>1, <1>2, <5>1, <5>2
      <4> QED  BY <1>5, <4>1 DEF Batched
    <3> QED  BY <2>3, <3>1, <3>2, <3>3
  <2> QED  BY <2>1, <2>3 DEF Batched
<1> QED  BY <1>4, <1>5 DEF r

LEMMA ListPop ==
  ASSUME NEW l \in Seq(Seq(Nat)), l # << >>
  PROVE  /\ Head(l) \in Seq(Nat) /\ Tail(l) \in Seq(Seq(Nat))
         /\ InAll(l) = InAll(Tail(l)) \union C!Range(Head(l))
         /\ Batched(l) => /\ Batched(Tail(l)) /\ C!IsInjective(Head(l))
                          /\ C!Range(Head(l)) \intersect InAll(Tail(l)) = {}
<1>1. /\ Tail(l) \in Seq(Seq(Nat)) /\ Head(l) = l[1] /\ l[1] \in Seq(Nat)
      /\ Len(l) \in Nat \ {0} /\ DOMAIN l = 1 .. Len(l) /\ DOMAIN Tail(l) = 1 .. Len(l) - 1
      /\ \A n \in 1 .. Len(l) - 1 : Tail(l)[n] = l[n + 1]
  BY SeqTail, SeqBasics
<1> DEFINE r == Tail(l)
<1> HIDE DEF r
<1>2. \A n \in 1 .. Len(l) : n = 1 \/ (n - 1 \in 1 .. Len(l) - 1 /\ l[n] = r[n - 1])
  <2>1. \A n \in 1 .. Len(l) : n = 1 \/ (n - 1 \in 1 .. Len(l) - 1 /\ n - 1 + 1 = n)
    BY <1>1
  <2> QED  BY <1>1, <2>1 DEF r
<1>3. 1 \in DOMAIN l /\ \A n \in DOMAIN r : n + 1 \in DOMAIN l /\ n + 1 # 1 /\ r[n] = l[n + 1]
  BY <1>1 DEF r
<1>4. InAll(l) = InAll(r) \union C!Range(l[1])
  <2>1. InAll(l) \subseteq InAll(r) \union C!Range(l[1])
    BY <1>1, <1>2 DEF InAll, r
  <2>2. InAll(r) \subseteq InAll(l) /\ C!Range(l[1]) \subseteq InAll(l)
    BY <1>3 DEF InAll
  <2> QED  BY <2>1, <2>2
<1>5. ASSUME Batched(l)
      PROVE  Batched(r) /\ C!IsInjective(l[1]) /\ C!Range(l[1]) \intersect InAll(r) = {}
  <2>1. C!IsInjective(l[1]) /\ \A n \in DOMAIN r : C!IsInjective(r[n])
    BY <1>3, <1>5 DEF Batched
  <2>2. \A n \in DOMAIN r : C!Range(l[1]) \intersect C!Range(r[n]) = {}
    BY <1>3, <1>5 DEF Batched
  <2>3. \A m, n \in DOMAIN r : m # n => m + 1 # n + 1
    BY <1>1 DEF r
  <2>4. \A m, n \in DOMAIN r : m # n => C!Range(r[m]) \intersect C!Range(r[n]) = {}
    BY <1>3, <1>5, <2>3 DEF Batched
  <2> QED  BY <2>1, <2>2, <2>4 DEF Batched, InAll
<1> QED  BY <1>1, <1>4, <1>5 DEF r

-------------------------------------------------------------------------------
(* Rounding.                                                                   *)
LEMMA Rounding ==
  ASSUME NEW M \in Nat \ {0}, NEW a \in Nat
  PROVE  /\ a \div M \in Nat /\ (a \div M) * M \in Nat
         /\ (a \div M) * M <= a /\ a < (a \div M) * M + M
         /\ a < M => (a \div M) * M = 0
         /\ a >= M => ((a - M) \div M) * M = (a \div M) * M - M
<1>1. /\ a \div M \in Nat /\ (a \div M) * M \in Nat
      /\ (a \div M) * M <= a /\ a < (a \div M) * M + M
  OBVIOUS
<1>2. a < M => (a \div M) * M = 0
  OBVIOUS
<1>3. ASSUME a >= M PROVE ((a - M) \div M) * M = (a \div M) * M - M
  <2> DEFINE q == a \div M  r == a - q * M
  <2>1. q \in Nat /\ r \in 0 .. M - 1 /\ a = q * M + r
    BY <1>1
  <2> HIDE DEF q, r
  <2>2. q # 0
    BY <1>3, <2>1
  <2>3. q - 1 \in Nat /\ a - M = (q - 1) * M + r
    BY <2>1, <2>2
  <2>4. \A k \in Nat : (k * M + r) \div M = k
    BY <2>1
  <2>5. (a - M) \div M = q - 1
    BY <2>3, <2>4
  <2>6. (q - 1) * M = q * M - M
    BY <2>1
  <2> QED  BY <2>5, <2>6 DEF q
<1> QED  BY <1>1, <1>2, <1>3

LEMMA Growing ==
  ASSUME NEW m \in Nat, NEW s \in Nat \ {0}, NEW need \in Nat
  PROVE  C!GrowTo(m, s, need) \in Nat /\ C!GrowTo(m, s, need) >= m /\ C!GrowTo(m, s, need) >= need
<1>1. CASE need <= m
  BY <1>1 DEF C!GrowTo
<1>2. CASE ~(need <= m)
  <2> DEFINE a == need - m + s - 1  k == (a \div s) * s
  <2>1. a \in Nat /\ a - s + 1 = need - m
    BY <1>2
  <2>2. k \in Nat /\ a < k + s
    BY <2>1, Rounding
  <2>3. s * (a \div s) = k
    <3>1. a \div s \in Nat
      BY <2>1, Rounding
    <3> QED  BY <3>1
  <2>4. C!GrowTo(m, s, need) = m + k
    BY <1>2, <2>3 DEF C!GrowTo
  <2> HIDE DEF k
  <2> QED  BY <2>1, <2>2, <2>4
<1> QED  BY <1>1, <1>2

-------------------------------------------------------------------------------
(* LFStack (L), for any threads, nodes and counter.                            *)
LTyped ==
  /\ head \in [ptr : L!Pointers, cnt : 0 .. PushMod - 1]
  /\ next \in [Links -> L!Pointers] /\ own \in [Users -> SUBSET Links]
  /\ lfPc \in [Users -> {"out", "link", "push", "read", "pop"}]
  /\ item \in [Users -> L!Pointers] /\ nxt \in [Users -> L!Pointers]
  /\ lfCmp \in [Users -> [ptr : L!Pointers, cnt : 0 .. PushMod - 1]]
  /\ missed \in [Users -> 0 .. PushMod - 1] /\ stack \in Seq(Links)

(* Who pushes has the node, and has linked it to what it will compare with.    *)
LPushing ==
  \A t \in Users :
    /\ lfPc[t] \in {"link", "push"} => item[t] \in own[t]
    /\ lfPc[t] = "push" => next[item[t]] = lfCmp[t].ptr

(* The counter tells how many pushes a popping thread has missed.              *)
LCounter ==
  \A t \in Users : L!Popping(t) =>
    head.cnt \in {lfCmp[t].cnt + missed[t], lfCmp[t].cnt + missed[t] - PushMod}

(* If it has missed none, the node it has read is the first one or is out of   *)
(* the stack; and if it is the first one, the link is the one that was read.   *)
LFresh ==
  \A t \in Users : L!Popping(t) /\ missed[t] = 0 =>
    /\ lfCmp[t].ptr # head.ptr => \A n \in 1 .. Len(stack) : stack[n] # lfCmp[t].ptr
    /\ lfPc[t] = "pop" /\ lfCmp[t].ptr = head.ptr => nxt[t] = next[head.ptr]

LRead == \A t \in Users : lfPc[t] = "pop" => lfCmp[t].ptr \in Links

LInv ==
  /\ LTyped /\ LPushing /\ LCounter /\ LFresh /\ LRead
  /\ L!Linked /\ L!NodesOnce

LEMMA LAssumption == None \notin Links /\ PushMod \in Nat \ {0, 1}
BY PartsAssumption DEF L!LFStackAssumption

LEMMA LInitially == L!Init => LInv
<1> SUFFICES ASSUME L!Init PROVE LInv
  OBVIOUS
<1> USE LAssumption DEF L!Init, LInv
<1>1. LTyped
  BY DEF LTyped, L!Pointers
<1>2. L!Linked /\ L!NodesOnce
  BY DEF L!Linked, L!NodesOnce
<1> QED  BY <1>1, <1>2 DEF LPushing, LCounter, LFresh, LRead, L!Popping

(* A step that leaves the stack, its head and who has what alone, and writes   *)
(* at most to a node of the thread that takes it.                              *)
LEMMA LQuiet ==
  ASSUME LInv, LTyped', UNCHANGED <<head, own, stack>>,
         NEW t \in Users, NEW n \in Links,
         n \in own[t] \/ next' = next, \A k \in Links \ {n} : next'[k] = next[k]
  PROVE  L!Linked' /\ L!NodesOnce'
<1> USE DEF LInv, LTyped
<1>1. \A k \in 1 .. Len(stack) : stack[k] \in Links /\ next'[stack[k]] = next[stack[k]]
  BY SeqBasics DEF L!NodesOnce
<1>2. L!Linked'
  BY <1>1 DEF L!Linked
<1>3. L!NodesOnce'
  BY DEF L!NodesOnce
<1> QED  BY <1>2, <1>3

(* The first node of the stack is nobody's.                                    *)
LEMMA LFirst ==
  ASSUME LInv
  PROVE  /\ head.ptr = None <=> stack = << >>
         /\ head.ptr # None => /\ head.ptr \in Links /\ stack[1] = head.ptr /\ 1 \in 1 .. Len(stack)
                               /\ \A t \in Users : head.ptr \notin own[t]
         /\ \A k \in 1 .. Len(stack) : stack[k] \in Links
         /\ Len(stack) \in Nat
<1> USE LAssumption DEF LInv, LTyped
<1>1. \A k \in 1 .. Len(stack) : stack[k] \in Links
  BY SeqBasics
<1>2. Len(stack) \in Nat /\ (stack = << >> <=> Len(stack) = 0)
  BY SeqBasics
<1> QED  BY <1>1, <1>2 DEF L!Linked, L!NodesOnce, L!Pointers

LEMMA LUse ==
  ASSUME LInv, NEW t \in Users, NEW n \in Links, L!Use(t, n) PROVE LInv'
<1> USE LAssumption DEF LInv
<1>1. LTyped'
  BY DEF L!Use, LTyped
<1>2. L!Linked' /\ L!NodesOnce'
  BY <1>1, LQuiet DEF L!Use, LTyped
<1>3. LPushing'
  BY DEF L!Use, LTyped, LPushing, L!NodesOnce
<1>5. LCounter' /\ LRead'
  BY DEF L!Use, LCounter, LRead, L!Popping
<1>4. LFresh'
  <2>1. head.ptr # None => next'[head.ptr] = next[head.ptr]
    BY LFirst DEF L!Use, LTyped
  <2>2. \A u \in Users : lfPc[u] = "pop" => lfCmp[u].ptr # None
    BY DEF LRead
  <2> QED  BY <2>1, <2>2 DEF L!Use, LFresh, L!Popping
<1> QED  BY <1>1, <1>2, <1>3, <1>4, <1>5

LEMMA LPushLink ==
  ASSUME LInv, NEW t \in Users, L!PushLink(t) PROVE LInv'
<1> USE LAssumption DEF LInv
<1>0. item[t] \in Links /\ item[t] \in own[t]
  BY DEF L!PushLink, LPushing, LTyped
<1>1. LTyped'
  BY <1>0 DEF L!PushLink, L!Goto, LTyped
<1>2. L!Linked' /\ L!NodesOnce'
  BY <1>0, <1>1, LQuiet DEF L!PushLink, LTyped
<1>3. LPushing'
  BY <1>0 DEF L!PushLink, L!Goto, LTyped, LPushing, L!NodesOnce
<1>4. LCounter' /\ LRead'
  BY DEF L!PushLink, L!Goto, LTyped, LCounter, LRead, L!Popping
<1>5. LFresh'
  <2>1. head.ptr # None => next'[head.ptr] = next[head.ptr]
    BY <1>0, LFirst DEF L!PushLink, LTyped
  <2>2. \A u \in Users : lfPc[u] = "pop" => lfCmp[u].ptr # None
    BY DEF LRead
  <2> QED  BY <2>1, <2>2 DEF L!PushLink, L!Goto, LTyped, LFresh, L!Popping
<1> QED  BY <1>1, <1>2, <1>3, <1>4, <1>5

(* The steps that read.                                                        *)
LEMMA LReads ==
  ASSUME LInv, NEW t \in Users, NEW l \in {"link", "read"},
         L!Load(t), L!Goto(t, l), item' \in [Users -> L!Pointers],
         UNCHANGED <<head, next, own, nxt, stack>>,
         \A u \in Users \ {t} : item'[u] = item[u],
         l = "link" => item'[t] \in own[t]
  PROVE  LInv'
<1> USE LAssumption DEF LInv
<1>1. LTyped'
  <2>1. missed' \in [Users -> 0 .. PushMod - 1]
    BY DEF L!Load, LTyped
  <2>2. lfCmp' \in [Users -> [ptr : L!Pointers, cnt : 0 .. PushMod - 1]]
    <3>1. head \in [ptr : L!Pointers, cnt : 0 .. PushMod - 1]
      BY DEF LTyped
    <3> HIDE DEF LInv
    <3>2. lfCmp' = [lfCmp EXCEPT ![t] = head]
      BY DEF L!Load
    <3>3. lfCmp \in [Users -> [ptr : L!Pointers, cnt : 0 .. PushMod - 1]]
      BY DEF LInv, LTyped
    <3> QED  BY ONLY <3>1, <3>2, <3>3, Zenon
  <2> QED  BY <2>1, <2>2 DEF L!Goto, LTyped
<1>2. L!Linked' /\ L!NodesOnce'
  BY DEF L!Linked, L!NodesOnce
<1>3. LPushing' /\ LRead'
  BY DEF L!Load, L!Goto, LTyped, LPushing, LRead
<1>4. LCounter' /\ LFresh'
  BY DEF L!Load, L!Goto, LTyped, LCounter, LFresh, L!Popping
<1> QED  BY <1>1, <1>2, <1>3, <1>4

LEMMA LPopRead ==
  ASSUME LInv, NEW t \in Users, L!PopRead(t) PROVE LInv'
<1> USE LAssumption DEF LInv
<1>1. CASE lfCmp[t].ptr = None
  <2>1. lfPc' = [lfPc EXCEPT ![t] = "out"] /\ lfPc[t] = "read"
        /\ UNCHANGED <<head, next, own, item, lfCmp, missed, stack, nxt>>
    BY <1>1 DEF L!PopRead, L!Goto
  <2>2. LTyped' /\ LPushing' /\ LRead'
    BY <2>1 DEF LTyped, LPushing, LRead
  <2>3. LCounter' /\ LFresh'
    <3>1. \A u \in Users : L!Popping(u)' => L!Popping(u) /\ lfPc'[u] = lfPc[u]
      BY <2>1 DEF LTyped, L!Popping
    <3> QED  BY <2>1, <3>1 DEF LCounter, LFresh
  <2> QED  BY <2>1, <2>2, <2>3 DEF L!Linked, L!NodesOnce
<1>2. CASE lfCmp[t].ptr # None
  <2>0. /\ lfPc' = [lfPc EXCEPT ![t] = "pop"] /\ lfPc[t] = "read"
        /\ nxt' = [nxt EXCEPT ![t] = next[lfCmp[t].ptr]]
        /\ UNCHANGED <<head, next, own, item, lfCmp, missed, stack>>
    BY <1>2 DEF L!PopRead, L!Goto
  <2>4. lfCmp[t].ptr \in Links /\ next[lfCmp[t].ptr] \in L!Pointers
    BY <1>2 DEF LTyped, L!Pointers
  <2>1. LTyped'
    BY <2>0, <2>4 DEF LTyped
  <2>2. LPushing' /\ LRead'
    BY <2>0, <2>4 DEF LTyped, LPushing, LRead
  <2>5. \A u \in Users : L!Popping(u)' => L!Popping(u)
    BY <2>0 DEF LTyped, L!Popping
  <2>6. \A u \in Users \ {t} : lfPc'[u] = lfPc[u] /\ nxt'[u] = nxt[u]
    BY <2>0 DEF LTyped
  <2>7. nxt'[t] = next[lfCmp[t].ptr]
    BY <2>0 DEF LTyped
  <2>3. LCounter' /\ LFresh'
    BY <2>0, <2>5, <2>6, <2>7 DEF LCounter, LFresh
  <2> QED  BY <2>0, <2>1, <2>2, <2>3 DEF L!Linked, L!NodesOnce
<1> QED  BY <1>1, <1>2

LEMMA LPush ==
  ASSUME LInv, NEW t \in Users, L!PushSwap(t), head = lfCmp[t], L!Pushed(t), L!CountPush,
         head' = [ptr |-> item[t], cnt |-> IF lfCmp[t].cnt = PushMod - 1 THEN 0 ELSE lfCmp[t].cnt + 1],
         UNCHANGED lfCmp
  PROVE  LInv' /\ item[t] \in own[t]
<1> USE LAssumption DEF LInv
<1>0. /\ lfPc[t] = "push" /\ L!NoWrap /\ item[t] \in Links /\ item[t] \in own[t]
      /\ next[item[t]] = head.ptr /\ next' = next
      /\ own' = [own EXCEPT ![t] = @ \ {item[t]}]
  BY DEF L!PushSwap, L!Pushed, LPushing, LTyped
<1>1. LTyped'
  <2>1. stack' \in Seq(Links)
    BY <1>0, SeqCons DEF L!Pushed, LTyped
  <2>2. missed' \in [Users -> 0 .. PushMod - 1]
    BY <1>0 DEF L!CountPush, LTyped, L!NoWrap, L!Popping
  <2>3. head' \in [ptr : L!Pointers, cnt : 0 .. PushMod - 1]
    BY <1>0 DEF LTyped, L!Pointers
  <2> QED  BY <2>1, <2>2, <2>3 DEF L!Pushed, L!Goto, LTyped
<1>2. /\ Len(stack') = Len(stack) + 1 /\ stack'[1] = item[t] /\ stack' # << >>
      /\ \A n \in 2 .. Len(stack) + 1 : stack'[n] = stack[n - 1]
      /\ Len(stack) \in Nat
  BY <1>0, SeqCons, SeqBasics DEF L!Pushed, LTyped
<1>3. L!NodesOnce'
  <2>1. \A k \in 1 .. Len(stack) : stack[k] \notin own[t] /\ stack[k] # item[t]
    BY <1>0 DEF L!NodesOnce
  <2>2. \A k, j \in 1 .. Len(stack') : stack'[k] = stack'[j] => k = j
    BY <1>2, <2>1 DEF L!NodesOnce
  <2>3. \A u \in Users, k \in 1 .. Len(stack') : stack'[k] \notin own'[u]
    <3> SUFFICES ASSUME NEW u \in Users, NEW k \in 1 .. Len(stack') PROVE stack'[k] \notin own'[u]
      OBVIOUS
    <3>1. own'[u] \subseteq own[u] /\ (u = t => item[t] \notin own'[u])
      BY <1>0 DEF LTyped
    <3>2. CASE k = 1
      BY <1>0, <1>2, <3>1, <3>2 DEF L!NodesOnce
    <3>3. CASE k # 1
      <4>1. k - 1 \in 1 .. Len(stack) /\ stack'[k] = stack[k - 1]
        BY <1>2, <3>3
      <4> QED  BY <3>1, <4>1 DEF L!NodesOnce
    <3> QED  BY <3>2, <3>3
  <2>4. \A u, v \in Users : u # v => own'[u] \intersect own'[v] = {}
    BY <1>0 DEF L!NodesOnce, LTyped
  <2> QED  BY <2>2, <2>3, <2>4 DEF L!NodesOnce
<1>4. L!Linked'
  <2>1. head'.ptr = item[t]
    OBVIOUS
  <2>2. next'[item[t]] = IF stack = << >> THEN None ELSE stack[1]
    BY <1>0 DEF L!Linked
  <2>3. stack = << >> <=> Len(stack) = 0
    BY SeqBasics DEF LTyped
  <2>4. ASSUME NEW k \in 1 .. Len(stack')
        PROVE  next'[stack'[k]] = IF k = Len(stack') THEN None ELSE stack'[k + 1]
    <3>1. CASE k = 1
      BY <1>2, <2>2, <2>3, <3>1
    <3>2. CASE k # 1
      <4>1. k - 1 \in 1 .. Len(stack) /\ stack'[k] = stack[k - 1]
        BY <1>2, <3>2
      <4>2. next[stack[k - 1]] = IF k - 1 = Len(stack) THEN None ELSE stack[k - 1 + 1]
        BY <4>1 DEF L!Linked
      <4> QED  BY <1>0, <1>2, <3>2, <4>1, <4>2
    <3> QED  BY <3>1, <3>2
  <2> QED  BY <1>2, <2>1, <2>4 DEF L!Linked
<1>5. LPushing' /\ LRead'
  BY <1>0 DEF L!Pushed, L!Goto, LTyped, LPushing, LRead
<1>6. \A u \in Users : L!Popping(u)' => L!Popping(u) /\ missed'[u] = missed[u] + 1 /\ missed[u] < PushMod - 1
  BY <1>0 DEF L!Pushed, L!Goto, LTyped, L!Popping, L!CountPush, L!NoWrap
<1>7. LCounter'
  <2>1. head.cnt \in 0 .. PushMod - 1
        /\ head'.cnt = IF head.cnt = PushMod - 1 THEN 0 ELSE head.cnt + 1
    BY DEF LTyped
  <2> SUFFICES ASSUME NEW u \in Users, L!Popping(u)'
               PROVE  head'.cnt \in {lfCmp'[u].cnt + missed'[u], lfCmp'[u].cnt + missed'[u] - PushMod}
    BY DEF LCounter
  <2>2. /\ lfCmp[u].cnt \in 0 .. PushMod - 1 /\ missed[u] \in 0 .. PushMod - 1
        /\ head.cnt \in {lfCmp[u].cnt + missed[u], lfCmp[u].cnt + missed[u] - PushMod}
    BY <1>6 DEF LCounter, LTyped
  <2> QED  BY <1>6, <2>1, <2>2
<1>8. LFresh'
  BY <1>6 DEF LFresh, LTyped
<1> QED  BY <1>0, <1>1, <1>3, <1>4, <1>5, <1>7, <1>8

(* A swap that succeeds has missed no push, so the node it takes is the first  *)
(* and the link it puts in its place leads to the second.                      *)
LEMMA LPop ==
  ASSUME LInv, NEW t \in Users, lfPc[t] = "pop", head = lfCmp[t],
         head' = [ptr |-> nxt[t], cnt |-> lfCmp[t].cnt], L!Popped(t)
  PROVE  LInv' /\ stack # << >> /\ head.ptr = Head(stack)
<1> USE LAssumption DEF LInv
<1>0. /\ missed[t] = 0 /\ head.ptr \in Links
  <2>1. /\ head.cnt \in 0 .. PushMod - 1 /\ missed[t] \in 0 .. PushMod - 1
        /\ head.cnt \in {head.cnt + missed[t], head.cnt + missed[t] - PushMod}
    BY DEF LCounter, L!Popping, LTyped
  <2> QED  BY <2>1 DEF LRead
<1>1. /\ nxt[t] = next[head.ptr] /\ stack # << >> /\ stack[1] = head.ptr /\ Len(stack) \in Nat \ {0}
      /\ \A k \in 1 .. Len(stack) : stack[k] \in Links
  BY <1>0, LFirst DEF LFresh, L!Popping
<1>2. /\ stack' = Tail(stack) /\ stack' \in Seq(Links) /\ Head(stack) = stack[1]
      /\ Len(stack') = Len(stack) - 1
      /\ \A n \in 1 .. Len(stack) - 1 : stack'[n] = stack[n + 1]
  BY <1>1, SeqTail DEF L!Popped, LTyped
<1>3. own' = [own EXCEPT ![t] = @ \union {head.ptr}] /\ UNCHANGED <<next, item, lfCmp, nxt, missed>>
  BY DEF L!Popped
<1>4. LTyped'
  BY <1>0, <1>2, <1>3 DEF L!Popped, L!Goto, LTyped
<1>5. L!NodesOnce'
  <2>1. \A k, j \in 1 .. Len(stack') : stack'[k] = stack'[j] => k = j
    BY <1>1, <1>2 DEF L!NodesOnce
  <2>2. \A k \in 1 .. Len(stack') : stack'[k] # head.ptr
    BY <1>1, <1>2 DEF L!NodesOnce
  <2>3. \A u \in Users, k \in 1 .. Len(stack') : stack'[k] \notin own'[u]
    BY <1>1, <1>2, <1>3, <2>2 DEF L!NodesOnce, LTyped
  <2>4. \A u \in Users : head.ptr \notin own[u]
    BY <1>1 DEF L!NodesOnce
  <2>5. \A u, v \in Users : u # v => own'[u] \intersect own'[v] = {}
    BY <1>3, <2>4 DEF L!NodesOnce, LTyped
  <2> QED  BY <2>1, <2>3, <2>5 DEF L!NodesOnce
<1>6. L!Linked'
  <2>1. stack' = << >> <=> Len(stack) = 1
    <3>1. stack' = << >> <=> Len(stack') = 0
      BY <1>2, SeqBasics
    <3> QED  BY <1>1, <1>2, <3>1
  <2>2. head'.ptr = IF Len(stack) = 1 THEN None ELSE stack[2]
    <3>1. 1 \in 1 .. Len(stack)
      BY <1>1
    <3>2. next[stack[1]] = IF 1 = Len(stack) THEN None ELSE stack[1 + 1]
      BY <3>1 DEF L!Linked
    <3> QED  BY <1>1, <3>2
  <2>3. head'.ptr = IF stack' = << >> THEN None ELSE stack'[1]
    BY <1>1, <1>2, <2>1, <2>2
  <2>4. ASSUME NEW k \in 1 .. Len(stack')
        PROVE  next'[stack'[k]] = IF k = Len(stack') THEN None ELSE stack'[k + 1]
    <3>1. k + 1 \in 1 .. Len(stack) /\ stack'[k] = stack[k + 1]
      BY <1>1, <1>2
    <3>2. next[stack[k + 1]] = IF k + 1 = Len(stack) THEN None ELSE stack[k + 1 + 1]
      BY <3>1 DEF L!Linked
    <3>3. k \in Nat \ {0} /\ (k = Len(stack') <=> k + 1 = Len(stack))
      BY <1>1, <1>2
    <3>4. k # Len(stack') => stack'[k + 1] = stack[k + 1 + 1]
      <4>1. k # Len(stack') => k + 1 \in 1 .. Len(stack) - 1
        <5>1. Len(stack') = Len(stack) - 1 /\ Len(stack) \in Nat \ {0}
          BY <1>1, <1>2
        <5> HIDE DEF LInv
        <5> QED  BY <5>1
      <4> QED  BY <1>2, <4>1
    <3> QED  BY <1>3, <3>1, <3>2, <3>3, <3>4
  <2>5. head'.ptr = IF stack' = << >> THEN None ELSE stack'[1]
    BY <2>3
  <2> QED  BY <2>4, <2>5 DEF L!Linked
<1>7. LPushing'
  BY <1>3 DEF L!Popped, L!Goto, LTyped, LPushing
<1>8. LRead' /\ LCounter'
  BY <1>3 DEF L!Popped, L!Goto, LTyped, LRead, LCounter, L!Popping
<1>10. head'.ptr = None \/ \E n \in 1 .. Len(stack') : stack'[n] = head'.ptr
  <2>1. stack' # << >> => 1 \in 1 .. Len(stack')
    BY <1>2, SeqBasics
  <2> QED  BY <1>6, <2>1 DEF L!Linked
<1>9. LFresh'
  <2> SUFFICES ASSUME NEW u \in Users, L!Popping(u)', missed'[u] = 0
               PROVE  /\ lfCmp[u].ptr # head'.ptr => \A n \in 1 .. Len(stack') : stack'[n] # lfCmp[u].ptr
                      /\ lfCmp[u].ptr # head'.ptr \/ lfPc'[u] # "pop"
    BY <1>3 DEF LFresh
  <2>1. L!Popping(u) /\ missed[u] = 0 /\ lfPc'[u] = lfPc[u]
    BY <1>3 DEF L!Popped, L!Goto, LTyped, L!Popping
  <2>2. CASE lfCmp[u].ptr = head.ptr
    <3>1. \A n \in 1 .. Len(stack') : stack'[n] # head.ptr
      BY <1>1, <1>2 DEF L!NodesOnce
    <3>2. head'.ptr = None \/ \E n \in 1 .. Len(stack') : stack'[n] = head'.ptr
      BY <1>10
    <3> QED  BY <1>0, <2>2, <3>1, <3>2
  <2>3. CASE lfCmp[u].ptr # head.ptr
    <3>1. \A n \in 1 .. Len(stack) : stack[n] # lfCmp[u].ptr
      BY <2>1, <2>3 DEF LFresh
    <3>2. \A n \in 1 .. Len(stack') : stack'[n] # lfCmp[u].ptr
      BY <1>1, <1>2, <3>1
    <3>3. head'.ptr = None \/ \E n \in 1 .. Len(stack) : stack[n] = head'.ptr
      BY <1>1, <1>2, <1>10
    <3>4. lfPc[u] = "pop" => lfCmp[u].ptr # None
      BY DEF LRead
    <3> QED  BY <2>1, <3>1, <3>2, <3>3, <3>4
  <2> QED  BY <2>2, <2>3
<1> QED  BY <1>1, <1>2, <1>4, <1>5, <1>6, <1>7, <1>8, <1>9

(* Each step keeps the invariant, and is a push, a pop or neither.             *)
LEMMA LStep ==
  ASSUME LInv, [L!Next]_(L!vars)
  PROVE  LInv' /\ [L!Atomic!Next]_(<<stack, own>>)
<1>1. CASE UNCHANGED L!vars
  BY <1>1 DEF L!vars, LInv, LTyped, LPushing, LCounter, LFresh, LRead, L!Popping, L!Linked, L!NodesOnce
<1>2. ASSUME NEW t \in Users, NEW n \in Links, L!Use(t, n) \/ L!PushBegin(t, n) PROVE LInv' /\ UNCHANGED <<stack, own>>
  <2>1. CASE L!Use(t, n)
    BY <2>1, LUse DEF L!Use
  <2>2. CASE L!PushBegin(t, n)
    BY <2>2, LReads DEF L!PushBegin, LInv, LTyped, L!Pointers
  <2> QED  BY <1>2, <2>1, <2>2
<1>3. ASSUME NEW t \in Users, L!PushLink(t) \/ L!PopBegin(t) \/ L!PopRead(t) PROVE LInv' /\ UNCHANGED <<stack, own>>
  <2>1. CASE L!PushLink(t)
    BY <2>1, LPushLink DEF L!PushLink
  <2>2. CASE L!PopBegin(t)
    BY <2>2, LReads DEF L!PopBegin, LInv, LTyped
  <2>3. CASE L!PopRead(t)
    BY <2>3, LPopRead DEF L!PopRead
  <2> QED  BY <1>3, <2>1, <2>2, <2>3
<1>4. ASSUME NEW t \in Users, L!PushSwap(t) 
      PROVE  LInv' /\ ((L!Atomic!Push(t, item[t]) /\ item[t] \in Links) \/ UNCHANGED <<stack, own>>)
  <2>1. CASE L!Load(t) /\ L!Goto(t, "link") /\ UNCHANGED <<head, next, own, item, nxt, stack>>
    BY <1>4, <2>1, LReads DEF L!PushSwap, LInv, LTyped, LPushing
  <2>2. CASE ~(L!Load(t) /\ L!Goto(t, "link") /\ UNCHANGED <<head, next, own, item, nxt, stack>>)
    <3>1. LInv' /\ item[t] \in own[t]
      BY <1>4, <2>2, LPush DEF L!PushSwap
    <3> QED  BY <1>4, <2>2, <3>1 DEF L!PushSwap, L!Pushed, L!Atomic!Push, LInv, LTyped
  <2> QED  BY <2>1, <2>2
<1>5. ASSUME NEW t \in Users, L!PopSwap(t) PROVE LInv' /\ (L!Atomic!Pop(t) \/ UNCHANGED <<stack, own>>)
  <2>1. CASE L!Load(t) /\ L!Goto(t, "read") /\ UNCHANGED <<head, next, own, item, nxt, stack>>
    BY <2>1, LReads DEF LInv, LTyped
  <2>2. CASE head = lfCmp[t] /\ head' = [ptr |-> nxt[t], cnt |-> lfCmp[t].cnt] /\ L!Popped(t)
    BY <1>5, <2>2, LPop DEF L!PopSwap, L!Popped, L!Atomic!Pop
  <2> QED  BY <1>5, <2>1, <2>2 DEF L!PopSwap
<1> QED  BY <1>1, <1>2, <1>3, <1>4, <1>5 DEF L!Next, L!Step, L!Atomic!Next

(* The lock-free stack implements the atomic one.                              *)
THEOREM StackIsAtomic == L!Spec => L!ImplementsAtomicStack /\ [](L!Linked /\ L!NodesOnce)
<1>1. L!Init => L!Atomic!Init
  BY DEF L!Init, L!Atomic!Init
<1>2. LInv => L!Linked /\ L!NodesOnce
  BY DEF LInv
<1> QED  BY <1>1, <1>2, LInitially, LStep, PTL DEF L!Spec, L!ImplementsAtomicStack, L!Atomic!Spec

-------------------------------------------------------------------------------
(* SizeClassAllocator (C), for any threads and sizes.                          *)
CTyped ==
  /\ free_list \in Seq(Seq(Nat)) /\ user \in SUBSET Nat
  /\ cache \in [Users -> Seq(Nat)] /\ batch \in [Users -> Seq(Nat)]
  /\ scPc \in [Users -> {"out", "populate", "map", "slice", "take", "drain"}]
  /\ mapped_user \in Nat /\ allocated_user \in Nat
  /\ mapped_meta \in Nat /\ allocated_meta \in Nat /\ scDied \in BOOLEAN

(* Who refills its cache has nothing in it, and a batch only when it is done.  *)
CRefill ==
  \A t \in Users :
    /\ scPc[t] \in {"populate", "map", "slice", "take"} => cache[t] = << >>
    /\ IF scPc[t] = "take" THEN batch[t] # << >> ELSE batch[t] = << >>

(* One thread populates the list.                                              *)
COne == \A t \in Users : scPc[t] \in {"map", "slice"} => mutex = t

(* Between two rounds there is metadata for each chunk, and while one slices   *)
(* for as many more as it will slice.                                          *)
CAhead ==
  /\ (\A t \in Users : scPc[t] # "slice") => allocated_meta = allocated_user
  /\ (\E t \in Users : scPc[t] = "slice") =>
       /\ allocated_user + MaxCached + 1 <= mapped_user
       /\ allocated_meta =
            allocated_user + ((mapped_user - allocated_user - 1) \div MaxCached) * MaxCached

CMemory ==
  ~scDied => /\ CAhead
             /\ allocated_user <= mapped_user /\ allocated_meta <= mapped_meta
             /\ mapped_user + mapped_meta <= ClassSize

CInv == CTyped /\ CRefill /\ COne /\ CMemory /\ C!BatchesFit /\ C!ChunksOnce

LEMMA CAssumption ==
  /\ None \notin Users /\ ClassSize \in Nat
  /\ MaxCached \in Nat \ {0} /\ UserMapSize \in Nat \ {0} /\ MetaMapSize \in Nat \ {0}
BY PartsAssumption DEF C!ClassAssumption

LEMMA CInitially == C!Init => CInv
<1> SUFFICES ASSUME C!Init PROVE CInv
  OBVIOUS
<1> USE CAssumption DEF C!Init
<1>1. CTyped /\ CRefill /\ COne /\ CMemory
  <2>1. CTyped
    <3>1. free_list \in Seq(Seq(Nat)) /\ \A t \in Users : cache[t] \in Seq(Nat) /\ batch[t] \in Seq(Nat)
      OBVIOUS
    <3>2. cache \in [Users -> Seq(Nat)] /\ batch \in [Users -> Seq(Nat)]
      BY <3>1
    <3> QED  BY <3>1, <3>2 DEF CTyped
  <2>2. CRefill /\ COne
    BY DEF CRefill, COne
  <2>3. CMemory
    BY DEF CMemory, CAhead
  <2> QED  BY <2>1, <2>2, <2>3
<1>2. C!BatchesFit
  BY DEF C!BatchesFit, C!max_count
<1>3. \A t \in Users : C!With(t) = {}
  BY SeqEmpty DEF C!With
<1>4. C!InList = {}
  BY DEF C!InList
<1>5. 0 .. allocated_user - 1 = {}
  OBVIOUS
<1>6. C!ChunksOnce
  BY <1>3, <1>4, <1>5, SeqEmpty DEF C!ChunksOnce
<1> QED  BY <1>1, <1>2, <1>6 DEF CInv

(* A step of t that moves chunks between users, the list and what t has, and   *)
(* may add new ones.                                                           *)
LEMMA CMoves ==
  ASSUME CInv, NEW t \in Users,
         \A u \in Users \ {t} : cache'[u] = cache[u] /\ batch'[u] = batch[u],
         Batched(free_list'), C!IsInjective(cache'[t]), C!IsInjective(batch'[t]),
         C!Range(cache'[t]) \intersect C!Range(batch'[t]) = {},
         C!With(t)' \intersect user' = {}, C!With(t)' \intersect InAll(free_list') = {},
         user' \intersect InAll(free_list') = {},
         allocated_user' \in Nat, allocated_user <= allocated_user',
         user' \union InAll(free_list') \union C!With(t)'
           = user \union InAll(free_list) \union C!With(t)
               \union (allocated_user .. allocated_user' - 1)
  PROVE  C!ChunksOnce'
<1> DEFINE new == allocated_user .. allocated_user' - 1
           rest == UNION {C!With(u) : u \in Users \ {t}}
<1>0. allocated_user \in Nat /\ C!ChunksOnce
  BY DEF CInv, CTyped
<1>1. C!InList = InAll(free_list) /\ C!InList' = InAll(free_list')
  BY DEF C!InList, InAll
<1>2. \A u \in Users \ {t} : C!With(u)' = C!With(u)
  BY DEF C!With
<1>3. 0 .. allocated_user' - 1 = (0 .. allocated_user - 1) \union new
  BY <1>0
<1>4. \A c \in 0 .. allocated_user - 1 : c \notin new
  <2> SUFFICES ASSUME NEW c \in 0 .. allocated_user - 1, c \in new PROVE FALSE
    OBVIOUS
  <2> QED  BY <1>0
<1>5. UNION {C!With(u) : u \in Users} = rest \union C!With(t)
  OBVIOUS
<1>6. UNION {C!With(u)' : u \in Users} = rest \union C!With(t)'
  BY <1>2
<1>7. user \union InAll(free_list) \union rest \union C!With(t) = 0 .. allocated_user - 1
  BY <1>0, <1>1, <1>5 DEF C!ChunksOnce
<1>8. rest \intersect (user \union InAll(free_list) \union C!With(t)) = {}
  BY <1>0, <1>1 DEF C!ChunksOnce
<1> HIDE DEF rest, new
<1>9. rest \intersect (user' \union InAll(free_list') \union C!With(t)') = {}
  BY <1>4, <1>7, <1>8 DEF new
<1>10. user' \union InAll(free_list') \union (rest \union C!With(t)') = 0 .. allocated_user' - 1
  BY <1>3, <1>7 DEF new
<1>11. \A u \in Users \ {t} : C!With(u) \subseteq rest
  BY DEF rest
<1>12. \A u, v \in Users : u # v => C!With(u)' \intersect C!With(v)' = {}
  BY <1>0, <1>2, <1>9, <1>11 DEF C!ChunksOnce
<1>13. \A u \in Users : C!With(u)' \intersect (user' \union InAll(free_list')) = {}
  BY <1>2, <1>9, <1>11
<1>14. \A u \in Users : /\ C!IsInjective(cache'[u]) /\ C!IsInjective(batch'[u])
                        /\ C!Range(cache'[u]) \intersect C!Range(batch'[u]) = {}
  BY <1>0 DEF C!ChunksOnce
<1> QED  BY <1>1, <1>6, <1>10, <1>12, <1>13, <1>14 DEF C!ChunksOnce, Batched

(* What the invariant says of the thread that takes a step.                    *)
LEMMA CHas ==
  ASSUME CInv, NEW t \in Users
  PROVE  /\ Batched(free_list) /\ free_list \in Seq(Seq(Nat)) /\ user \in SUBSET Nat
         /\ cache[t] \in Seq(Nat) /\ batch[t] \in Seq(Nat)
         /\ C!IsInjective(cache[t]) /\ C!IsInjective(batch[t])
         /\ C!Range(cache[t]) \intersect C!Range(batch[t]) = {}
         /\ C!With(t) = C!Range(cache[t]) \union C!Range(batch[t])
         /\ C!With(t) \intersect user = {} /\ C!With(t) \intersect InAll(free_list) = {}
         /\ user \intersect InAll(free_list) = {}
         /\ allocated_user \in Nat /\ allocated_user .. allocated_user - 1 = {}
         /\ user \union InAll(free_list) \union C!With(t) \subseteq 0 .. allocated_user - 1
<1>1. C!InList = InAll(free_list)
  BY DEF C!InList, InAll
<1>2. user \union InAll(free_list) \union C!With(t) \subseteq 0 .. allocated_user - 1
  BY <1>1 DEF CInv, C!ChunksOnce
<1>3. allocated_user \in Nat /\ allocated_user .. allocated_user - 1 = {}
  BY DEF CInv, CTyped
<1> QED  BY <1>1, <1>2, <1>3 DEF CInv, CTyped, C!ChunksOnce, Batched, C!With

LEMMA CAllocate ==
  ASSUME CInv, NEW t \in Users, C!Allocate(t) PROVE CInv'
<1> USE CAssumption
<1>0. /\ scPc[t] = "out" /\ cache[t] # << >> /\ user' = user \union {C!Last(cache[t])}
      /\ cache' = [cache EXCEPT ![t] = C!Front(cache[t])]
      /\ UNCHANGED <<free_list, scPc, batch, mutex, C!region>>
  BY DEF C!Allocate
<1>1. CTyped /\ CRefill /\ COne /\ CMemory /\ C!BatchesFit
  BY DEF CInv
<1>2. /\ cache[t] \in Seq(Nat) /\ C!Front(cache[t]) \in Seq(Nat) /\ C!Last(cache[t]) \in Nat
      /\ Len(C!Front(cache[t])) = Len(cache[t]) - 1 /\ Len(cache[t]) \in Nat
  <2>1. cache[t] \in Seq(Nat)
    BY <1>1 DEF CTyped
  <2> QED  BY <1>0, <2>1, SeqFront
<1>3. CTyped'
  BY <1>0, <1>1, <1>2 DEF CTyped, C!region
<1>4. CRefill' /\ COne' /\ CMemory'
  BY <1>0, <1>1 DEF CTyped, CRefill, COne, CMemory, CAhead, C!region
<1>5. C!BatchesFit'
  BY <1>0, <1>1, <1>2 DEF C!BatchesFit, C!max_count, CTyped
<1>6. cache'[t] = C!Front(cache[t]) /\ \A u \in Users \ {t} : cache'[u] = cache[u]
  BY <1>0, <1>1 DEF CTyped
<1>7. /\ C!IsInjective(cache'[t]) /\ C!Last(cache[t]) \notin C!Range(cache'[t])
      /\ C!Range(cache[t]) = C!Range(cache'[t]) \union {C!Last(cache[t])}
  BY <1>0, <1>2, <1>6, CHas, SeqFront
<1>8. C!With(t)' = C!Range(cache'[t]) \union C!Range(batch[t])
  BY <1>0 DEF C!With
<1>9. C!ChunksOnce'
  <2> DEFINE x == C!Last(cache[t])  W == C!Range(cache'[t])  B == C!Range(batch[t])
  <2>1. /\ batch' = batch /\ free_list' = free_list /\ user' = user \union {x}
        /\ allocated_user' = allocated_user /\ allocated_user \in Nat
        /\ C!With(t)' = W \union B /\ C!With(t) = W \union {x} \union B /\ x \notin W
        /\ C!IsInjective(cache'[t])
    BY <1>0, <1>7, <1>8, CHas DEF C!region
  <2>2. /\ Batched(free_list) /\ C!IsInjective(batch[t]) /\ (W \union {x}) \intersect B = {}
        /\ C!With(t) \intersect user = {} /\ C!With(t) \intersect InAll(free_list) = {}
        /\ user \intersect InAll(free_list) = {} /\ allocated_user .. allocated_user - 1 = {}
    BY <1>7, CHas
  <2> HIDE DEF x, W, B
  <2>3. /\ C!With(t)' \intersect user' = {} /\ C!With(t)' \intersect InAll(free_list') = {}
        /\ user' \intersect InAll(free_list') = {} /\ W \intersect B = {}
        /\ user' \union InAll(free_list') \union C!With(t)'
             = user \union InAll(free_list) \union C!With(t)
                 \union (allocated_user .. allocated_user' - 1)
    BY <2>1, <2>2
  <2> QED  BY <1>6, <2>1, <2>2, <2>3, CMoves DEF W, B
<1> QED  BY <1>3, <1>4, <1>5, <1>9 DEF CInv

LEMMA CPop ==
  ASSUME CInv, NEW t \in Users, C!Pop(t, "take"), scPc[t] \in {"out", "populate"},
         cache[t] = << >>, UNCHANGED <<cache, user, mutex, C!region>>
  PROVE  CInv'
<1> USE CAssumption
<1>0. /\ free_list # << >> /\ free_list' = Tail(free_list)
      /\ batch' = [batch EXCEPT ![t] = Head(free_list)]
      /\ scPc' = [scPc EXCEPT ![t] = "take"]
  BY DEF C!Pop, C!Goto
<1>1. CTyped /\ CRefill /\ COne /\ CMemory /\ C!BatchesFit
  BY DEF CInv
<1>2. /\ Head(free_list) \in Seq(Nat) /\ Tail(free_list) \in Seq(Seq(Nat))
      /\ InAll(free_list) = InAll(free_list') \union C!Range(Head(free_list))
      /\ Batched(free_list') /\ C!IsInjective(Head(free_list))
      /\ C!Range(Head(free_list)) \intersect InAll(free_list') = {}
  BY <1>0, CHas, ListPop
<1>3. CTyped'
  BY <1>0, <1>1, <1>2 DEF CTyped, C!region
<1>4. /\ Len(Head(free_list)) \in 1 .. MaxCached
      /\ \A n \in DOMAIN free_list' : Len(free_list'[n]) \in 1 .. MaxCached
  <2>1. /\ DOMAIN free_list' = 1 .. Len(free_list) - 1 /\ DOMAIN free_list = 1 .. Len(free_list)
        /\ Len(free_list) \in Nat \ {0} /\ Head(free_list) = free_list[1]
        /\ \A n \in 1 .. Len(free_list) - 1 : free_list'[n] = free_list[n + 1]
    BY <1>0, <1>1, <1>2, SeqTail, SeqBasics DEF CTyped
  <2>2. 1 \in DOMAIN free_list /\ \A n \in DOMAIN free_list' : n + 1 \in DOMAIN free_list
    BY <2>1
  <2> QED  BY <1>1, <2>1, <2>2 DEF C!BatchesFit
<1>5. Head(free_list) # << >> /\ Len(Head(free_list)) <= MaxCached
  BY <1>2, <1>4, SeqBasics
<1>6. CRefill' /\ COne'
  BY <1>0, <1>1, <1>5 DEF CTyped, CRefill, COne
<1>7. CMemory'
  <2>1. \A u \in Users : scPc'[u] = "slice" <=> scPc[u] = "slice"
    BY <1>0, <1>1 DEF CTyped
  <2> QED  BY <1>1, <2>1 DEF CMemory, CAhead, C!region
<1>8. C!BatchesFit'
  BY <1>0, <1>1, <1>4, <1>5 DEF C!BatchesFit, C!max_count, CTyped
<1>9. batch[t] = << >> /\ batch'[t] = Head(free_list) /\ \A u \in Users \ {t} : batch'[u] = batch[u]
  BY <1>0, <1>1 DEF CTyped, CRefill
<1>10. C!With(t) = {} /\ C!With(t)' = C!Range(Head(free_list)) /\ C!Range(cache[t]) = {}
  BY <1>9, SeqEmpty DEF C!With
<1>11. C!ChunksOnce'
  <2>1. /\ cache' = cache /\ user' = user /\ allocated_user' = allocated_user /\ allocated_user \in Nat
        /\ C!IsInjective(cache[t]) /\ user \intersect InAll(free_list) = {}
        /\ allocated_user .. allocated_user - 1 = {}
    BY CHas DEF C!region
  <2>2. /\ C!With(t)' \intersect user' = {} /\ C!With(t)' \intersect InAll(free_list') = {}
        /\ user' \intersect InAll(free_list') = {}
        /\ user' \union InAll(free_list') \union C!With(t)'
             = user \union InAll(free_list) \union C!With(t)
                 \union (allocated_user .. allocated_user' - 1)
    BY <1>2, <1>10, <2>1
  <2>3. /\ C!IsInjective(cache'[t]) /\ C!IsInjective(batch'[t]) /\ Batched(free_list')
        /\ C!Range(cache'[t]) \intersect C!Range(batch'[t]) = {}
    BY <1>2, <1>9, <1>10, <2>1
  <2>4. \A u \in Users \ {t} : cache'[u] = cache[u] /\ batch'[u] = batch[u]
    BY <1>9, <2>1
  <2>5. allocated_user' \in Nat /\ allocated_user <= allocated_user'
    BY <2>1
  <2> QED  BY <2>2, <2>3, <2>4, <2>5, CMoves
<1> QED  BY <1>3, <1>6, <1>7, <1>8, <1>11 DEF CInv

(* The steps that move no chunk.                                               *)
LEMMA CPlaced ==
  ASSUME CInv, UNCHANGED <<free_list, user, cache, batch>>
  PROVE  allocated_user' = allocated_user => C!ChunksOnce' /\ C!BatchesFit'
<1>1. C!ChunksOnce /\ C!BatchesFit
  BY DEF CInv
<1>2. C!InList' = C!InList /\ \A u \in Users : C!With(u)' = C!With(u)
  BY DEF C!InList, C!With
<1> QED  BY <1>1, <1>2 DEF C!ChunksOnce, C!BatchesFit

LEMMA CPopulate ==
  ASSUME CInv, NEW t \in Users, C!AllocateBatch(t) \/ C!Populate(t) PROVE CInv'
<1> USE CAssumption
<1>1. CTyped /\ CRefill /\ COne /\ CMemory
  BY DEF CInv
<1>2. CASE C!Pop(t, "take") /\ mutex' = mutex
  <2>1. cache[t] = << >>
    BY <1>1 DEF C!AllocateBatch, C!Populate, CRefill
  <2> QED  BY <1>2, <2>1, CPop DEF C!AllocateBatch, C!Populate
<1>3. CASE /\ scPc[t] = "out" /\ cache[t] = << >> /\ scPc' = [scPc EXCEPT ![t] = "populate"]
           /\ UNCHANGED <<free_list, batch, cache, user, mutex, C!region>>
  <2>1. CTyped' /\ CRefill' /\ COne'
    BY <1>1, <1>3 DEF CTyped, CRefill, COne, C!region
  <2>2. \A u \in Users : scPc'[u] = "slice" <=> scPc[u] = "slice"
    BY <1>1, <1>3 DEF CTyped
  <2>3. CMemory'
    BY <1>1, <1>3, <2>2 DEF CMemory, CAhead, C!region
  <2> QED  BY <1>3, <2>1, <2>3, CPlaced DEF CInv, C!region
<1>4. CASE /\ scPc[t] = "populate" /\ mutex = None /\ mutex' = t /\ scPc' = [scPc EXCEPT ![t] = "map"]
           /\ UNCHANGED <<free_list, batch, cache, user, C!region>>
  <2>1. CTyped' /\ CRefill' /\ COne'
    BY <1>1, <1>4 DEF CTyped, CRefill, COne, C!region
  <2>2. \A u \in Users : scPc'[u] = "slice" <=> scPc[u] = "slice"
    BY <1>1, <1>4 DEF CTyped
  <2>3. CMemory'
    BY <1>1, <1>4, <2>2 DEF CMemory, CAhead, C!region
  <2> QED  BY <1>4, <2>1, <2>3, CPlaced DEF CInv, C!region
<1> QED  BY <1>2, <1>3, <1>4 DEF C!AllocateBatch, C!Populate, C!Goto

LEMMA CMap ==
  ASSUME CInv, NEW t \in Users, C!Map(t), ~scDied PROVE CInv'
<1> USE CAssumption
<1> DEFINE user1 == C!GrowTo(mapped_user, UserMapSize, allocated_user + MaxCached + 1)
           total == ((user1 - allocated_user - 1) \div MaxCached) * MaxCached
           meta1 == C!GrowTo(mapped_meta, MetaMapSize, allocated_meta + total)
<1>0. /\ scPc[t] = "map" /\ mapped_user' = user1 /\ allocated_meta' = allocated_meta + total
      /\ mapped_meta' = meta1 /\ scDied' = (user1 + meta1 > ClassSize)
      /\ scPc' = IF scDied' THEN scPc ELSE [scPc EXCEPT ![t] = "slice"]
      /\ UNCHANGED <<free_list, cache, user, batch, mutex, allocated_user>>
  BY DEF C!Map, C!Goto
<1>1. CTyped /\ CRefill /\ COne /\ CMemory
  BY DEF CInv
<1>2. user1 \in Nat /\ user1 >= mapped_user /\ user1 >= allocated_user + MaxCached + 1
  <2>1. mapped_user \in Nat /\ allocated_user + MaxCached + 1 \in Nat
    BY <1>1 DEF CTyped
  <2> QED  BY <2>1, Growing
<1> HIDE DEF user1
<1>3. total \in Nat
  <2>1. user1 - allocated_user - 1 \in Nat
    BY <1>1, <1>2 DEF CTyped
  <2> QED  BY <2>1, Rounding
<1> HIDE DEF total
<1>4. meta1 \in Nat /\ meta1 >= allocated_meta + total
  <2>1. mapped_meta \in Nat /\ allocated_meta + total \in Nat
    BY <1>1, <1>3 DEF CTyped
  <2> QED  BY <2>1, Growing
<1> HIDE DEF meta1
<1>5. CTyped' /\ CRefill' /\ COne'
  BY <1>0, <1>1, <1>2, <1>3, <1>4 DEF CTyped, CRefill, COne
<1>6. \A u \in Users : scPc[u] # "slice"
  BY <1>0, <1>1 DEF COne
<1>7. CMemory'
  <2> SUFFICES ASSUME ~scDied' PROVE CMemory'
    BY DEF CMemory
  <2>1. allocated_meta = allocated_user /\ mapped_user' + mapped_meta' <= ClassSize
    <3>1. allocated_meta = allocated_user
      BY <1>1, <1>6 DEF CMemory, CAhead
    <3>2. ~(user1 + meta1 > ClassSize) /\ ClassSize \in Nat
      BY <1>0
    <3>3. user1 + meta1 <= ClassSize
      BY <1>2, <1>4, <3>2
    <3> QED  BY <1>0, <3>1, <3>3
  <2>2. scPc'[t] = "slice"
    BY <1>0, <1>1 DEF CTyped
  <2>3. CAhead'
    BY <1>0, <1>2, <2>1, <2>2 DEF CAhead, total
  <2> QED  BY <1>0, <1>1, <1>2, <1>3, <1>4, <2>1, <2>3 DEF CMemory, CTyped
<1> QED  BY <1>0, <1>5, <1>7, CPlaced DEF CInv

LEMMA CSlice ==
  ASSUME CInv, NEW t \in Users, C!Slice(t) PROVE CInv'
<1> USE CAssumption
<1> DEFINE x == [n \in 1 .. MaxCached |-> allocated_user + n - 1]
           end == allocated_user + MaxCached
           last == end + MaxCached + 1 > mapped_user
           new == allocated_user .. end - 1
<1>0. /\ scPc[t] = "slice" /\ ~scDied /\ allocated_user' = end
      /\ UNCHANGED <<cache, user, mapped_user, mapped_meta, allocated_meta, scDied>>
      /\ last => /\ batch' = [batch EXCEPT ![t] = x] /\ scPc' = [scPc EXCEPT ![t] = "take"]
                 /\ mutex' = None /\ UNCHANGED free_list
      /\ ~last => free_list' = <<x>> \o free_list /\ UNCHANGED <<scPc, batch, mutex>>
  BY DEF C!Slice, C!Goto
<1>1. CTyped /\ CRefill /\ COne /\ CMemory /\ C!BatchesFit
  BY DEF CInv
<1>2. /\ allocated_user \in Nat /\ end \in Nat /\ mapped_user \in Nat /\ allocated_user <= end
      /\ cache[t] = << >> /\ batch[t] = << >>
      /\ allocated_user + MaxCached + 1 <= mapped_user
      /\ allocated_meta = allocated_user + ((mapped_user - allocated_user - 1) \div MaxCached) * MaxCached
  BY <1>0, <1>1 DEF CTyped, CRefill, CMemory, CAhead
<1>3. /\ x \in Seq(Nat) /\ Len(x) = MaxCached /\ x # << >> /\ DOMAIN x = 1 .. MaxCached
      /\ \A n \in 1 .. MaxCached : x[n] = allocated_user + n - 1
  <2>1. \A n \in 1 .. MaxCached : allocated_user + n - 1 \in Nat
    BY <1>2
  <2>2. x \in [1 .. MaxCached -> Nat] /\ MaxCached \in Nat
    BY <2>1
  <2>3. x \in Seq(Nat) /\ Len(x) = MaxCached
    BY <2>2
  <2> QED  BY <2>3
<1> HIDE DEF x
<1>4. C!IsInjective(x) /\ C!Range(x) = new
  <2>1. C!IsInjective(x)
    BY <1>2, <1>3 DEF C!IsInjective
  <2>2. \A n \in 1 .. MaxCached : x[n] \in new
    BY <1>2, <1>3
  <2>3. \A c \in new : c - allocated_user + 1 \in 1 .. MaxCached /\ x[c - allocated_user + 1] = c
    BY <1>2, <1>3
  <2> QED  BY <1>3, <2>1, <2>2, <2>3 DEF C!Range
<1>5. CTyped'
  <2>1. <<x>> \o free_list \in Seq(Seq(Nat))
    BY <1>1, <1>3, SeqCons DEF CTyped
  <2> HIDE DEF last
  <2>2. free_list' \in Seq(Seq(Nat))
    BY <1>0, <1>1, <2>1 DEF CTyped
  <2>3. batch' \in [Users -> Seq(Nat)]
    BY <1>0, <1>1, <1>3 DEF CTyped
  <2> QED  BY <1>0, <1>1, <1>2, <2>2, <2>3 DEF CTyped
<1>6. CRefill' /\ COne'
  BY <1>0, <1>1, <1>2, <1>3 DEF CTyped, CRefill, COne
<1>7. CMemory'
  <2> DEFINE a == mapped_user - allocated_user - 1
  <2>1. a \in Nat /\ a >= MaxCached /\ mapped_user - end - 1 = a - MaxCached
    BY <1>2
  <2>2. ((a - MaxCached) \div MaxCached) * MaxCached = (a \div MaxCached) * MaxCached - MaxCached
    BY <2>1, Rounding
  <2>3. (a \div MaxCached) * MaxCached \in Nat
    BY <2>1, Rounding
  <2>4. allocated_meta = end + ((mapped_user - end - 1) \div MaxCached) * MaxCached
    <3> DEFINE r == (a \div MaxCached) * MaxCached
    <3>1. allocated_meta = allocated_user + r /\ r \in Nat
      BY <1>2, <2>3
    <3> HIDE DEF r
    <3>2. allocated_meta = end + (r - MaxCached)
      BY <1>2, <3>1
    <3> QED  BY <2>1, <2>2, <3>2 DEF r
  <2>5. allocated_user' <= mapped_user
    BY <1>0, <1>2
  <2>6. CASE last
    <3>1. a - MaxCached \in Nat /\ a - MaxCached < MaxCached
      BY <1>2, <2>1, <2>6
    <3>2. ((a - MaxCached) \div MaxCached) * MaxCached = 0
      BY <3>1, Rounding
    <3>3. allocated_meta = end
      BY <1>2, <2>1, <2>4, <3>2
    <3> HIDE DEF last
    <3>4. \A u \in Users : scPc'[u] # "slice"
      BY <1>0, <1>1, <2>6 DEF CTyped, COne
    <3>5. CAhead'
      BY <1>0, <3>3, <3>4 DEF CAhead
    <3> QED  BY <1>0, <1>1, <2>5, <3>5 DEF CMemory
  <2>7. CASE ~last
    <3>1. allocated_user' + MaxCached + 1 <= mapped_user
      BY <1>0, <1>2, <2>7
    <3> HIDE DEF last
    <3>2. scPc' = scPc
      BY <1>0, <2>7
    <3>3. CAhead'
      BY <1>0, <2>4, <3>1, <3>2 DEF CAhead
    <3> QED  BY <1>0, <1>1, <2>5, <3>3 DEF CMemory
  <2> QED  BY <2>6, <2>7
<1>8. C!BatchesFit'
  <2> HIDE DEF last
  <2>1. \A n \in DOMAIN free_list' : Len(free_list'[n]) \in 1 .. MaxCached
    <3>1. CASE last
      BY <1>0, <1>1, <3>1 DEF C!BatchesFit
    <3>2. CASE ~last
      <4>1. /\ DOMAIN free_list' = 1 .. Len(free_list) + 1 /\ DOMAIN free_list = 1 .. Len(free_list)
            /\ Len(free_list) \in Nat /\ free_list'[1] = x
            /\ \A n \in 2 .. Len(free_list) + 1 : free_list'[n] = free_list[n - 1]
        BY <1>0, <1>1, <1>3, <1>5, <3>2, SeqCons, SeqBasics DEF CTyped
      <4>2. \A n \in DOMAIN free_list' : n = 1 \/ (n \in 2 .. Len(free_list) + 1 /\ n - 1 \in DOMAIN free_list)
        BY <4>1
      <4>3. \A n \in DOMAIN free_list : Len(free_list[n]) \in 1 .. MaxCached
        BY <1>1 DEF C!BatchesFit
      <4> HIDE DEF end
      <4> QED  BY ONLY <1>3, <4>1, <4>2, <4>3, CAssumption
    <3> QED  BY <3>1, <3>2
  <2>2. \A u \in Users : Len(batch'[u]) <= MaxCached
    BY <1>0, <1>1, <1>3 DEF CTyped, C!BatchesFit
  <2> QED  BY <1>0, <1>1, <2>1, <2>2 DEF C!BatchesFit
<1>9. C!ChunksOnce'
  <2> HIDE DEF last
  <2>1. /\ C!IsInjective(cache'[t]) /\ C!Range(cache'[t]) = {} /\ C!Range(batch[t]) = {}
        /\ C!Range(cache[t]) = {}
        /\ \A u \in Users \ {t} : cache'[u] = cache[u] /\ batch'[u] = batch[u]
    BY <1>0, <1>1, <1>2, SeqEmpty DEF CTyped
  <2>2. C!With(t) = {} /\ C!With(t)' = C!Range(batch'[t])
    BY <2>1 DEF C!With
  <2>3. new \intersect (0 .. allocated_user - 1) = {}
    BY <1>2
  <2> HIDE DEF new, end
  <2>4. new \intersect user = {} /\ new \intersect InAll(free_list) = {} /\ user \intersect InAll(free_list) = {}
    BY <2>3, CHas
  <2>5. allocated_user .. allocated_user' - 1 = new
    BY <1>0 DEF new
  <2>6. /\ Batched(free_list') /\ C!IsInjective(batch'[t])
        /\ C!With(t)' \intersect user = {} /\ C!With(t)' \intersect InAll(free_list') = {}
        /\ user \intersect InAll(free_list') = {}
        /\ user \union InAll(free_list') \union C!With(t)'
             = user \union InAll(free_list) \union C!With(t) \union new
    <3>1. CASE last
      <4>1. batch'[t] = x /\ free_list' = free_list
        BY <1>0, <1>1, <3>1 DEF CTyped
      <4> QED  BY <1>4, <2>2, <2>4, <4>1, CHas
    <3>2. CASE ~last
      <4>1. batch'[t] = << >> /\ free_list' = <<x>> \o free_list
        BY <1>0, <1>2, <3>2
      <4>2. free_list \in Seq(Seq(Nat)) /\ Batched(free_list)
        BY CHas
      <4>3. InAll(free_list') = InAll(free_list) \union new /\ Batched(free_list')
        BY <1>3, <1>4, <2>4, <4>1, <4>2, ListPush
      <4> QED  BY <2>2, <2>4, <4>1, <4>3, SeqEmpty
    <3> QED  BY <3>1, <3>2
  <2> QED  BY <1>0, <1>2, <2>1, <2>5, <2>6, CMoves
<1> QED  BY <1>5, <1>6, <1>7, <1>8, <1>9 DEF CInv

LEMMA CTake ==
  ASSUME CInv, NEW t \in Users, C!Take(t) PROVE CInv'
<1> USE CAssumption
<1> DEFINE f == C!Front(batch[t])  x == C!Last(batch[t])
<1>0. /\ scPc[t] = "take" /\ cache' = [cache EXCEPT ![t] = f] /\ user' = user \union {x}
      /\ batch' = [batch EXCEPT ![t] = << >>] /\ scPc' = [scPc EXCEPT ![t] = "out"]
      /\ UNCHANGED <<free_list, mutex, C!region>>
  BY DEF C!Take, C!Goto
<1>1. CTyped /\ CRefill /\ COne /\ CMemory /\ C!BatchesFit
  BY DEF CInv
<1>2. cache[t] = << >> /\ batch[t] # << >> /\ batch[t] \in Seq(Nat)
  BY <1>0, <1>1 DEF CTyped, CRefill
<1>3. /\ f \in Seq(Nat) /\ Len(f) = Len(batch[t]) - 1 /\ Len(batch[t]) \in Nat /\ x \in Nat
      /\ C!Range(batch[t]) = C!Range(f) \union {x}
      /\ C!IsInjective(batch[t]) => C!IsInjective(f) /\ x \notin C!Range(f)
  <2>1. Len(batch[t]) \in Nat
    BY <1>2
  <2> QED  BY ONLY <1>2, <2>1, SeqFront DEF f, x
<1> HIDE DEF f, x
<1>4. CTyped'
  <2>1. << >> \in Seq(Nat)
    OBVIOUS
  <2>2. cache' \in [Users -> Seq(Nat)] /\ batch' \in [Users -> Seq(Nat)]
    BY <1>0, <1>1, <1>3, <2>1 DEF CTyped
  <2> QED  BY <1>0, <1>1, <1>3, <2>2 DEF CTyped, C!region
<1>5. CRefill' /\ COne'
  BY <1>0, <1>1 DEF CTyped, CRefill, COne
<1>6. CMemory'
  <2>1. \A u \in Users : scPc'[u] = "slice" <=> scPc[u] = "slice"
    BY <1>0, <1>1 DEF CTyped
  <2> QED  BY <1>0, <1>1, <2>1 DEF CMemory, CAhead, C!region
<1>7. C!BatchesFit'
  <2>1. Len(f) <= 2 * MaxCached /\ Len(<< >>) = 0
    BY <1>1, <1>3 DEF C!BatchesFit
  <2> QED  BY <1>0, <1>1, <2>1 DEF C!BatchesFit, C!max_count, CTyped
<1>8. /\ cache'[t] = f /\ batch'[t] = << >>
      /\ \A u \in Users \ {t} : cache'[u] = cache[u] /\ batch'[u] = batch[u]
  BY <1>0, <1>1 DEF CTyped
<1>9. /\ C!With(t) = C!Range(f) \union {x} /\ C!With(t)' = C!Range(f)
      /\ C!IsInjective(cache'[t]) /\ C!IsInjective(batch'[t]) /\ x \notin C!Range(f)
      /\ C!Range(cache'[t]) \intersect C!Range(batch'[t]) = {}
  BY <1>2, <1>3, <1>8, SeqEmpty, CHas DEF C!With
<1>10. C!ChunksOnce'
  <2>1. /\ free_list' = free_list /\ Batched(free_list) /\ user \intersect InAll(free_list) = {}
        /\ C!With(t) \intersect user = {} /\ C!With(t) \intersect InAll(free_list) = {}
        /\ allocated_user' = allocated_user /\ allocated_user \in Nat
        /\ allocated_user .. allocated_user - 1 = {}
    BY <1>0, CHas DEF C!region
  <2>2. /\ C!With(t)' \intersect user' = {} /\ C!With(t)' \intersect InAll(free_list') = {}
        /\ user' \intersect InAll(free_list') = {}
        /\ user' \union InAll(free_list') \union C!With(t)'
             = user \union InAll(free_list) \union C!With(t)
                 \union (allocated_user .. allocated_user' - 1)
    BY <1>0, <1>9, <2>1
  <2> QED  BY <1>8, <1>9, <2>1, <2>2, CMoves
<1> QED  BY <1>4, <1>5, <1>6, <1>7, <1>10 DEF CInv

(* What is drained from a cache, and what is kept.                             *)
LEMMA CDrains ==
  ASSUME NEW c \in Seq(Nat), c # << >>, Len(c) <= 2 * MaxCached
  PROVE  /\ C!Drained(c) \in Seq(Nat) /\ Len(C!Drained(c)) \in 1 .. MaxCached
         /\ C!Kept(c) \in Seq(Nat) /\ Len(C!Kept(c)) \in 0 .. MaxCached
         /\ C!Range(c) = C!Range(C!Drained(c)) \union C!Range(C!Kept(c))
         /\ C!IsInjective(c) =>
              /\ C!IsInjective(C!Drained(c)) /\ C!IsInjective(C!Kept(c))
              /\ C!Range(C!Drained(c)) \intersect C!Range(C!Kept(c)) = {}
<1> USE CAssumption
<1>1. Len(c) \in Nat \ {0}
  OBVIOUS
<1>2. CASE Len(c) < MaxCached
  <2>1. SubSeq(c, Len(c) + 1, Len(c)) = << >> /\ SubSeq(c, MaxCached + 1, Len(c)) = << >>
    BY <1>1, <1>2, SubSeqEmpty
  <2>2. Len(c) \in 0 .. Len(c)
    BY <1>1
  <2>3. C!Drained(c) = SubSeq(c, 1, Len(c)) /\ C!Kept(c) = SubSeq(c, Len(c) + 1, Len(c))
    BY <1>2, <2>1 DEF C!Drained, C!Kept
  <2>4. Len(SubSeq(c, Len(c) + 1, Len(c))) = 0
    BY <2>1
  <2>5. /\ C!Drained(c) \in Seq(Nat) /\ Len(C!Drained(c)) = Len(c)
        /\ C!Kept(c) \in Seq(Nat) /\ Len(C!Kept(c)) = 0
        /\ C!Range(c) = C!Range(C!Drained(c)) \union C!Range(C!Kept(c))
        /\ C!IsInjective(c) =>
             /\ C!IsInjective(C!Drained(c)) /\ C!IsInjective(C!Kept(c))
             /\ C!Range(C!Drained(c)) \intersect C!Range(C!Kept(c)) = {}
    BY ONLY c \in Seq(Nat), <2>2, <2>3, <2>4, SeqCut
  <2> QED  BY <1>1, <1>2, <2>5
<1>3. CASE ~(Len(c) < MaxCached)
  <2>1. MaxCached \in 0 .. Len(c)
    BY <1>1, <1>3
  <2>2. C!Drained(c) = SubSeq(c, 1, MaxCached) /\ C!Kept(c) = SubSeq(c, MaxCached + 1, Len(c))
    BY <1>3 DEF C!Drained, C!Kept
  <2>3. /\ C!Drained(c) \in Seq(Nat) /\ Len(C!Drained(c)) = MaxCached
        /\ C!Kept(c) \in Seq(Nat) /\ Len(C!Kept(c)) = Len(c) - MaxCached
        /\ C!Range(c) = C!Range(C!Drained(c)) \union C!Range(C!Kept(c))
        /\ C!IsInjective(c) =>
             /\ C!IsInjective(C!Drained(c)) /\ C!IsInjective(C!Kept(c))
             /\ C!Range(C!Drained(c)) \intersect C!Range(C!Kept(c)) = {}
    BY ONLY c \in Seq(Nat), <2>1, <2>2, SeqCut
  <2> QED  BY <1>1, <1>3, <2>3
<1> QED  BY <1>2, <1>3

(* A thread drains its cache and adds the chunk p, if it has one from a user.  *)
LEMMA CDrain ==
  ASSUME CInv, NEW t \in Users, cache[t] # << >>, batch[t] = << >>,
         free_list' = <<C!Drained(cache[t])>> \o free_list,
         NEW p \in SUBSET user, user' = user \ p,
         cache'[t] \in Seq(Nat), C!IsInjective(C!Kept(cache[t])) /\ p \intersect C!Range(C!Kept(cache[t])) = {}
           => C!IsInjective(cache'[t]),
         C!Range(cache'[t]) = C!Range(C!Kept(cache[t])) \union p,
         Len(cache'[t]) <= 2 * MaxCached,
         cache' = [cache EXCEPT ![t] = cache'[t]],
         UNCHANGED <<batch, mutex, C!region>>
  PROVE  C!BatchesFit' /\ C!ChunksOnce' /\ free_list' \in Seq(Seq(Nat))
<1> USE CAssumption
<1> DEFINE d == C!Drained(cache[t])  k == C!Kept(cache[t])
<1>1. CTyped /\ C!BatchesFit
  BY DEF CInv
<1>2. cache[t] \in Seq(Nat) /\ Len(cache[t]) <= 2 * MaxCached
  BY <1>1 DEF CTyped, C!BatchesFit, C!max_count
<1>3. /\ d \in Seq(Nat) /\ Len(d) \in 1 .. MaxCached
      /\ C!Range(cache[t]) = C!Range(d) \union C!Range(k)
      /\ C!IsInjective(cache[t]) =>
           /\ C!IsInjective(d) /\ C!IsInjective(k) /\ C!Range(d) \intersect C!Range(k) = {}
  BY <1>2, CDrains
<1> HIDE DEF d, k
<1>4. \A u \in Users \ {t} : cache'[u] = cache[u]
  BY <1>1 DEF CTyped
<1>5. free_list \in Seq(Seq(Nat)) /\ free_list' \in Seq(Seq(Nat)) /\ free_list' = <<d>> \o free_list
  BY <1>1, <1>3, SeqCons DEF CTyped, d
<1>6. C!BatchesFit'
  <2>1. /\ DOMAIN free_list' = 1 .. Len(free_list) + 1 /\ DOMAIN free_list = 1 .. Len(free_list)
        /\ Len(free_list) \in Nat /\ free_list'[1] = d
        /\ \A n \in 2 .. Len(free_list) + 1 : free_list'[n] = free_list[n - 1]
    BY <1>3, <1>5, SeqCons, SeqBasics
  <2>2. \A n \in DOMAIN free_list' : n = 1 \/ (n \in 2 .. Len(free_list) + 1 /\ n - 1 \in DOMAIN free_list)
    BY <2>1
  <2>3. \A n \in DOMAIN free_list : Len(free_list[n]) \in 1 .. MaxCached
    BY <1>1 DEF C!BatchesFit
  <2>4. \A n \in DOMAIN free_list' : Len(free_list'[n]) \in 1 .. MaxCached
    BY ONLY <1>3, <2>1, <2>2, <2>3, CAssumption
  <2>5. \A u \in Users : Len(cache'[u]) <= C!max_count /\ Len(batch'[u]) <= MaxCached
    BY <1>1, <1>4 DEF C!BatchesFit, C!max_count
  <2> QED  BY <2>4, <2>5 DEF C!BatchesFit
<1>7. C!ChunksOnce'
  <2>1. /\ C!Range(batch[t]) = {} /\ C!IsInjective(batch'[t]) /\ batch' = batch
        /\ C!With(t) = C!Range(d) \union C!Range(k) /\ C!With(t)' = C!Range(k) \union p
    BY <1>3, SeqEmpty DEF C!With, k
  <2>2. /\ Batched(free_list) /\ user \intersect InAll(free_list) = {}
        /\ C!With(t) \intersect user = {} /\ C!With(t) \intersect InAll(free_list) = {}
        /\ allocated_user' = allocated_user /\ allocated_user \in Nat
        /\ allocated_user .. allocated_user - 1 = {}
        /\ C!IsInjective(d) /\ C!IsInjective(k) /\ C!Range(d) \intersect C!Range(k) = {}
    BY <1>3, CHas DEF C!region
  <2>3. /\ Batched(free_list') /\ InAll(free_list') = InAll(free_list) \union C!Range(d)
    BY <1>3, <1>5, <2>1, <2>2, ListPush
  <2>4. /\ C!With(t)' \intersect user' = {} /\ C!With(t)' \intersect InAll(free_list') = {}
        /\ user' \intersect InAll(free_list') = {}
        /\ user' \union InAll(free_list') \union C!With(t)'
             = user \union InAll(free_list) \union C!With(t)
                 \union (allocated_user .. allocated_user' - 1)
    BY <2>1, <2>2, <2>3
  <2>5. C!IsInjective(cache'[t]) /\ C!Range(cache'[t]) \intersect C!Range(batch'[t]) = {}
    BY <2>1, <2>2 DEF k
  <2> QED  BY <1>4, <2>1, <2>2, <2>3, <2>4, <2>5, CMoves
<1> QED  BY <1>5, <1>6, <1>7

LEMMA CDeallocate ==
  ASSUME CInv, NEW t \in Users, NEW p \in user, C!Deallocate(t, p) PROVE CInv'
<1> USE CAssumption
<1>0. scPc[t] = "out" /\ user' = user \ {p} /\ UNCHANGED <<scPc, batch, mutex, C!region>>
  BY DEF C!Deallocate
<1>1. CTyped /\ CRefill /\ COne /\ CMemory /\ C!BatchesFit
  BY DEF CInv
<1>2. /\ cache[t] \in Seq(Nat) /\ Len(cache[t]) \in Nat /\ Len(cache[t]) <= 2 * MaxCached
      /\ batch[t] = << >> /\ p \in Nat
  BY <1>0, <1>1 DEF CTyped, CRefill, C!BatchesFit, C!max_count
<1>3. p \notin C!Range(cache[t])
  BY CHas
<1>4. COne' /\ CMemory'
  BY <1>0, <1>1 DEF COne, CMemory, CAhead, C!region
<1>5. CASE Len(cache[t]) = 2 * MaxCached
  <2> DEFINE k == C!Kept(cache[t])
  <2>1. /\ cache' = [cache EXCEPT ![t] = Append(k, p)]
        /\ free_list' = <<C!Drained(cache[t])>> \o free_list /\ cache[t] # << >>
    BY <1>2, <1>5 DEF C!Deallocate, C!max_count
  <2>2. k \in Seq(Nat) /\ Len(k) \in 0 .. MaxCached
    BY <1>2, <2>1, CDrains
  <2> HIDE DEF k
  <2>3. /\ Append(k, p) \in Seq(Nat) /\ Len(Append(k, p)) <= 2 * MaxCached
        /\ C!Range(Append(k, p)) = C!Range(k) \union {p}
        /\ C!IsInjective(k) /\ p \notin C!Range(k) => C!IsInjective(Append(k, p))
    BY <1>2, <2>2, SeqAppend
  <2>4. cache'[t] = Append(k, p)
    BY <1>1, <2>1 DEF CTyped
  <2>5. {p} \in SUBSET user
    OBVIOUS
  <2>6. C!BatchesFit' /\ C!ChunksOnce' /\ free_list' \in Seq(Seq(Nat))
    BY <1>0, <1>2, <2>1, <2>3, <2>4, <2>5, CDrain DEF k
  <2>7. CTyped'
    BY <1>0, <1>1, <2>1, <2>3, <2>6 DEF CTyped, C!region
  <2>8. CRefill'
    BY <1>0, <1>1, <2>1 DEF CTyped, CRefill
  <2> QED  BY <1>4, <2>6, <2>7, <2>8 DEF CInv
<1>6. CASE Len(cache[t]) # 2 * MaxCached
  <2> DEFINE c == Append(cache[t], p)
  <2>1. cache' = [cache EXCEPT ![t] = c] /\ free_list' = free_list
    BY <1>6 DEF C!Deallocate, C!max_count
  <2>2. /\ c \in Seq(Nat) /\ Len(c) = Len(cache[t]) + 1 /\ C!Range(c) = C!Range(cache[t]) \union {p}
        /\ C!IsInjective(c)
    BY <1>2, <1>3, SeqAppend, CHas
  <2> HIDE DEF c
  <2>3. CTyped'
    BY <1>0, <1>1, <2>1, <2>2 DEF CTyped, C!region
  <2>4. CRefill'
    BY <1>0, <1>1, <2>1 DEF CTyped, CRefill
  <2>5. Len(c) <= 2 * MaxCached
    BY <1>2, <1>6, <2>2
  <2>6. C!BatchesFit'
    BY <1>0, <1>1, <2>1, <2>5 DEF C!BatchesFit, C!max_count, CTyped
  <2>7. cache'[t] = c /\ \A u \in Users \ {t} : cache'[u] = cache[u]
    BY <1>1, <2>1 DEF CTyped
  <2>8. /\ C!Range(batch[t]) = {} /\ C!IsInjective(batch[t]) /\ batch' = batch
        /\ C!With(t) = C!Range(cache[t]) /\ C!With(t)' = C!Range(cache[t]) \union {p}
    BY <1>0, <1>2, <2>2, <2>7, SeqEmpty DEF C!With
  <2>9. /\ Batched(free_list) /\ user \intersect InAll(free_list) = {}
        /\ C!With(t) \intersect user = {} /\ C!With(t) \intersect InAll(free_list) = {}
        /\ allocated_user' = allocated_user /\ allocated_user \in Nat
        /\ allocated_user .. allocated_user - 1 = {}
    BY <1>0, CHas DEF C!region
  <2>10. /\ C!With(t)' \intersect user' = {} /\ C!With(t)' \intersect InAll(free_list') = {}
         /\ user' \intersect InAll(free_list') = {}
         /\ user' \union InAll(free_list') \union C!With(t)'
              = user \union InAll(free_list) \union C!With(t)
                  \union (allocated_user .. allocated_user' - 1)
    BY <1>0, <2>1, <2>8, <2>9
  <2>11. C!Range(cache'[t]) \intersect C!Range(batch'[t]) = {}
    BY <2>8
  <2>12. C!ChunksOnce'
    BY <2>1, <2>2, <2>7, <2>8, <2>9, <2>10, <2>11, CMoves
  <2> QED  BY <1>4, <2>3, <2>4, <2>6, <2>12 DEF CInv
<1> QED  BY <1>5, <1>6

LEMMA CDestroy ==
  ASSUME CInv, NEW t \in Users, C!Destroy(t) PROVE CInv'
<1> USE CAssumption
<1> DEFINE k == C!Kept(cache[t])
<1>0. /\ scPc[t] \in {"out", "drain"} /\ cache[t] # << >>
      /\ free_list' = <<C!Drained(cache[t])>> \o free_list /\ cache' = [cache EXCEPT ![t] = k]
      /\ scPc' = [scPc EXCEPT ![t] = IF cache'[t] = << >> THEN "out" ELSE "drain"]
      /\ UNCHANGED <<user, batch, mutex, C!region>>
  BY DEF C!Destroy, C!Goto
<1>1. CTyped /\ CRefill /\ COne /\ CMemory /\ C!BatchesFit
  BY DEF CInv
<1>2. cache[t] \in Seq(Nat) /\ Len(cache[t]) <= 2 * MaxCached /\ batch[t] = << >>
  BY <1>0, <1>1 DEF CTyped, CRefill, C!BatchesFit, C!max_count
<1>3. k \in Seq(Nat) /\ Len(k) \in 0 .. MaxCached
  BY <1>0, <1>2, CDrains
<1> HIDE DEF k
<1>4. cache'[t] = k
  BY <1>0, <1>1 DEF CTyped
<1>5. {} \in SUBSET user /\ user' = user \ {} /\ C!Range(k) = C!Range(k) \union {}
  BY <1>0
<1>6. Len(cache'[t]) <= 2 * MaxCached
  BY <1>3, <1>4
<1>7. C!BatchesFit' /\ C!ChunksOnce' /\ free_list' \in Seq(Seq(Nat))
  BY <1>0, <1>2, <1>3, <1>4, <1>5, <1>6, CDrain DEF k
<1>8. CTyped'
  <2>1. cache' \in [Users -> Seq(Nat)]
    BY <1>0, <1>1, <1>3 DEF CTyped
  <2>2. scPc' \in [Users -> {"out", "populate", "map", "slice", "take", "drain"}]
    BY <1>0, <1>1 DEF CTyped
  <2> QED  BY <1>0, <1>1, <1>7, <2>1, <2>2 DEF CTyped, C!region
<1>9. \A u \in Users : scPc'[u] # scPc[u] => u = t /\ scPc'[u] \in {"out", "drain"}
  BY <1>0, <1>1 DEF CTyped
<1>10. CRefill' /\ COne' /\ CMemory'
  <2>1. CRefill'
    BY <1>0, <1>1, <1>2, <1>9 DEF CTyped, CRefill
  <2>2. COne'
    BY <1>0, <1>1, <1>9 DEF COne
  <2>3. \A u \in Users : scPc'[u] = "slice" <=> scPc[u] = "slice"
    BY <1>0, <1>9
  <2> QED  BY <1>0, <1>1, <2>1, <2>2, <2>3 DEF CMemory, CAhead, C!region
<1> QED  BY <1>7, <1>8, <1>10 DEF CInv

LEMMA CStep == CInv /\ [C!Next]_(C!vars) => CInv'
<1> SUFFICES ASSUME CInv, [C!Next]_(C!vars) PROVE CInv'
  OBVIOUS
<1>1. CASE UNCHANGED C!vars
  <2>1. CTyped' /\ CRefill' /\ COne' /\ CMemory' /\ allocated_user' = allocated_user
    BY <1>1 DEF C!vars, C!region, CInv, CTyped, CRefill, COne, CMemory, CAhead
  <2> QED  BY <1>1, <2>1, CPlaced DEF C!vars, CInv
<1>2. ASSUME NEW t \in Users, ~scDied,
             \/ C!Allocate(t) \/ C!AllocateBatch(t) \/ C!Populate(t) \/ C!Map(t) \/ C!Slice(t)
             \/ C!Take(t) \/ C!Destroy(t) \/ \E p \in user : C!Deallocate(t, p)
      PROVE  CInv'
  BY <1>2, CAllocate, CPopulate, CMap, CSlice, CTake, CDestroy, CDeallocate
<1> QED  BY <1>1, <1>2 DEF C!Next, C!Dead

(* No chunk is lost or given to two, and each is in mapped memory.             *)
THEOREM ChunksAreOnce == C!Spec => [](C!ChunksOnce /\ C!MemoryIsThere /\ C!BatchesFit)
<1>1. CInv => C!MemoryIsThere
  <2> SUFFICES ASSUME CInv, ~scDied PROVE C!MemoryIsThere
    BY DEF C!MemoryIsThere
  <2>0. CTyped /\ CMemory
    BY DEF CInv
  <2>1. CASE \A t \in Users : scPc[t] # "slice"
    BY <2>0, <2>1 DEF CTyped, CMemory, CAhead, C!MemoryIsThere
  <2>2. CASE \E t \in Users : scPc[t] = "slice"
    <3> DEFINE a == mapped_user - allocated_user - 1
    <3>1. a \in Nat /\ allocated_meta = allocated_user + (a \div MaxCached) * MaxCached
      BY <2>0, <2>2, CAssumption DEF CTyped, CMemory, CAhead
    <3>2. (a \div MaxCached) * MaxCached \in Nat
      BY <3>1, Rounding, CAssumption
    <3>3. allocated_user <= allocated_meta
      <4> DEFINE r == (a \div MaxCached) * MaxCached
      <4> HIDE DEF r
      <4>1. allocated_meta = allocated_user + r /\ r \in Nat
        BY <3>1, <3>2 DEF r
      <4> QED  BY <2>0, <4>1 DEF CTyped
    <3> QED  BY <2>0, <3>3 DEF CMemory, C!MemoryIsThere
  <2> QED  BY <2>1, <2>2
<1>2. CInv => C!ChunksOnce /\ C!BatchesFit
  BY DEF CInv
<1> QED  BY <1>1, <1>2, CInitially, CStep, PTL DEF C!Spec

-------------------------------------------------------------------------------
(* AddrHashMap (H), for any threads and addresses.                             *)
HCells == 1 .. BucketSize
HElement == [addr : Addrs \union {0}, val : Addrs \union {0}]
HTyped ==
  /\ cells \in [HCells -> Addrs \union {0}] /\ vals \in [HCells -> Addrs \union {0}]
  /\ add \in Seq(HElement) /\ cap \in Nat
  /\ handle \in [MapUsers -> [addr : Addrs \union {0}, remove : BOOLEAN, create : BOOLEAN]]
  /\ ahPc \in [MapUsers -> {"out", "embed", "add", "lock", "use", "publish", "moveVal", "moveAddr"}]
  /\ index \in [MapUsers -> HCells] /\ created \in [MapUsers -> BOOLEAN]
  /\ cell \in [MapUsers -> {H!NoCell} \union ({"embed"} \X HCells) \union ({"add"} \X (Nat \ {0}))]

(* Threads with an element: that make it, remove it, or have found it.         *)
HMakes(t) == ahPc[t] \in {"use", "publish"} /\ created[t]
HRemoves(t) == ahPc[t] = "use" /\ ~created[t] /\ handle[t].remove /\ cell[t] # H!NoCell
HMoves(t) == ahPc[t] \in {"moveVal", "moveAddr"}
HFinds(t) == ahPc[t] = "use" /\ ~created[t] /\ ~handle[t].remove /\ cell[t] # H!NoCell
HWrites(t) == HMakes(t) \/ HRemoves(t) \/ HMoves(t)

(* Handles: an address that one removes is nobody else's.                      *)
HHandles ==
  \A t \in MapUsers :
    /\ handle[t].addr = 0 <=> ahPc[t] = "out"
    /\ ahPc[t] \in {"embed", "add", "lock"} => ~created[t] /\ cell[t] = H!NoCell
    /\ ahPc[t] \in {"embed", "add"} => ~handle[t].remove
    /\ ahPc[t] = "publish" => created[t]
    /\ HMoves(t) => ~created[t] /\ cell[t][1] = "embed"
    /\ HMakes(t) => ~handle[t].remove /\ cell[t] # H!NoCell
    /\ \A u \in MapUsers \ {t} :
         handle[u].addr = handle[t].addr => handle[t].addr = 0 \/ ~handle[t].remove

(* Who writes has the lock; who has found an element of the array is a reader. *)
HLock ==
  /\ \A t \in MapUsers : HWrites(t) => writer = t
  /\ \A t \in MapUsers : HFinds(t) /\ cell[t][1] = "add" => t \in readers
  /\ writer # None => readers = {}

(* Addresses are there once, and initialized.                                  *)
HTable ==
  /\ \A n \in HCells : cells[n] # 0 => vals[n] = cells[n]
  /\ \A m, n \in HCells : cells[m] = cells[n] => m = n \/ cells[m] = 0
  /\ \A n \in 1 .. Len(add) :
       IF add[n].addr = 0 THEN \E t \in MapUsers : HMakes(t) /\ cell[t] = <<"add", n>>
       ELSE /\ add[n].val = add[n].addr
            /\ \A m \in HCells : cells[m] # add[n].addr
            /\ \A m \in 1 .. Len(add) : add[m].addr = add[n].addr => m = n

(* What the threads with an element have.                                      *)
HMade ==
  \A t \in MapUsers : HMakes(t) =>
    /\ \A n \in HCells : cells[n] # handle[t].addr
    /\ \A n \in 1 .. Len(add) : add[n].addr # handle[t].addr
    /\ cell[t][1] = "embed" => /\ cells[cell[t][2]] = 0
                               /\ ahPc[t] = "publish" => vals[cell[t][2]] = handle[t].addr
    /\ cell[t][1] = "add" => /\ cell[t][2] = Len(add) /\ add[Len(add)].addr = 0 /\ Len(add) # 0
                             /\ ahPc[t] = "publish" => add[Len(add)].val = handle[t].addr

HFound ==
  \A t \in MapUsers : HRemoves(t) \/ HFinds(t) =>
    /\ cell[t][1] = "embed" => cells[cell[t][2]] = handle[t].addr
    /\ cell[t][1] = "add" => cell[t][2] <= Len(add) /\ add[cell[t][2]].addr = handle[t].addr

HMoved ==
  \A t \in MapUsers : HMoves(t) =>
    /\ cells[cell[t][2]] = 0
    /\ ahPc[t] = "moveAddr" /\ Len(add) # 0 => vals[cell[t][2]] = add[Len(add)].val

HInv == HTyped /\ HHandles /\ HLock /\ HTable /\ HMade /\ HFound /\ HMoved

LEMMA HAssumption ==
  /\ None \notin MapUsers /\ 0 \notin Addrs /\ BucketSize \in Nat \ {0} /\ InitCap \in Nat \ {0}
BY PartsAssumption DEF H!AddrHashMapAssumption

LEMMA HInitially == H!Init => HInv
<1> SUFFICES ASSUME H!Init PROVE HInv
  OBVIOUS
<1> USE HAssumption DEF H!Init
<1>1. HTyped
  <2>1. add \in Seq(HElement) /\ 1 \in HCells
    BY DEF HCells
  <2> QED  BY <2>1 DEF HTyped, H!NoHandle, HCells
<1>2. Len(add) = 0 /\ 1 .. 0 = {}
  OBVIOUS
<1>3. HHandles /\ HLock /\ HTable /\ HMade /\ HFound /\ HMoved
  BY <1>2 DEF HHandles, HLock, HTable, HMade, HFound, HMoved, HMakes, HRemoves, HMoves, HFinds, HWrites, H!NoHandle, HCells
<1> QED  BY <1>1, <1>3 DEF HInv

(* What a cell is.                                                             *)
LEMMA HPlaces ==
  ASSUME HTyped, NEW t \in MapUsers
  PROVE  /\ cell[t] = H!NoCell \/ cell[t][1] \in {"embed", "add"}
         /\ cell[t][1] = "embed" => cell[t][2] \in HCells /\ cell[t] = <<"embed", cell[t][2]>>
         /\ cell[t][1] = "add" => cell[t][2] \in Nat \ {0} /\ cell[t] = <<"add", cell[t][2]>>
         /\ cell[t] = H!NoCell => cell[t][1] = "none"
         /\ Len(add) \in Nat
BY DEF HTyped, H!NoCell

(* A step that changes no element, of a thread that neither gets nor has one   *)
(* to write.                                                                   *)
LEMMA HQuiet ==
  ASSUME HInv, NEW t \in MapUsers, HTyped', UNCHANGED <<cells, vals, add, cap, writer>>,
         \A u \in MapUsers \ {t} : /\ ahPc'[u] = ahPc[u] /\ handle'[u] = handle[u]
                                   /\ cell'[u] = cell[u] /\ created'[u] = created[u],
         ~HWrites(t), ~HWrites(t)'
  PROVE  HTable' /\ HMade' /\ HMoved' /\ \A u \in MapUsers : HWrites(u)' => writer' = u
<1> USE DEF HInv, HWrites
<1>1. \A u \in MapUsers \ {t} : /\ HMakes(u)' = HMakes(u) /\ HMoves(u)' = HMoves(u)
                                /\ HRemoves(u)' = HRemoves(u)
  BY DEF HMakes, HMoves, HRemoves
<1>2. HTable'
  <2>1. \A u \in MapUsers : HMakes(u) => u # t /\ HMakes(u)' /\ cell'[u] = cell[u]
    BY <1>1
  <2>2. \A n \in 1 .. Len(add) : add[n].addr = 0 => \E u \in MapUsers : HMakes(u)' /\ cell'[u] = <<"add", n>>
    BY <2>1 DEF HTable
  <2> QED  BY <2>2 DEF HTable
<1>3. HMade'
  BY <1>1 DEF HMade
<1>4. HMoved'
  BY <1>1 DEF HMoved
<1>5. \A u \in MapUsers : HWrites(u)' => writer' = u
  BY <1>1 DEF HLock
<1> QED  BY <1>2, <1>3, <1>4, <1>5

LEMMA HBegin ==
  ASSUME HInv, NEW t \in MapUsers, H!Begin(t) PROVE HInv'
<1> USE HAssumption
<1>0. PICK a \in Addrs, r \in BOOLEAN, c \in BOOLEAN :
        /\ handle' = [handle EXCEPT ![t] = [addr |-> a, remove |-> r, create |-> c]]
        /\ \A u \in MapUsers \ {t} : handle[u].addr = a => ~r /\ ~handle[u].remove
        /\ ahPc' = [ahPc EXCEPT ![t] = IF r THEN "lock" ELSE "embed"]
  BY DEF H!Begin, H!Goto
<1>1. /\ ahPc[t] = "out" /\ index' = [index EXCEPT ![t] = 1] /\ created' = [created EXCEPT ![t] = FALSE]
      /\ cell' = [cell EXCEPT ![t] = H!NoCell] /\ UNCHANGED <<cells, vals, add, cap, writer, readers>>
  BY DEF H!Begin, H!Find, H!table, H!lock
<1>2. HTyped
  BY DEF HInv
<1>3. HTyped'
  <2>1. 1 \in HCells
    BY DEF HCells
  <2> QED  BY <1>0, <1>1, <1>2, <2>1 DEF HTyped
<1>4. /\ ahPc'[t] \in {"lock", "embed"} /\ handle'[t].addr = a /\ handle'[t].remove = r /\ ~created'[t]
      /\ \A u \in MapUsers \ {t} : /\ ahPc'[u] = ahPc[u] /\ handle'[u] = handle[u]
                                   /\ cell'[u] = cell[u] /\ created'[u] = created[u]
  BY <1>0, <1>1, <1>2 DEF HTyped
<1>5. ~HWrites(t) /\ ~HWrites(t)' /\ ~HFinds(t)' /\ ~HMoves(t)' /\ ~HMakes(t)' /\ ~HRemoves(t)'
  BY <1>1, <1>4 DEF HWrites, HMakes, HRemoves, HMoves, HFinds
<1>6. HTable' /\ HMade' /\ HMoved' /\ \A u \in MapUsers : HWrites(u)' => writer' = u
  BY <1>1, <1>3, <1>4, <1>5, HQuiet
<1>7. \A u \in MapUsers \ {t} : HFinds(u)' = HFinds(u) /\ HRemoves(u)' = HRemoves(u)
                                 /\ HMoves(u)' = HMoves(u) /\ HMakes(u)' = HMakes(u)
  BY <1>4 DEF HFinds, HRemoves, HMoves, HMakes
<1>8. HHandles'
  <2>1. /\ handle'[t].addr # 0 /\ (ahPc'[t] = "embed" => ~handle'[t].remove)
        /\ ~created'[t] /\ cell'[t] = H!NoCell
    BY <1>0, <1>1, <1>2, <1>4 DEF HTyped
  <2>2. \A u \in MapUsers \ {t} : handle'[u].addr = handle'[t].addr => ~handle'[t].remove /\ ~handle'[u].remove
    BY <1>0, <1>4
  <2> QED  BY <1>4, <1>5, <1>7, <2>1, <2>2 DEF HInv, HHandles
<1>9. HLock' /\ HFound'
  BY <1>1, <1>4, <1>5, <1>6, <1>7 DEF HInv, HLock, HFound
<1> QED  BY <1>3, <1>6, <1>8, <1>9 DEF HInv

LEMMA HReadCell ==
  ASSUME HInv, NEW t \in MapUsers, H!ReadCell(t) PROVE HInv'
<1> USE HAssumption
<1>1. /\ ahPc[t] = "embed" /\ UNCHANGED <<cells, vals, add, cap, writer, readers, handle, created>>
      /\ \/ /\ cells[index[t]] = handle[t].addr /\ cell' = [cell EXCEPT ![t] = <<"embed", index[t]>>]
            /\ ahPc' = [ahPc EXCEPT ![t] = "use"] /\ index' = index
         \/ /\ cell' = cell /\ \E n \in HCells : index' = [index EXCEPT ![t] = n]
            /\ \E l \in {"embed", "add", "lock"} : ahPc' = [ahPc EXCEPT ![t] = l]
  <2>1. HTyped
    BY DEF HInv
  <2>2. index[t] \in HCells /\ 1 \in HCells /\ (index[t] < BucketSize => index[t] + 1 \in HCells)
    BY <2>1 DEF HTyped, HCells
  <2>3. ahPc[t] = "embed" => ahPc = [ahPc EXCEPT ![t] = "embed"]
    BY <2>1 DEF HTyped
  <2> QED  BY <2>2, <2>3 DEF H!ReadCell, H!Goto, H!Find, H!table, H!lock
<1>2. HTyped /\ HHandles
  BY DEF HInv
<1>3. HTyped'
  <2>1. <<"embed", index[t]>> \in {"embed"} \X HCells
    BY <1>2 DEF HTyped
  <2>2. ahPc' \in [MapUsers -> {"out", "embed", "add", "lock", "use", "publish", "moveVal", "moveAddr"}]
    BY <1>1, <1>2 DEF HTyped
  <2>3. index' \in [MapUsers -> HCells]
    BY <1>1, <1>2 DEF HTyped
  <2>4. cell' \in [MapUsers -> {H!NoCell} \union ({"embed"} \X HCells) \union ({"add"} \X (Nat \ {0}))]
    BY <1>1, <1>2, <2>1 DEF HTyped
  <2> QED  BY <1>1, <1>2, <2>2, <2>3, <2>4 DEF HTyped
<1>4. \A u \in MapUsers \ {t} : /\ ahPc'[u] = ahPc[u] /\ handle'[u] = handle[u]
                                /\ cell'[u] = cell[u] /\ created'[u] = created[u]
  BY <1>1, <1>2 DEF HTyped
<1>5. /\ ~created[t] /\ ~handle[t].remove /\ handle[t].addr # 0
  BY <1>1, <1>2 DEF HHandles
<1>6. (ahPc'[t] \in {"embed", "add", "lock"} /\ cell'[t] = H!NoCell)
      \/ (ahPc'[t] = "use" /\ cells[index[t]] = handle[t].addr /\ cell'[t] = <<"embed", index[t]>>)
  BY <1>1, <1>2 DEF HTyped, HHandles
<1>7. ~HWrites(t) /\ ~HWrites(t)' /\ ~HMoves(t)' /\ ~HMakes(t)' /\ ~HRemoves(t)'
  BY <1>1, <1>5, <1>6 DEF HWrites, HMakes, HRemoves, HMoves
<1>8. HTable' /\ HMade' /\ HMoved' /\ \A u \in MapUsers : HWrites(u)' => writer' = u
  BY <1>1, <1>3, <1>4, <1>7, HQuiet
<1>9. \A u \in MapUsers \ {t} : HFinds(u)' = HFinds(u) /\ HRemoves(u)' = HRemoves(u)
                                 /\ HMoves(u)' = HMoves(u) /\ HMakes(u)' = HMakes(u)
  BY <1>1, <1>4 DEF HFinds, HRemoves, HMoves, HMakes
<1>10. HHandles'
  BY <1>1, <1>2, <1>4, <1>5, <1>6, <1>7, <1>9 DEF HHandles
<1>11. HFinds(t)' => cell'[t][1] = "embed" /\ cells[cell'[t][2]] = handle[t].addr
  BY <1>6 DEF HFinds
<1>12. HLock' /\ HFound'
  BY <1>1, <1>4, <1>7, <1>8, <1>9, <1>11 DEF HInv, HLock, HFound
<1> QED  BY <1>3, <1>8, <1>10, <1>12 DEF HInv

LEMMA HReadAdd ==
  ASSUME HInv, NEW t \in MapUsers, H!ReadAdd(t) PROVE HInv'
<1> USE HAssumption
<1>1. HTyped /\ HHandles
  BY DEF HInv
<1>2. /\ ahPc[t] = "add" /\ writer = None
      /\ UNCHANGED <<cells, vals, add, cap, writer, handle, index, created>>
      /\ \/ \E n \in 1 .. Len(add) :
              /\ add[n].addr = handle[t].addr /\ cell' = [cell EXCEPT ![t] = <<"add", n>>]
              /\ ahPc' = [ahPc EXCEPT ![t] = "use"] /\ readers' = readers \union {t}
         \/ ahPc' = [ahPc EXCEPT ![t] = "lock"] /\ UNCHANGED <<cell, readers>>
  <2>1. DOMAIN add = 1 .. Len(add)
    BY <1>1 DEF HTyped
  <2> QED  BY <2>1 DEF H!ReadAdd, H!Goto, H!Find, H!InAdd, H!table
<1>3. HTyped'
  <2>1. \A n \in 1 .. Len(add) : <<"add", n>> \in {"add"} \X (Nat \ {0})
    OBVIOUS
  <2> QED  BY <1>1, <1>2, <2>1 DEF HTyped
<1>4. \A u \in MapUsers \ {t} : /\ ahPc'[u] = ahPc[u] /\ handle'[u] = handle[u]
                                /\ cell'[u] = cell[u] /\ created'[u] = created[u]
  BY <1>1, <1>2 DEF HTyped
<1>5. /\ ~created[t] /\ ~handle[t].remove /\ handle[t].addr # 0
  BY <1>1, <1>2 DEF HHandles
<1>6. (ahPc'[t] = "lock" /\ cell'[t] = H!NoCell)
      \/ (ahPc'[t] = "use" /\ cell'[t][1] = "add" /\ cell'[t][2] <= Len(add)
          /\ add[cell'[t][2]].addr = handle[t].addr /\ t \in readers')
  BY <1>1, <1>2 DEF HTyped, HHandles
<1>7. ~HWrites(t) /\ ~HWrites(t)' /\ ~HMoves(t)' /\ ~HMakes(t)' /\ ~HRemoves(t)'
  BY <1>2, <1>5, <1>6 DEF HWrites, HMakes, HRemoves, HMoves
<1>8. HTable' /\ HMade' /\ HMoved' /\ \A u \in MapUsers : HWrites(u)' => writer' = u
  BY <1>2, <1>3, <1>4, <1>7, HQuiet
<1>9. \A u \in MapUsers \ {t} : HFinds(u)' = HFinds(u) /\ HRemoves(u)' = HRemoves(u)
                                 /\ HMoves(u)' = HMoves(u) /\ HMakes(u)' = HMakes(u)
  BY <1>2, <1>4 DEF HFinds, HRemoves, HMoves, HMakes
<1>10. HHandles'
  BY <1>1, <1>2, <1>4, <1>5, <1>6, <1>7, <1>9 DEF HHandles
<1>11. HFinds(t)' => ahPc'[t] = "use"
  BY DEF HFinds
<1>12. readers \subseteq readers'
  BY <1>2
<1>13. HLock' /\ HFound'
  BY <1>2, <1>4, <1>6, <1>7, <1>8, <1>9, <1>11, <1>12 DEF HInv, HLock, HFound
<1> QED  BY <1>3, <1>8, <1>10, <1>13 DEF HInv

(* release() of a handle that changes nothing.                                 *)
LEMMA HReleaseFound ==
  ASSUME HInv, NEW t \in MapUsers, H!ReleaseFound(t) PROVE HInv'
<1> USE HAssumption
<1>1. HTyped /\ HHandles
  BY DEF HInv
<1>2. /\ ahPc[t] = "use" /\ ~created[t] /\ (cell[t] = H!NoCell \/ ~handle[t].remove)
      /\ readers' = readers \ {t} /\ ahPc' = [ahPc EXCEPT ![t] = "out"]
      /\ handle' = [handle EXCEPT ![t] = H!NoHandle] /\ cell' = [cell EXCEPT ![t] = H!NoCell]
      /\ index' = [index EXCEPT ![t] = 1] /\ UNCHANGED <<cells, vals, add, cap, writer, created>>
  BY DEF H!ReleaseFound, H!Finish, H!Goto, H!Find, H!table
<1>3. HTyped'
  <2>1. 1 \in HCells
    BY DEF HCells
  <2> QED  BY <1>1, <1>2, <2>1 DEF HTyped, H!NoHandle
<1>4. /\ ahPc'[t] = "out" /\ handle'[t].addr = 0 /\ ~handle'[t].remove
      /\ \A u \in MapUsers \ {t} : /\ ahPc'[u] = ahPc[u] /\ handle'[u] = handle[u]
                                   /\ cell'[u] = cell[u] /\ created'[u] = created[u]
  BY <1>1, <1>2 DEF HTyped, H!NoHandle
<1>5. ~HWrites(t) /\ ~HWrites(t)' /\ ~HMoves(t)' /\ ~HMakes(t)' /\ ~HRemoves(t)' /\ ~HFinds(t)'
  BY <1>2, <1>4 DEF HWrites, HMakes, HRemoves, HMoves, HFinds
<1>6. HTable' /\ HMade' /\ HMoved' /\ \A u \in MapUsers : HWrites(u)' => writer' = u
  BY <1>2, <1>3, <1>4, <1>5, HQuiet
<1>7. \A u \in MapUsers \ {t} : HFinds(u)' = HFinds(u) /\ HRemoves(u)' = HRemoves(u)
                                 /\ HMoves(u)' = HMoves(u) /\ HMakes(u)' = HMakes(u)
  BY <1>4 DEF HFinds, HRemoves, HMoves, HMakes
<1>8. HHandles'
  BY <1>1, <1>4, <1>5, <1>7 DEF HHandles
<1>9. HLock' /\ HFound'
  BY <1>2, <1>4, <1>5, <1>6, <1>7 DEF HInv, HLock, HFound
<1> QED  BY <1>3, <1>6, <1>8, <1>9 DEF HInv

(* Nobody writes while the lock is free, nor has found an element of the array.*)
LEMMA HAlone ==
  ASSUME HInv, writer = None, readers = {}, NEW u \in MapUsers
  PROVE  /\ ~HWrites(u) /\ ~HMakes(u) /\ ~HRemoves(u) /\ ~HMoves(u)
         /\ ~(HFinds(u) /\ cell[u][1] = "add")
BY HAssumption DEF HInv, HLock, HWrites

LEMMA HLocked ==
  ASSUME HInv, NEW t \in MapUsers, H!Locked(t) PROVE HInv'
<1> USE HAssumption
<1> DEFINE a == handle[t].addr
           there == \/ \E n \in HCells : cells[n] = a
                    \/ \E n \in 1 .. Len(add) : add[n].addr = a
<1>1. HTyped /\ HHandles /\ HLock /\ HTable /\ HFound
  BY DEF HInv
<1>0. DOMAIN add = 1 .. Len(add) /\ DOMAIN cells = HCells /\ Len(add) \in Nat
  BY <1>1 DEF HTyped
<1>2. /\ ahPc[t] = "lock" /\ writer = None /\ readers = {} /\ readers' = readers
      /\ UNCHANGED <<cells, vals, handle, index>>
  BY DEF H!Locked, H!Free
<1>3. there <=> H!InCells(a) # {} \/ H!InAdd(a) # {}
  BY <1>0 DEF H!InCells, H!InAdd
<1>4. ~created[t] /\ cell[t] = H!NoCell /\ a # 0
  BY <1>1, <1>2 DEF HHandles
<1>5. ~HWrites(t) /\ ~HFinds(t)
  BY <1>2, <1>4 DEF HWrites, HMakes, HRemoves, HMoves, HFinds
<1>6. ASSUME ahPc' \in [MapUsers -> {"out", "embed", "add", "lock", "use", "publish", "moveVal", "moveAddr"}],
             created' \in [MapUsers -> BOOLEAN],
             \A u \in MapUsers \ {t} : ahPc'[u] = ahPc[u] /\ cell'[u] = cell[u] /\ created'[u] = created[u]
      PROVE  \A u \in MapUsers \ {t} : /\ HFinds(u)' = HFinds(u) /\ HRemoves(u)' = HRemoves(u)
                                      /\ HMoves(u)' = HMoves(u) /\ HMakes(u)' = HMakes(u)
                                      /\ HWrites(u)' = HWrites(u)
  BY <1>2, <1>6 DEF HFinds, HRemoves, HMoves, HMakes, HWrites
(* It is there, to be removed.                                                 *)
<1>7. CASE /\ handle[t].remove /\ there /\ writer' = t /\ ahPc' = [ahPc EXCEPT ![t] = "use"]
           /\ UNCHANGED <<add, cap, created>>
           /\ \/ \E n \in HCells : cells[n] = a /\ cell' = [cell EXCEPT ![t] = <<"embed", n>>]
              \/ \E n \in 1 .. Len(add) : add[n].addr = a /\ cell' = [cell EXCEPT ![t] = <<"add", n>>]
  <2>1. HTyped'
    <3>1. cell' \in [MapUsers -> {H!NoCell} \union ({"embed"} \X HCells) \union ({"add"} \X (Nat \ {0}))]
      <4>1. /\ \A n \in HCells : <<"embed", n>> \in {"embed"} \X HCells
            /\ \A n \in 1 .. Len(add) : <<"add", n>> \in {"add"} \X (Nat \ {0})
        BY <1>0
      <4> QED  BY <1>1, <1>7, <4>1 DEF HTyped
    <3> QED  BY <1>1, <1>2, <1>7, <3>1 DEF HTyped
  <2>2. \A u \in MapUsers \ {t} : ahPc'[u] = ahPc[u] /\ cell'[u] = cell[u] /\ created'[u] = created[u]
    BY <1>1, <1>7 DEF HTyped
  <2>3. \A u \in MapUsers \ {t} : /\ HFinds(u)' = HFinds(u) /\ HRemoves(u)' = HRemoves(u)
                                  /\ HMoves(u)' = HMoves(u) /\ HMakes(u)' = HMakes(u)
                                  /\ HWrites(u)' = HWrites(u)
    BY <1>6, <2>1, <2>2 DEF HTyped
  <2>4. /\ ahPc'[t] = "use" /\ cell'[t] # H!NoCell
        /\ \/ cell'[t][1] = "embed" /\ cells[cell'[t][2]] = a
           \/ cell'[t][1] = "add" /\ cell'[t][2] <= Len(add) /\ add[cell'[t][2]].addr = a
    BY <1>1, <1>7 DEF HTyped, H!NoCell
  <2>5. ~HMakes(t)' /\ ~HMoves(t)' /\ ~HFinds(t)'
    BY <1>2, <1>4, <1>7, <2>4 DEF HMakes, HMoves, HFinds
  <2>6. HHandles'
    BY <1>1, <1>2, <1>4, <1>7, <2>2, <2>3, <2>4, <2>5 DEF HHandles
  <2>7. HLock'
    BY <1>2, <1>7, <2>2, <2>3, <2>5, HAlone DEF HLock
  <2>8. HTable'
    BY <1>1, <1>2, <1>7, HAlone DEF HTable
  <2>9. HMade' /\ HMoved'
    BY <1>2, <2>3, <2>5, HAlone DEF HMade, HMoved
  <2>10. HFound'
    BY <1>1, <1>2, <1>7, <2>2, <2>3, <2>4 DEF HFound
  <2> QED  BY <2>1, <2>6, <2>7, <2>8, <2>9, <2>10 DEF HInv
(* It is there and to be found, or not there and not to be made.               *)
<1>8. CASE /\ UNCHANGED <<cell, writer, add, cap, created>>
           /\ \/ ~handle[t].remove /\ ahPc' = [ahPc EXCEPT ![t] = "embed"]
              \/ ahPc' = [ahPc EXCEPT ![t] = "use"]
  <2>1. HTyped'
    BY <1>1, <1>2, <1>8 DEF HTyped
  <2>2. \A u \in MapUsers \ {t} : /\ ahPc'[u] = ahPc[u] /\ handle'[u] = handle[u]
                                  /\ cell'[u] = cell[u] /\ created'[u] = created[u]
    BY <1>1, <1>2, <1>8 DEF HTyped
  <2>3. \A u \in MapUsers \ {t} : /\ HFinds(u)' = HFinds(u) /\ HRemoves(u)' = HRemoves(u)
                                  /\ HMoves(u)' = HMoves(u) /\ HMakes(u)' = HMakes(u)
                                  /\ HWrites(u)' = HWrites(u)
    BY <1>6, <2>1, <2>2 DEF HTyped
  <2>4. /\ ~created'[t] /\ cell'[t] = H!NoCell /\ ahPc'[t] \in {"embed", "use"}
        /\ ahPc'[t] = "embed" => ~handle[t].remove
    BY <1>1, <1>4, <1>8 DEF HTyped
  <2>5. ~HMakes(t)' /\ ~HMoves(t)' /\ ~HFinds(t)' /\ ~HRemoves(t)' /\ ~HWrites(t)'
    BY <2>4 DEF HMakes, HMoves, HFinds, HRemoves, HWrites
  <2>6. HTable' /\ HMade' /\ HMoved' /\ \A u \in MapUsers : HWrites(u)' => writer' = u
    BY <1>2, <1>5, <1>8, <2>1, <2>2, <2>5, HQuiet
  <2>7. HHandles'
    BY <1>1, <1>2, <2>2, <2>3, <2>4, <2>5 DEF HHandles
  <2>8. HLock' /\ HFound'
    BY <1>1, <1>2, <1>8, <2>2, <2>3, <2>5, <2>6 DEF HLock, HFound
  <2> QED  BY <2>1, <2>6, <2>7, <2>8 DEF HInv
(* It is made.                                                                 *)
<1>9. CASE /\ ~there /\ ~handle[t].remove /\ created' = [created EXCEPT ![t] = TRUE]
           /\ writer' = t /\ ahPc' = [ahPc EXCEPT ![t] = "use"] /\ H!Place(t)
  <2>1. \/ /\ add' = add /\ cap' = cap
           /\ \E n \in HCells : cells[n] = 0 /\ cell' = [cell EXCEPT ![t] = <<"embed", n>>]
        \/ /\ add' = Append(add, [addr |-> 0, val |-> 0]) /\ cap' \in Nat
           /\ cell' = [cell EXCEPT ![t] = <<"add", Len(add) + 1>>]
    <3>1. (IF cap = 0 THEN InitCap ELSE IF Len(add) = cap THEN 2 * cap ELSE cap) \in Nat
      BY <1>1 DEF HTyped
    <3>2. H!Place(t)
      BY <1>9
    <3>3. \A n \in H!InCells(0) : n \in HCells /\ cells[n] = 0
      BY <1>0 DEF H!InCells
    <3> QED  BY <3>1, <3>2, <3>3 DEF H!Place, H!Find
  <2>2. /\ add' \in Seq(HElement) /\ Len(add') \in Nat /\ Len(add) <= Len(add')
        /\ \A n \in 1 .. Len(add) : add'[n] = add[n]
        /\ \A n \in 1 .. Len(add') : n \in 1 .. Len(add) \/ (n = Len(add) + 1 /\ add'[n].addr = 0 /\ add' # add)
    <3>1. CASE add' = add
      BY <1>0, <1>1, <3>1 DEF HTyped
    <3>2. CASE add' = Append(add, [addr |-> 0, val |-> 0])
      <4>1. [addr |-> 0, val |-> 0] \in HElement
        BY DEF HElement
      <4>2. /\ add' \in Seq(HElement) /\ Len(add') = Len(add) + 1
            /\ add'[Len(add) + 1] = [addr |-> 0, val |-> 0]
            /\ \A n \in 1 .. Len(add) : add'[n] = add[n]
        BY <1>1, <3>2, <4>1 DEF HTyped
      <4>3. add' # add
        BY <1>0, <4>2
      <4> QED  BY <1>0, <4>2, <4>3
    <3> QED  BY <2>1, <3>1, <3>2
  <2>3. /\ cell'[t] # H!NoCell /\ ahPc'[t] = "use" /\ created'[t]
        /\ \/ cell'[t][1] = "embed" /\ cells[cell'[t][2]] = 0 /\ add' = add
           \/ /\ cell'[t] = <<"add", Len(add')>> /\ cell'[t][1] = "add" /\ cell'[t][2] = Len(add')
              /\ Len(add') = Len(add) + 1 /\ add'[Len(add')].addr = 0
    <3>1. ahPc'[t] = "use" /\ created'[t]
      BY <1>1, <1>9 DEF HTyped
    <3>2. CASE \E n \in HCells : cells[n] = 0 /\ add' = add /\ cell' = [cell EXCEPT ![t] = <<"embed", n>>]
      BY <1>1, <3>1, <3>2 DEF HTyped, H!NoCell
    <3>3. CASE /\ add' = Append(add, [addr |-> 0, val |-> 0])
               /\ cell' = [cell EXCEPT ![t] = <<"add", Len(add) + 1>>]
      <4>1. cell'[t] = <<"add", Len(add) + 1>>
        BY <1>1, <3>3 DEF HTyped
      <4>2. Len(add') = Len(add) + 1 /\ add'[Len(add) + 1] = [addr |-> 0, val |-> 0]
        BY <1>1, <3>3 DEF HTyped
      <4> QED  BY <3>1, <4>1, <4>2 DEF H!NoCell
    <3> QED  BY <2>1, <3>2, <3>3
  <2>4. HTyped'
    <3>1. <<"add", Len(add) + 1>> \in {"add"} \X (Nat \ {0}) /\ \A n \in HCells : <<"embed", n>> \in {"embed"} \X HCells
      BY <1>0
    <3>2. cell' \in [MapUsers -> {H!NoCell} \union ({"embed"} \X HCells) \union ({"add"} \X (Nat \ {0}))]
      BY <1>1, <2>1, <3>1 DEF HTyped
    <3>3. cap' \in Nat
      BY <1>1, <2>1 DEF HTyped
    <3> QED  BY <1>1, <1>2, <1>9, <2>2, <3>2, <3>3 DEF HTyped
  <2>5. \A u \in MapUsers \ {t} : ahPc'[u] = ahPc[u] /\ cell'[u] = cell[u] /\ created'[u] = created[u]
    BY <1>1, <1>9, <2>1 DEF HTyped
  <2>6. \A u \in MapUsers \ {t} : /\ HFinds(u)' = HFinds(u) /\ HRemoves(u)' = HRemoves(u)
                                  /\ HMoves(u)' = HMoves(u) /\ HMakes(u)' = HMakes(u)
                                  /\ HWrites(u)' = HWrites(u)
    BY <1>6, <2>4, <2>5 DEF HTyped
  <2>7. HMakes(t)' /\ ~HFinds(t)' /\ ~HRemoves(t)' /\ ~HMoves(t)'
    BY <2>3 DEF HMakes, HFinds, HRemoves, HMoves
  <2>8. HHandles'
    BY <1>1, <1>2, <1>4, <1>9, <2>3, <2>5, <2>6, <2>7 DEF HHandles
  <2>9. HLock'
    BY <1>2, <1>9, <2>5, <2>6, <2>7, HAlone DEF HLock
  <2>10. HTable'
    <3>1. \A n \in 1 .. Len(add) : add[n].addr # 0
      BY <1>1, <1>2, HAlone DEF HTable
    <3>2. ASSUME NEW n \in 1 .. Len(add')
          PROVE  IF add'[n].addr = 0 THEN \E u \in MapUsers : HMakes(u)' /\ cell'[u] = <<"add", n>>
                 ELSE /\ add'[n].val = add'[n].addr
                      /\ \A m \in HCells : cells'[m] # add'[n].addr
                      /\ \A m \in 1 .. Len(add') : add'[m].addr = add'[n].addr => m = n
      <4>1. CASE n \in 1 .. Len(add)
        BY <1>1, <1>2, <2>2, <3>1, <4>1 DEF HTable
      <4>2. CASE n = Len(add) + 1 /\ add'[n].addr = 0 /\ add' # add
        BY <2>3, <2>7, <4>2
      <4> QED  BY <2>2, <4>1, <4>2
    <3> QED  BY <1>1, <1>2, <3>2 DEF HTable
  <2>11. HMade'
    <3>1. \A n \in HCells : cells'[n] # a
      BY <1>2, <1>9
    <3>2. \A n \in 1 .. Len(add') : add'[n].addr # a
      BY <1>4, <1>9, <2>2
    <3>3. cell'[t][1] = "embed" => cells[cell'[t][2]] = 0
      BY <2>3
    <3>4. cell'[t][1] = "add" => cell'[t][2] = Len(add') /\ add'[Len(add')].addr = 0 /\ Len(add') # 0
      BY <1>0, <2>3
    <3> QED  BY <1>2, <2>3, <2>6, <3>1, <3>2, <3>3, <3>4, HAlone DEF HMade
  <2>12. HMoved'
    BY <1>2, <2>6, <2>7, HAlone DEF HMoved
  <2>13. HFound'
    BY <1>1, <1>2, <2>5, <2>6, <2>7, HAlone DEF HFound
  <2> QED  BY <2>4, <2>8, <2>9, <2>10, <2>11, <2>12, <2>13 DEF HInv
<1> HIDE DEF a, there
<1> QED  BY <1>0, <1>3, <1>7, <1>8, <1>9 DEF H!Locked, H!Goto, H!Find, H!InCells, H!InAdd, a

(* Who writes is alone with the array, and the only one that writes.           *)
LEMMA HWriter ==
  ASSUME HInv, NEW t \in MapUsers, HWrites(t), NEW u \in MapUsers \ {t}
  PROVE  /\ ~HWrites(u) /\ ~HMakes(u) /\ ~HRemoves(u) /\ ~HMoves(u)
         /\ ~(HFinds(u) /\ cell[u][1] = "add")
BY HAssumption DEF HInv, HLock, HWrites

(* What a handle has found is not what one writes to or removes.               *)
LEMMA HFoundElsewhere ==
  ASSUME HInv, NEW t \in MapUsers, HWrites(t), NEW u \in MapUsers \ {t}, HFinds(u)
  PROVE  /\ cell[u][1] = "embed" /\ cell[u][2] \in HCells
         /\ cells[cell[u][2]] = handle[u].addr /\ handle[u].addr # 0
         /\ cell[t][1] = "embed" => cell[u][2] # cell[t][2]
<1>0. HTyped /\ HHandles /\ HFound /\ HMade /\ HMoved
  BY DEF HInv
<1>1. cell[u][1] = "embed" /\ cell[u][2] \in HCells
  BY <1>0, HWriter, HPlaces DEF HFinds
<1>2. cells[cell[u][2]] = handle[u].addr /\ handle[u].addr # 0
  BY <1>0, <1>1 DEF HFound, HHandles, HFinds
<1>3. ASSUME cell[t][1] = "embed" PROVE cell[u][2] # cell[t][2]
  <2>1. CASE HMakes(t) \/ HMoves(t)
    BY <1>0, <1>2, <1>3, <2>1 DEF HMade, HMoved
  <2>2. CASE HRemoves(t)
    <3>1. cells[cell[t][2]] = handle[t].addr /\ handle[t].remove /\ handle[t].addr # 0
      BY <1>0, <1>3, <2>2 DEF HFound, HRemoves, HHandles
    <3> QED  BY <1>0, <1>2, <3>1 DEF HHandles
  <2> QED  BY <2>1, <2>2 DEF HWrites
<1> QED  BY <1>1, <1>2, <1>3

(* A step of the writer: what it must show.                                    *)
LEMMA HWriting ==
  ASSUME HInv, NEW t \in MapUsers, HWrites(t), HTyped', readers' = readers,
         \A u \in MapUsers \ {t} : /\ ahPc'[u] = ahPc[u] /\ handle'[u] = handle[u]
                                   /\ cell'[u] = cell[u] /\ created'[u] = created[u],
         \A n \in HCells : n # cell[t][2] \/ cell[t][1] # "embed" => cells'[n] = cells[n],
         \/ handle'[t] = handle[t] /\ cell'[t] = cell[t] /\ created'[t] = created[t] /\ writer' = t
            /\ \/ ahPc[t] = "use" /\ created[t] /\ ahPc'[t] = "publish"
               \/ ahPc[t] \in {"use", "moveVal"} /\ ~created[t] /\ HMoves(t)' /\ cell[t][1] = "embed"
         \/ handle'[t] = H!NoHandle /\ ahPc'[t] = "out" /\ writer' = None
  PROVE  /\ HHandles' /\ HLock' /\ HFound' /\ ~HFinds(t)' /\ ~HRemoves(t)'
         /\ \A u \in MapUsers \ {t} : ~HMakes(u)' /\ ~HMoves(u)' /\ ~HRemoves(u)'
<1> USE HAssumption
<1>0. HTyped /\ HHandles /\ HLock /\ HFound
  BY DEF HInv
<1>1. \A u \in MapUsers \ {t} : /\ HFinds(u)' = HFinds(u) /\ ~HRemoves(u)'
                                /\ ~HMoves(u)' /\ ~HMakes(u)' /\ ~HWrites(u)'
  <2>1. \A u \in MapUsers \ {t} : ~HRemoves(u) /\ ~HMoves(u) /\ ~HMakes(u)
    BY HWriter
  <2> QED  BY <2>1 DEF HFinds, HRemoves, HMoves, HMakes, HWrites
<1>2. ~HFinds(t)' /\ ~HRemoves(t)'
  BY DEF HFinds, HRemoves, HMoves
<1>3. HHandles'
  <2>1. CASE handle'[t] = handle[t] /\ cell'[t] = cell[t] /\ created'[t] = created[t]
             /\ \/ ahPc[t] = "use" /\ created[t] /\ ahPc'[t] = "publish"
                \/ ahPc[t] \in {"use", "moveVal"} /\ ~created[t] /\ HMoves(t)' /\ cell[t][1] = "embed"
    <3>1. /\ handle[t].addr # 0 /\ ahPc'[t] \in {"publish", "moveVal", "moveAddr"}
          /\ ahPc'[t] = "publish" => HMakes(t) /\ created[t]
          /\ ahPc'[t] # "publish" => ~created[t] /\ cell[t][1] = "embed"
      BY <1>0, <2>1 DEF HHandles, HMoves, HMakes
    <3>2. HMakes(t)' => HMakes(t)
      BY <2>1, <3>1 DEF HMakes
    <3> QED  BY <1>0, <1>1, <2>1, <3>1, <3>2 DEF HHandles, HMoves
  <2>2. CASE handle'[t] = H!NoHandle /\ ahPc'[t] = "out"
    <3>1. handle'[t].addr = 0 /\ ~handle'[t].remove /\ ~HMakes(t)' /\ ~HMoves(t)'
      BY <2>2 DEF H!NoHandle, HMakes, HMoves
    <3> QED  BY <1>0, <1>1, <2>2, <3>1 DEF HHandles
  <2> QED  BY <2>1, <2>2
<1>4. HLock'
  <2>1. writer = t /\ readers = {}
    BY <1>0 DEF HLock
  <2>2. HWrites(t)' => writer' = t
    BY DEF HWrites, HMakes, HMoves, HRemoves
  <2>3. \A u \in MapUsers : ~(HFinds(u)' /\ cell'[u][1] = "add")
    BY <1>1, <1>2, HWriter
  <2> QED  BY <1>1, <2>1, <2>2, <2>3 DEF HLock
<1>5. HFound'
  <2> SUFFICES ASSUME NEW u \in MapUsers, HRemoves(u)' \/ HFinds(u)'
               PROVE  /\ cell'[u][1] = "embed" => cells'[cell'[u][2]] = handle'[u].addr
                      /\ cell'[u][1] = "add" => cell'[u][2] <= Len(add') /\ add'[cell'[u][2]].addr = handle'[u].addr
    BY DEF HFound
  <2>1. u # t /\ HFinds(u)
    BY <1>1, <1>2
  <2> QED  BY <2>1, HFoundElsewhere
<1> QED  BY <1>1, <1>2, <1>3, <1>4, <1>5

LEMMA HWrite ==
  ASSUME HInv, NEW t \in MapUsers, H!Write(t) PROVE HInv'
<1> USE HAssumption
<1> DEFINE a == handle[t].addr  n == cell[t][2]
<1>0. HTyped /\ HHandles /\ HLock /\ HTable /\ HMade
  BY DEF HInv
<1>1. /\ ahPc[t] = "use" /\ created[t] /\ ahPc' = [ahPc EXCEPT ![t] = "publish"]
      /\ UNCHANGED <<cells, cap, writer, readers, handle, index, cell, created>>
      /\ IF cell[t][1] = "embed" THEN vals' = [vals EXCEPT ![n] = a] /\ UNCHANGED add
         ELSE add' = [add EXCEPT ![n].val = a] /\ UNCHANGED vals
  BY DEF H!Write, H!Goto, H!lock
<1>2. HMakes(t) /\ HWrites(t) /\ a # 0 /\ a \in Addrs /\ writer = t
  BY <1>0, <1>1 DEF HMakes, HWrites, HHandles, HLock, HTyped
<1>3. /\ cell[t][1] = "embed" => n \in HCells /\ cells[n] = 0
      /\ cell[t][1] # "embed" => cell[t][1] = "add" /\ n = Len(add) /\ n \in 1 .. Len(add) /\ add[n].addr = 0
                                  /\ cell[t] = <<"add", n>>
      /\ Len(add) \in Nat
  BY <1>0, <1>2, HPlaces DEF HMade, HHandles
<1>4. /\ add' \in Seq(HElement) /\ Len(add') = Len(add)
      /\ \A m \in 1 .. Len(add) : add'[m].addr = add[m].addr
      /\ \A m \in 1 .. Len(add) : m # n \/ cell[t][1] = "embed" => add'[m] = add[m]
      /\ cell[t][1] # "embed" => add'[n].val = a
  <2>1. CASE cell[t][1] = "embed"
    BY <1>0, <1>1, <2>1 DEF HTyped
  <2>2. CASE cell[t][1] # "embed"
    <3>1. /\ add' = [add EXCEPT ![n] = [add[n] EXCEPT !.val = a]] /\ n \in 1 .. Len(add)
      BY <1>1, <1>3, <2>2
    <3>2. \A m \in 1 .. Len(add) : add[m] \in HElement
      BY <1>0, SeqBasics DEF HTyped
    <3>3. [add[n] EXCEPT !.val = a] \in HElement /\ [add[n] EXCEPT !.val = a].addr = add[n].addr
          /\ [add[n] EXCEPT !.val = a].val = a
      BY <1>2, <3>1, <3>2 DEF HElement
    <3>4. add \in Seq(HElement)
      BY <1>0 DEF HTyped
    <3> HIDE DEF n, a
    <3>5. add' \in Seq(HElement) /\ Len(add') = Len(add)
      BY <3>1, <3>3, <3>4
    <3> QED  BY <2>2, <3>1, <3>3, <3>4, <3>5
  <2> QED  BY <2>1, <2>2
<1>5. HTyped'
  <2>1. vals' \in [HCells -> Addrs \union {0}]
    BY <1>0, <1>1, <1>2 DEF HTyped
  <2> QED  BY <1>0, <1>1, <1>4, <2>1 DEF HTyped
<1>6. /\ ahPc'[t] = "publish"
      /\ \A u \in MapUsers \ {t} : /\ ahPc'[u] = ahPc[u] /\ handle'[u] = handle[u]
                                   /\ cell'[u] = cell[u] /\ created'[u] = created[u]
  BY <1>0, <1>1 DEF HTyped
<1>7. /\ HHandles' /\ HLock' /\ HFound'
      /\ \A u \in MapUsers \ {t} : ~HMakes(u)' /\ ~HMoves(u)' /\ ~HRemoves(u)'
  BY <1>1, <1>2, <1>5, <1>6, HWriting
<1>8. HMakes(t)' /\ ~HMoves(t)'
  BY <1>1, <1>6 DEF HMakes, HMoves
<1>9. HMade'
  <2>1. \A m \in HCells : cells[m] # a
    BY <1>0, <1>2 DEF HMade
  <2>2. \A m \in 1 .. Len(add) : add'[m].addr # a
    BY <1>0, <1>2, <1>4 DEF HMade
  <2>3. cell[t][1] = "embed" => vals'[n] = a
    BY <1>0, <1>1, <1>3 DEF HTyped
  <2> QED  BY <1>1, <1>3, <1>4, <1>7, <2>1, <2>2, <2>3 DEF HMade
<1>10. HTable'
  <2>1. \A m \in HCells : cells'[m] # 0 => vals'[m] = cells'[m]
    BY <1>0, <1>1, <1>3 DEF HTable, HTyped
  <2>2. ASSUME NEW m \in 1 .. Len(add'), add'[m].addr = 0 PROVE HMakes(t)' /\ cell'[t] = <<"add", m>>
    <3>1. \E u \in MapUsers : HMakes(u) /\ cell[u] = <<"add", m>>
      BY <1>0, <1>4, <2>2 DEF HTable
    <3> QED  BY <1>1, <1>2, <1>8, <3>1, HWriter
  <2>3. \A m \in 1 .. Len(add') : add'[m].addr # 0 => add'[m] = add[m]
    BY <1>3, <1>4
  <2> QED  BY <1>0, <1>1, <1>4, <2>1, <2>2, <2>3 DEF HTable
<1>11. HMoved'
  BY <1>7, <1>8 DEF HMoved
<1> QED  BY <1>5, <1>7, <1>9, <1>10, <1>11 DEF HInv

LEMMA HReleaseCreated ==
  ASSUME HInv, NEW t \in MapUsers, H!ReleaseCreated(t) PROVE HInv'
<1> USE HAssumption
<1> DEFINE a == handle[t].addr  n == cell[t][2]
<1>0. HTyped /\ HHandles /\ HLock /\ HTable /\ HMade
  BY DEF HInv
<1>1. /\ ahPc[t] = "publish" /\ ahPc' = [ahPc EXCEPT ![t] = "out"] /\ writer' = None
      /\ handle' = [handle EXCEPT ![t] = H!NoHandle] /\ cell' = [cell EXCEPT ![t] = H!NoCell]
      /\ index' = [index EXCEPT ![t] = 1] /\ UNCHANGED <<vals, cap, readers, created>>
      /\ IF cell[t][1] = "embed" THEN cells' = [cells EXCEPT ![n] = a] /\ UNCHANGED add
         ELSE add' = [add EXCEPT ![n].addr = a] /\ UNCHANGED cells
  BY DEF H!ReleaseCreated, H!Finish, H!Goto, H!Find
<1>2. HMakes(t) /\ HWrites(t) /\ a # 0 /\ a \in Addrs
  BY <1>0, <1>1 DEF HMakes, HWrites, HHandles, HTyped
<1>3. /\ cell[t][1] = "embed" => n \in HCells /\ cells[n] = 0 /\ vals[n] = a
      /\ cell[t][1] # "embed" => cell[t][1] = "add" /\ n = Len(add) /\ n \in 1 .. Len(add) /\ add[n].addr = 0
                                  /\ add[n].val = a /\ cell[t] = <<"add", n>>
      /\ Len(add) \in Nat
  BY <1>0, <1>1, <1>2, HPlaces DEF HMade, HHandles
<1>4. /\ add' \in Seq(HElement) /\ Len(add') = Len(add)
      /\ \A m \in 1 .. Len(add) : m # n \/ cell[t][1] = "embed" => add'[m] = add[m]
      /\ cell[t][1] # "embed" => add'[n].val = a /\ add'[n].addr = a
  <2>1. CASE cell[t][1] = "embed"
    BY <1>0, <1>1, <2>1 DEF HTyped
  <2>2. CASE cell[t][1] # "embed"
    <3>1. /\ add' = [add EXCEPT ![n] = [add[n] EXCEPT !.addr = a]] /\ n \in 1 .. Len(add)
      BY <1>1, <1>3, <2>2
    <3>2. \A m \in 1 .. Len(add) : add[m] \in HElement
      BY <1>0, SeqBasics DEF HTyped
    <3>3. [add[n] EXCEPT !.addr = a] \in HElement /\ [add[n] EXCEPT !.addr = a].val = a
          /\ [add[n] EXCEPT !.addr = a].addr = a
      BY <1>2, <1>3, <2>2, <3>1, <3>2 DEF HElement
    <3>4. add \in Seq(HElement)
      BY <1>0 DEF HTyped
    <3> HIDE DEF n, a
    <3>5. add' \in Seq(HElement) /\ Len(add') = Len(add)
      BY <3>1, <3>3, <3>4
    <3> QED  BY <2>2, <3>1, <3>3, <3>4, <3>5
  <2> QED  BY <2>1, <2>2
<1>5. HTyped'
  <2>1. cells' \in [HCells -> Addrs \union {0}]
    BY <1>0, <1>1, <1>2 DEF HTyped
  <2>2. 1 \in HCells
    BY DEF HCells
  <2> QED  BY <1>0, <1>1, <1>4, <2>1, <2>2 DEF HTyped, H!NoHandle
<1>6. /\ ahPc'[t] = "out" /\ handle'[t] = H!NoHandle
      /\ \A u \in MapUsers \ {t} : /\ ahPc'[u] = ahPc[u] /\ handle'[u] = handle[u]
                                   /\ cell'[u] = cell[u] /\ created'[u] = created[u]
  BY <1>0, <1>1 DEF HTyped
<1>7. \A m \in HCells : m # cell[t][2] \/ cell[t][1] # "embed" => cells'[m] = cells[m]
  BY <1>0, <1>1 DEF HTyped
<1>8. /\ HHandles' /\ HLock' /\ HFound'
      /\ \A u \in MapUsers \ {t} : ~HMakes(u)' /\ ~HMoves(u)' /\ ~HRemoves(u)'
  BY <1>1, <1>2, <1>5, <1>6, <1>7, HWriting
<1>9. ~HMakes(t)' /\ ~HMoves(t)'
  BY <1>6 DEF HMakes, HMoves
<1>10. HMade' /\ HMoved'
  BY <1>8, <1>9 DEF HMade, HMoved
<1>11. HTable'
  <2>0. /\ \A m \in HCells : cells[m] # a
        /\ \A m \in 1 .. Len(add) : add[m].addr # a
    BY <1>0, <1>2 DEF HMade
  <2>1. \A m \in 1 .. Len(add) : add[m].addr = 0 => cell[t] = <<"add", m>>
    <3>1. \A m \in 1 .. Len(add) : add[m].addr = 0 => \E u \in MapUsers : HMakes(u) /\ cell[u] = <<"add", m>>
      BY <1>0 DEF HTable
    <3> QED  BY <1>2, <3>1, HWriter
  <2>2. CASE cell[t][1] = "embed"
    <3>1. \A m \in 1 .. Len(add) : add[m].addr # 0
      BY <2>1, <2>2
    <3>2. /\ add' = add /\ cells'[n] = a /\ \A m \in HCells \ {n} : cells'[m] = cells[m]
      BY <1>0, <1>1, <1>3, <2>2 DEF HTyped
    <3> HIDE DEF a, n
    <3> QED  BY <1>0, <1>1, <1>3, <2>0, <2>2, <3>1, <3>2 DEF HTable
  <2>3. CASE cell[t][1] # "embed"
    <3>1. \A m \in 1 .. Len(add) : m # n => add[m].addr # 0
      BY <1>3, <2>1, <2>3
    <3>2. cells' = cells /\ vals' = vals
      BY <1>1, <2>3
    <3> HIDE DEF a, n
    <3>3. ASSUME NEW m \in 1 .. Len(add'), m # n
          PROVE  /\ add'[m].addr # 0 /\ add'[m].val = add'[m].addr
                 /\ \A k \in HCells : cells'[k] # add'[m].addr
                 /\ \A k \in 1 .. Len(add') : add'[k].addr = add'[m].addr => k = m
      BY <1>0, <1>3, <1>4, <2>0, <2>3, <3>1, <3>2, <3>3 DEF HTable
    <3>4. /\ add'[n].addr # 0 /\ add'[n].val = add'[n].addr
          /\ \A k \in HCells : cells'[k] # add'[n].addr
          /\ \A k \in 1 .. Len(add') : add'[k].addr = add'[n].addr => k = n
      BY <1>2, <1>3, <1>4, <2>0, <2>3, <3>2
    <3> QED  BY <1>0, <3>2, <3>3, <3>4 DEF HTable
  <2> QED  BY <2>2, <2>3
<1> QED  BY <1>5, <1>8, <1>10, <1>11 DEF HInv

(* Nobody makes an element while another is removed, and none is empty then.   *)
LEMMA HFull ==
  ASSUME HInv, NEW t \in MapUsers, HRemoves(t) \/ HMoves(t)
  PROVE  /\ \A u \in MapUsers : ~HMakes(u)
         /\ \A m \in 1 .. Len(add) : add[m].addr # 0
         /\ HWrites(t) /\ writer = t /\ ~created[t]
<1>1. HWrites(t) /\ ~created[t] /\ writer = t /\ ~HMakes(t)
  BY DEF HWrites, HRemoves, HMoves, HMakes, HInv, HHandles, HLock
<1>2. \A u \in MapUsers : ~HMakes(u)
  BY <1>1, HWriter
<1> QED  BY <1>1, <1>2 DEF HInv, HTable

(* The array without its last element.                                         *)
LEMMA HShorter ==
  ASSUME NEW s \in Seq(HElement), Len(s) # 0
  PROVE  LET r == SubSeq(s, 1, Len(s) - 1) IN
         /\ r \in Seq(HElement) /\ Len(r) = Len(s) - 1
         /\ \A m \in 1 .. Len(s) - 1 : r[m] = s[m]
<1> DEFINE k == Len(s) - 1
<1>1. k \in Nat /\ k <= Len(s) /\ Len(s) \in Nat
  OBVIOUS
<1>2. 1 \in 1 .. Len(s) + 1 /\ k \in 1 - 1 .. Len(s)
  BY <1>1
<1> HIDE DEF k
<1>3. /\ SubSeq(s, 1, k) \in Seq(HElement) /\ Len(SubSeq(s, 1, k)) = IF 1 <= k THEN k - 1 + 1 ELSE 0
      /\ \A m \in 1 .. k - 1 + 1 : SubSeq(s, 1, k)[m] = s[1 + m - 1]
  BY <1>2, SubSeqProperties
<1>4. Len(SubSeq(s, 1, k)) = k /\ \A m \in 1 .. k : SubSeq(s, 1, k)[m] = s[m]
  BY <1>1, <1>3
<1> QED  BY <1>3, <1>4 DEF k

LEMMA HRemoveAdd ==
  ASSUME HInv, NEW t \in MapUsers, H!RemoveAdd(t) PROVE HInv'
<1> USE HAssumption
<1> DEFINE n == cell[t][2]  last == add[Len(add)]
<1>0. HTyped /\ HHandles /\ HTable /\ HFound
  BY DEF HInv
<1>1. /\ ahPc[t] = "use" /\ handle[t].remove /\ cell[t][1] = "add"
      /\ ahPc' = [ahPc EXCEPT ![t] = "out"] /\ writer' = None
      /\ handle' = [handle EXCEPT ![t] = H!NoHandle] /\ cell' = [cell EXCEPT ![t] = H!NoCell]
      /\ index' = [index EXCEPT ![t] = 1] /\ UNCHANGED <<cells, vals, cap, readers, created>>
      /\ add' = SubSeq([add EXCEPT ![n] = last], 1, Len(add) - 1)
  BY DEF H!RemoveAdd, H!Finish, H!Goto, H!Find
<1>2. HRemoves(t) /\ HWrites(t) /\ \A m \in 1 .. Len(add) : add[m].addr # 0
  <2>1. ~created[t] /\ cell[t] # H!NoCell
    BY <1>0, <1>1, HPlaces DEF HHandles, HMakes
  <2>2. HRemoves(t)
    BY <1>1, <2>1 DEF HRemoves
  <2> QED  BY <2>2, HFull
<1>3. n \in 1 .. Len(add) /\ Len(add) \in Nat \ {0}
  BY <1>0, <1>1, <1>2, HPlaces DEF HFound
<1>4. /\ add' \in Seq(HElement) /\ Len(add') = Len(add) - 1
      /\ \A m \in 1 .. Len(add) - 1 : add'[m] = IF m = n THEN last ELSE add[m]
  <2> DEFINE r == [add EXCEPT ![n] = last]
  <2>1. add \in Seq(HElement) /\ last \in HElement
    BY <1>0, <1>3, SeqBasics DEF HTyped
  <2> HIDE DEF n, last
  <2>2. /\ r \in Seq(HElement) /\ Len(r) = Len(add)
        /\ \A m \in 1 .. Len(add) : r[m] = IF m = n THEN last ELSE add[m]
    BY <1>3, <2>1
  <2>3. add' = SubSeq(r, 1, Len(r) - 1)
    BY <1>1, <2>2 DEF n, last
  <2> HIDE DEF r
  <2>4. Len(r) # 0
    BY <1>3, <2>2
  <2>5. /\ add' \in Seq(HElement) /\ Len(add') = Len(r) - 1
        /\ \A m \in 1 .. Len(r) - 1 : add'[m] = r[m]
    BY <2>2, <2>3, <2>4, HShorter
  <2> QED  BY <1>3, <2>2, <2>5
<1>5. HTyped'
  <2>1. 1 \in HCells
    BY DEF HCells
  <2> QED  BY <1>0, <1>1, <1>4, <2>1 DEF HTyped, H!NoHandle
<1>6. /\ ahPc'[t] = "out" /\ handle'[t] = H!NoHandle
      /\ \A u \in MapUsers \ {t} : /\ ahPc'[u] = ahPc[u] /\ handle'[u] = handle[u]
                                   /\ cell'[u] = cell[u] /\ created'[u] = created[u]
  BY <1>0, <1>1 DEF HTyped
<1>7. \A m \in HCells : cells'[m] = cells[m]
  BY <1>1
<1>8. /\ HHandles' /\ HLock' /\ HFound'
      /\ \A u \in MapUsers \ {t} : ~HMakes(u)' /\ ~HMoves(u)' /\ ~HRemoves(u)'
  BY <1>1, <1>2, <1>5, <1>6, <1>7, HWriting
<1>9. ~HMakes(t)' /\ ~HMoves(t)'
  BY <1>6 DEF HMakes, HMoves
<1>10. HMade' /\ HMoved'
  BY <1>8, <1>9 DEF HMade, HMoved
<1>11. HTable'
  <2> DEFINE at(m) == IF m = n THEN Len(add) ELSE m
  <2>1. \A m \in 1 .. Len(add') : at(m) \in 1 .. Len(add) /\ add'[m] = add[at(m)]
    BY <1>3, <1>4
  <2>2. \A m, k \in 1 .. Len(add') : at(m) = at(k) => m = k
    BY <1>3, <1>4
  <2> HIDE DEF at
  <2>3. ASSUME NEW m \in 1 .. Len(add')
        PROVE  /\ add'[m].addr # 0 /\ add'[m].val = add'[m].addr
               /\ \A k \in HCells : cells'[k] # add'[m].addr
               /\ \A k \in 1 .. Len(add') : add'[k].addr = add'[m].addr => k = m
    BY <1>0, <1>1, <1>2, <2>1, <2>2 DEF HTable
  <2> QED  BY <1>0, <1>1, <2>3 DEF HTable
<1> QED  BY <1>5, <1>8, <1>10, <1>11 DEF HInv

LEMMA HRemoveCell ==
  ASSUME HInv, NEW t \in MapUsers, H!RemoveCell(t) PROVE HInv'
<1> USE HAssumption
<1> DEFINE n == cell[t][2]
<1>0. HTyped /\ HHandles /\ HTable /\ HFound
  BY DEF HInv
<1>1. /\ ahPc[t] = "use" /\ handle[t].remove /\ cell[t][1] = "embed"
      /\ ahPc' = [ahPc EXCEPT ![t] = "moveVal"] /\ cells' = [cells EXCEPT ![n] = 0]
      /\ UNCHANGED <<vals, add, cap, writer, readers, handle, index, cell, created>>
  BY DEF H!RemoveCell, H!Goto, H!lock
<1>2. HRemoves(t) /\ HWrites(t) /\ ~created[t] /\ writer = t /\ \A m \in 1 .. Len(add) : add[m].addr # 0
  <2>1. ~created[t] /\ cell[t] # H!NoCell
    BY <1>0, <1>1, HPlaces DEF HHandles, HMakes
  <2>2. HRemoves(t)
    BY <1>1, <2>1 DEF HRemoves
  <2> QED  BY <2>2, HFull
<1>3. n \in HCells /\ cells'[n] = 0 /\ \A m \in HCells \ {n} : cells'[m] = cells[m]
  BY <1>0, <1>1, HPlaces DEF HTyped
<1>4. HTyped'
  BY <1>0, <1>1 DEF HTyped
<1>5. /\ ahPc'[t] = "moveVal"
      /\ \A u \in MapUsers \ {t} : /\ ahPc'[u] = ahPc[u] /\ handle'[u] = handle[u]
                                   /\ cell'[u] = cell[u] /\ created'[u] = created[u]
  BY <1>0, <1>1 DEF HTyped
<1>6. HMoves(t)' /\ ~HMakes(t)'
  BY <1>5 DEF HMoves, HMakes
<1>7. /\ HHandles' /\ HLock' /\ HFound'
      /\ \A u \in MapUsers \ {t} : ~HMakes(u)' /\ ~HMoves(u)' /\ ~HRemoves(u)'
  BY <1>1, <1>2, <1>3, <1>4, <1>5, <1>6, HWriting
<1>8. HMade' /\ HMoved'
  BY <1>1, <1>3, <1>5, <1>6, <1>7 DEF HMade, HMoved
<1>9. HTable'
  BY <1>0, <1>1, <1>2, <1>3 DEF HTable
<1> QED  BY <1>4, <1>7, <1>8, <1>9 DEF HInv

LEMMA HMoveVal ==
  ASSUME HInv, NEW t \in MapUsers, H!MoveVal(t) PROVE HInv'
<1> USE HAssumption
<1> DEFINE n == cell[t][2]
<1>0. HTyped /\ HHandles /\ HTable /\ HMoved
  BY DEF HInv
<1>1. /\ ahPc[t] = "moveVal" /\ ahPc' = [ahPc EXCEPT ![t] = "moveAddr"]
      /\ UNCHANGED <<cells, add, cap, writer, readers, handle, index, cell, created>>
      /\ vals' = IF add = << >> THEN vals ELSE [vals EXCEPT ![n] = add[Len(add)].val]
  BY DEF H!MoveVal, H!Goto, H!lock
<1>2. /\ HMoves(t) /\ HWrites(t) /\ ~created[t] /\ writer = t /\ cell[t][1] = "embed"
      /\ \A m \in 1 .. Len(add) : add[m].addr # 0
  <2>1. HMoves(t)
    BY <1>1 DEF HMoves
  <2> QED  BY <1>0, <2>1, HFull DEF HHandles
<1>3. n \in HCells /\ cells[n] = 0 /\ Len(add) \in Nat /\ (add = << >> <=> Len(add) = 0)
  BY <1>0, <1>2, HPlaces DEF HMoved, HTyped
<1>4. HTyped'
  <2>1. Len(add) # 0 => add[Len(add)].val \in Addrs \union {0}
    <3>1. Len(add) # 0 => add[Len(add)] \in HElement
      BY <1>0, <1>3, SeqBasics DEF HTyped
    <3> QED  BY <3>1 DEF HElement
  <2> QED  BY <1>0, <1>1, <1>3, <2>1 DEF HTyped
<1>5. /\ ahPc'[t] = "moveAddr"
      /\ \A u \in MapUsers \ {t} : /\ ahPc'[u] = ahPc[u] /\ handle'[u] = handle[u]
                                   /\ cell'[u] = cell[u] /\ created'[u] = created[u]
  BY <1>0, <1>1 DEF HTyped
<1>6. HMoves(t)' /\ ~HMakes(t)'
  BY <1>5 DEF HMoves, HMakes
<1>7. /\ HHandles' /\ HLock' /\ HFound'
      /\ \A u \in MapUsers \ {t} : ~HMakes(u)' /\ ~HMoves(u)' /\ ~HRemoves(u)'
  BY <1>1, <1>2, <1>4, <1>5, <1>6, HWriting
<1>8. HMade' /\ HMoved'
  <2>1. Len(add) # 0 => vals'[n] = add[Len(add)].val
    BY <1>0, <1>1, <1>3 DEF HTyped
  <2> QED  BY <1>1, <1>3, <1>6, <1>7, <2>1 DEF HMade, HMoved
<1>9. HTable'
  <2>1. \A m \in HCells : cells[m] # 0 => vals'[m] = cells[m]
    BY <1>0, <1>1, <1>3 DEF HTable, HTyped
  <2> QED  BY <1>0, <1>1, <1>2, <2>1 DEF HTable
<1> QED  BY <1>4, <1>7, <1>8, <1>9 DEF HInv

LEMMA HMoveAddr ==
  ASSUME HInv, NEW t \in MapUsers, H!MoveAddr(t) PROVE HInv'
<1> USE HAssumption
<1> DEFINE n == cell[t][2]  last == add[Len(add)]
<1>0. HTyped /\ HHandles /\ HTable /\ HMoved
  BY DEF HInv
<1>1. /\ ahPc[t] = "moveAddr" /\ ahPc' = [ahPc EXCEPT ![t] = "out"] /\ writer' = None
      /\ handle' = [handle EXCEPT ![t] = H!NoHandle] /\ cell' = [cell EXCEPT ![t] = H!NoCell]
      /\ index' = [index EXCEPT ![t] = 1] /\ UNCHANGED <<vals, cap, readers, created>>
      /\ IF add = << >> THEN UNCHANGED <<cells, add>>
         ELSE cells' = [cells EXCEPT ![n] = last.addr] /\ add' = SubSeq(add, 1, Len(add) - 1)
  BY DEF H!MoveAddr, H!Finish, H!Goto, H!Find
<1>2. /\ HMoves(t) /\ HWrites(t) /\ cell[t][1] = "embed" /\ \A m \in 1 .. Len(add) : add[m].addr # 0
  <2>1. HMoves(t)
    BY <1>1 DEF HMoves
  <2> QED  BY <1>0, <2>1, HFull DEF HHandles
<1>3. /\ n \in HCells /\ cells[n] = 0 /\ Len(add) \in Nat /\ (add = << >> <=> Len(add) = 0)
      /\ Len(add) # 0 => vals[n] = last.val
  BY <1>0, <1>1, <1>2, HPlaces DEF HMoved, HTyped
<1>4. /\ Len(add) # 0 => last \in HElement /\ last.addr \in Addrs /\ Len(add) \in 1 .. Len(add)
      /\ add' \in Seq(HElement)
      /\ Len(add) # 0 => Len(add') = Len(add) - 1 /\ \A m \in 1 .. Len(add) - 1 : add'[m] = add[m]
  <2>1. Len(add) # 0 => last \in HElement /\ Len(add) \in 1 .. Len(add)
    BY <1>0, <1>3, SeqBasics DEF HTyped
  <2>2. Len(add) # 0 => last.addr \in Addrs
    BY <1>2, <2>1 DEF HElement
  <2>3. Len(add) # 0 => /\ add' \in Seq(HElement) /\ Len(add') = Len(add) - 1
                        /\ \A m \in 1 .. Len(add) - 1 : add'[m] = add[m]
    BY <1>0, <1>1, <1>3, HShorter DEF HTyped
  <2>4. Len(add) = 0 => add' \in Seq(HElement)
    BY <1>0, <1>1, <1>3 DEF HTyped
  <2> HIDE DEF last
  <2> QED  BY <2>1, <2>2, <2>3, <2>4
<1>5. HTyped'
  <2>1. 1 \in HCells
    BY DEF HCells
  <2>2. cells' \in [HCells -> Addrs \union {0}]
    BY <1>0, <1>1, <1>3, <1>4 DEF HTyped
  <2> QED  BY <1>0, <1>1, <1>4, <2>1, <2>2 DEF HTyped, H!NoHandle
<1>6. /\ ahPc'[t] = "out" /\ handle'[t] = H!NoHandle
      /\ \A u \in MapUsers \ {t} : /\ ahPc'[u] = ahPc[u] /\ handle'[u] = handle[u]
                                   /\ cell'[u] = cell[u] /\ created'[u] = created[u]
  BY <1>0, <1>1 DEF HTyped
<1>7. \A m \in HCells \ {n} : cells'[m] = cells[m]
  BY <1>0, <1>1 DEF HTyped
<1>8. /\ HHandles' /\ HLock' /\ HFound'
      /\ \A u \in MapUsers \ {t} : ~HMakes(u)' /\ ~HMoves(u)' /\ ~HRemoves(u)'
  BY <1>1, <1>2, <1>5, <1>6, <1>7, HWriting
<1>9. ~HMakes(t)' /\ ~HMoves(t)'
  BY <1>6 DEF HMakes, HMoves
<1>10. HMade' /\ HMoved'
  BY <1>8, <1>9 DEF HMade, HMoved
<1>11. HTable'
  <2>1. CASE add = << >>
    BY <1>0, <1>1, <1>2, <2>1 DEF HTable
  <2>2. CASE add # << >>
    <3>1. /\ Len(add) # 0 /\ cells'[n] = last.addr /\ last.addr # 0
          /\ Len(add) \in 1 .. Len(add) /\ \A m \in 1 .. Len(add') : m \in 1 .. Len(add) /\ m # Len(add) /\ add'[m] = add[m]
      BY <1>0, <1>1, <1>3, <1>4, <2>2 DEF HTyped
    <3>2. /\ last.val = last.addr /\ \A m \in HCells : cells[m] # last.addr
          /\ \A m \in 1 .. Len(add') : add[m].addr # last.addr /\ add[m].addr # 0
      BY <1>0, <1>2, <3>1 DEF HTable
    <3>3. vals'[n] = last.addr
      BY <1>1, <1>3, <3>1, <3>2
    <3> HIDE DEF n, last
    <3>4. \A m \in HCells : cells'[m] # 0 => vals'[m] = cells'[m]
      BY <1>0, <1>1, <1>7, <3>1, <3>3 DEF HTable
    <3>5. \A m, k \in HCells : cells'[m] = cells'[k] => m = k \/ cells'[m] = 0
      BY <1>0, <1>7, <3>1, <3>2 DEF HTable
    <3>6. ASSUME NEW m \in 1 .. Len(add')
          PROVE  /\ add'[m].addr # 0 /\ add'[m].val = add'[m].addr
                 /\ \A k \in HCells : cells'[k] # add'[m].addr
                 /\ \A k \in 1 .. Len(add') : add'[k].addr = add'[m].addr => k = m
      <4>1. m \in 1 .. Len(add) /\ add'[m] = add[m] /\ add[m].addr # 0 /\ add[m].addr # last.addr
        BY <3>1, <3>2
      <4>2. \A k \in HCells : cells'[k] # add'[m].addr
        BY <1>0, <1>3, <1>7, <3>1, <4>1 DEF HTable
      <4> QED  BY <1>0, <3>1, <4>1, <4>2 DEF HTable
    <3> QED  BY <3>4, <3>5, <3>6 DEF HTable
  <2> QED  BY <2>1, <2>2
<1> QED  BY <1>5, <1>8, <1>10, <1>11 DEF HInv

LEMMA HStep == HInv /\ [H!Next]_(H!vars) => HInv'
<1> SUFFICES ASSUME HInv, [H!Next]_(H!vars) PROVE HInv'
  OBVIOUS
<1>1. CASE UNCHANGED H!vars
  BY <1>1 DEF H!vars, HInv, HTyped, HHandles, HLock, HTable, HMade, HFound, HMoved,
              HMakes, HRemoves, HMoves, HFinds, HWrites
<1>2. ASSUME NEW t \in MapUsers,
             \/ H!Begin(t) \/ H!ReadCell(t) \/ H!ReadAdd(t) \/ H!Locked(t)
             \/ H!ReleaseFound(t) \/ H!Write(t) \/ H!ReleaseCreated(t)
             \/ H!RemoveAdd(t) \/ H!RemoveCell(t) \/ H!MoveVal(t) \/ H!MoveAddr(t)
      PROVE  HInv'
  BY <1>2, HBegin, HReadCell, HReadAdd, HLocked, HReleaseFound, HWrite, HReleaseCreated,
     HRemoveAdd, HRemoveCell, HMoveVal, HMoveAddr
<1> QED  BY <1>1, <1>2 DEF H!Next, H!Done

LEMMA HOnce == HInv => H!ElementsOnce
<1> SUFFICES ASSUME HInv PROVE H!ElementsOnce
  OBVIOUS
<1>0. HTyped /\ HTable /\ 0 \notin Addrs
  BY HAssumption DEF HInv
<1>1. DOMAIN cells = HCells /\ DOMAIN add = 1 .. Len(add)
  BY <1>0 DEF HTyped
<1>2. ASSUME NEW a \in Addrs
      PROVE  /\ H!InCells(a) = {} \/ H!InAdd(a) = {}
             /\ \A m, n \in H!InCells(a) : m = n
             /\ \A m, n \in H!InAdd(a) : m = n
  <2>1. \A m, n \in H!InCells(a) : m = n
    BY <1>0, <1>1 DEF HTable, H!InCells
  <2>2. \A m, n \in H!InAdd(a) : m = n
    BY <1>0, <1>1 DEF HTable, H!InAdd
  <2>3. H!InCells(a) = {} \/ H!InAdd(a) = {}
    BY <1>0, <1>1 DEF HTable, H!InAdd, H!InCells
  <2> QED  BY <2>1, <2>2, <2>3
<1> QED  BY <1>2 DEF H!ElementsOnce

LEMMA HHold == HInv => H!HandlesHold
<1> SUFFICES ASSUME HInv, NEW t \in MapUsers, ahPc[t] = "use", cell[t] # H!NoCell, ~created[t]
             PROVE  /\ H!AddrOf(cell[t]) = handle[t].addr
                    /\ handle[t].addr = IF cell[t][1] = "embed" THEN vals[cell[t][2]] ELSE add[cell[t][2]].val
  BY DEF H!HandlesHold
<1>0. HTyped /\ HTable /\ HHandles /\ HFound
  BY DEF HInv
<1>1. HRemoves(t) \/ HFinds(t)
  BY DEF HRemoves, HFinds
<1>2. handle[t].addr # 0
  BY <1>0 DEF HHandles
<1>3. CASE cell[t][1] = "embed"
  BY <1>0, <1>1, <1>2, <1>3, HPlaces DEF HFound, HTable, H!AddrOf
<1>4. CASE cell[t][1] = "add"
  <2>1. cell[t][2] \in 1 .. Len(add) /\ add[cell[t][2]].addr = handle[t].addr
    BY <1>0, <1>1, <1>4, HPlaces DEF HFound
  <2> QED  BY <1>0, <1>2, <1>4, <2>1 DEF HTable, H!AddrOf
<1> QED  BY <1>0, <1>3, <1>4, HPlaces

LEMMA HAlwaysExclusive == HInv => H!Exclusive
<1> SUFFICES ASSUME HInv, NEW t \in MapUsers, NEW u \in MapUsers, t # u, cell[t] # H!NoCell,
                    ahPc[u] \in {"use", "publish"}, ahPc[t] \in {"use", "publish"},
                    created[t] \/ handle[t].remove
             PROVE  cell[t] # cell[u]
  BY DEF H!Exclusive
<1>0. HTyped /\ HHandles
  BY DEF HInv
<1>1. HWrites(t)
  BY <1>0 DEF HWrites, HMakes, HRemoves, HHandles
<1>2. ~HMakes(u) /\ ~HRemoves(u)
  BY <1>1, HWriter
<1>3. CASE cell[u] = H!NoCell
  BY <1>3
<1>4. CASE cell[u] # H!NoCell
  <2>1. HFinds(u)
    BY <1>0, <1>2, <1>4 DEF HMakes, HRemoves, HFinds, HHandles
  <2> QED  BY <1>1, <2>1, HFoundElsewhere
<1> QED  BY <1>3, <1>4

(* Handles hold, for any threads and addresses.                                *)
THEOREM HandlesAlwaysHold == H!Spec => [](H!ElementsOnce /\ H!HandlesHold /\ H!Exclusive)
BY HInitially, HStep, HOnce, HHold, HAlwaysExclusive, PTL DEF H!Spec

-------------------------------------------------------------------------------
(* StackDepot, for any threads, stacks and sizes.                              *)
DNode == [stack : Stacks, id : Nat \ {0}, at : Nat]
DParts == 0 .. PartCount - 1
DRegions == [start : 1 .. Top, end : 2 .. Top + 1]
DTyped ==
  /\ list \in [Buckets -> Seq(DNode)] /\ locked \in [Buckets -> BOOLEAN]
  /\ seq \in [DParts -> 0 .. MaxId - 1]
  /\ pc \in [Procs -> Labels]
  /\ arg \in [Procs -> Stacks \union {NoStack}] /\ answer \in [Procs -> Stacks \union {NoStack}]
  /\ snap \in [Procs -> Seq(DNode)] /\ num \in [Procs -> Nat] /\ pos \in [Procs -> Nat]
  /\ given \in SUBSET [stack : Stacks, id : Nat \ {0}]
  /\ region_pos \in Nat /\ region_end \in Nat /\ holder \in SUBSET Procs /\ regions \in SUBSET DRegions
  /\ step \in [Procs -> {"done", "pos", "end", "swap", "lock", "reset", "map", "publish"}]
  /\ slow \in [Procs -> BOOLEAN] /\ size \in [Procs -> Nat]
  /\ cmp \in [Procs -> Nat] /\ mem \in [Procs -> Nat] /\ stale \in BOOLEAN

(* The ids that a part has given away.                                         *)
DTaken(b, id) == \E k \in 1 .. seq[Part(b)] : id = Id(Part(b), k)
DPending(p) == pc[p] \in {"alloc", "publish"}

DStore ==
  /\ \A b \in Buckets : \A n \in NodesOf(list[b]) : Bucket(n.stack) = b /\ DTaken(b, n.id)
  /\ \A b \in Buckets : \A k, j \in 1 .. Len(list[b]) : list[b][k].stack = list[b][j].stack => k = j
  /\ \A m, n \in AllNodes : m.id = n.id => m = n
  /\ \A g \in given : \E n \in AllNodes : n.stack = g.stack /\ n.id = g.id

(* A thread in Put() has the bucket as it was when it took the lock, without   *)
(* the stack it puts.                                                          *)
DPutOf(p) ==
  /\ pc[p] \in {"lock", "found", "id", "alloc", "publish", "scan", "got"} => arg[p] \in Stacks
  /\ pc[p] \in {"found", "id", "alloc", "publish"} => snap[p] = list[Bucket(arg[p])]
  /\ pc[p] \in {"lock", "id", "alloc", "publish"} => find(snap[p], arg[p]) = {}
  /\ pc[p] \in {"lockall", "unlockall"} => num[p] \in Buckets

DIds ==
  /\ \A p \in Procs : DPending(p) =>
       /\ DTaken(Bucket(arg[p]), num[p])
       /\ \A n \in AllNodes : n.id # num[p]
  /\ \A p, q \in Procs : DPending(p) /\ DPending(q) /\ num[p] = num[q] => p = q

(* Get() has the node it looks for before it.                                  *)
DGetOf(p) ==
  /\ pc[p] = "scan" =>
       /\ \E n \in AllNodes : n.stack = arg[p] /\ n.id = num[p]
       /\ (num[p] \div MaxId) * PartSize + pos[p] <= Bucket(arg[p])
  /\ pc[p] = "got" => answer[p] = arg[p]

(* The allocator.                                                              *)
DSlow ==
  /\ \A p \in Procs : slow[p] <=> p \in holder
  /\ \A p, q \in holder : p = q
  /\ \A p \in Procs : step[p] \in {"reset", "map", "publish"} => slow[p]
  /\ \A p \in Procs : step[p] \in {"done", "lock"} => ~slow[p]
  /\ \A p \in Procs : step[p] \in {"map", "publish"} => region_pos = 0
  /\ \A p \in Procs : step[p] = "swap" => cmp[p] # 0
  /\ \A p \in Procs : step[p] # "done" => size[p] \in Sizes
  /\ \A p \in Procs : step[p] # "done" /\ pc[p] = "publish" => size[p] = StorageSize(arg[p])
  /\ \A p \in Procs : step[p] # "done" => pc[p] \in {"publish", "gone"}

(* Where the next block starts, once there is a region.                        *)
DFloor(x) == \/ region_pos # 0 /\ x = region_pos
             \/ \E p \in Procs : step[p] = "publish" /\ x = mem[p]
DRegion ==
  \A x \in Nat : DFloor(x) =>
    \E r \in regions : r.end = region_end /\ r.start <= x /\ x <= r.end

(* A position that was read lies in a region, and not between the position and *)
(* the end of the current one; if it is the position, what is asked for fits.  *)
DCmp ==
  \A p \in Procs : step[p] \in {"end", "swap"} /\ cmp[p] # 0 =>
    /\ \E r \in regions : r.start <= cmp[p] /\ cmp[p] <= r.end
    /\ \A x \in Nat : DFloor(x) => cmp[p] <= x \/ region_end < cmp[p]
DSwap ==
  \A p \in Procs : step[p] = "swap" =>
    /\ cmp[p] # 0
    /\ \A x \in Nat : DFloor(x) /\ cmp[p] = x => x + size[p] <= region_end

(* A block lies in a region, and not where the next one may.                   *)
DRoom(a, z) ==
  /\ \E r \in regions : r.start <= a /\ a + z <= r.end
  /\ \A x \in Nat : DFloor(x) => a + z <= x \/ region_end <= a
DApart(a, y, b, z) == a + y <= b \/ b + z <= a
DReturned(p) == pc[p] = "publish" /\ step[p] = "done"
DBlocks ==
  /\ \A n \in AllNodes : DRoom(n.at, StorageSize(n.stack))
  /\ \A p \in Procs : DReturned(p) => DRoom(mem[p], StorageSize(arg[p]))
  /\ \A m, n \in AllNodes : m # n => DApart(m.at, StorageSize(m.stack), n.at, StorageSize(n.stack))
  /\ \A p \in Procs, n \in AllNodes : DReturned(p) =>
       DApart(mem[p], StorageSize(arg[p]), n.at, StorageSize(n.stack))
  /\ \A p, q \in Procs : DReturned(p) /\ DReturned(q) /\ p # q =>
       DApart(mem[p], StorageSize(arg[p]), mem[q], StorageSize(arg[q]))

(* Blocks are where they should be until a swap was stale, and none is while   *)
(* no region touches another.                                                  *)
DFresh == ~stale => DRegion /\ DBlocks
DStrict == ~Touching => ~stale /\ DCmp /\ DSwap
DMemory == DSlow /\ DFresh /\ DStrict
DPut == \A p \in Procs : DPutOf(p)
DGet == \A p \in Procs : DGetOf(p)
DInv == DTyped /\ DStore /\ DPut /\ DIds /\ DGet /\ LocksHaveOwners /\ DMemory

LEMMA DAssumption ==
  /\ PartSize \in Nat \ {0} /\ PartCount \in Nat \ {0} /\ MaxId \in Nat \ {0}
  /\ \A s \in Stacks : Bucket(s) \in Buckets /\ StorageSize(s) \in Sizes
  /\ NoStack \notin Stacks
  /\ Sizes \subseteq Nat \ {0} /\ RegionSize \in Nat \ {0} /\ Top \in Nat
BY DepotAssumption, AllocatorAssumption

(* Buckets and parts, ids and their parts.                                     *)
LEMMA DPart ==
  ASSUME NEW b \in Buckets
  PROVE  /\ Part(b) \in DParts /\ b \in Nat
         /\ Part(b) * PartSize <= b /\ b < Part(b) * PartSize + PartSize
<1>1. b \in Nat /\ b < PartSize * PartCount
  BY DAssumption DEF Buckets, TabSize
<1> DEFINE q == b \div PartSize
<1>2. q \in Nat /\ q * PartSize <= b /\ b < q * PartSize + PartSize
  BY <1>1, DAssumption, Rounding
<1> HIDE DEF q
<1>3. q < PartCount
  <2> SUFFICES ASSUME PartCount <= q PROVE FALSE
    BY <1>2, DAssumption
  <2>1. PartSize * PartCount <= q * PartSize
    BY <1>2, DAssumption
  <2>2. q * PartSize \in Nat /\ PartSize * PartCount \in Nat
    BY <1>2, DAssumption
  <2> QED  BY <1>1, <1>2, <2>1, <2>2
<1> QED  BY <1>1, <1>2, <1>3, DAssumption DEF Part, DParts, q

LEMMA DIdOf ==
  ASSUME NEW q \in Nat, NEW k \in 1 .. MaxId - 1
  PROVE  Id(q, k) \in Nat \ {0} /\ Id(q, k) \div MaxId = q
<1>1. \A a \in Nat, M \in Nat \ {0} : \A r \in 1 .. M - 1 : (a * M + r) \div M = a /\ a * M + r \in Nat \ {0}
  OBVIOUS
<1> QED  BY <1>1, DAssumption DEF Id

LEMMA DIdPart ==
  ASSUME DTyped, NEW b \in Buckets, NEW id, DTaken(b, id)
  PROVE  id \in Nat \ {0} /\ id \div MaxId = Part(b)
<1>1. PICK k \in 1 .. seq[Part(b)] : id = Id(Part(b), k)
  BY DEF DTaken
<1>2. Part(b) \in Nat /\ seq[Part(b)] \in 0 .. MaxId - 1
  BY DPart DEF DTyped, DParts
<1>3. k \in 1 .. MaxId - 1
  BY <1>1, <1>2, DAssumption
<1> QED  BY <1>1, <1>2, <1>3, DIdOf

LEMMA DIdInj ==
  ASSUME NEW q \in Nat, NEW k \in Nat, NEW j \in Nat, Id(q, k) = Id(q, j) PROVE k = j
BY DAssumption DEF Id

LEMMA DNodes ==
  ASSUME DTyped
  PROVE  /\ \A b \in Buckets : /\ list[b] \in Seq(DNode) /\ Len(list[b]) \in Nat
                              /\ \A k \in 1 .. Len(list[b]) : list[b][k] \in DNode
         /\ AllNodes \subseteq DNode
<1>1. \A b \in Buckets : list[b] \in Seq(DNode)
  BY DEF DTyped
<1>2. \A b \in Buckets : Len(list[b]) \in Nat /\ \A k \in 1 .. Len(list[b]) : list[b][k] \in DNode
  BY <1>1, SeqBasics
<1> QED  BY <1>1, <1>2 DEF AllNodes, NodesOf

LEMMA DInitially == Init => DInv
<1> SUFFICES ASSUME Init PROVE DInv
  OBVIOUS
<1> USE DAssumption DEF Init, AllocInit
<1>1. DTyped
  <2>1. << >> \in Seq(DNode) /\ 0 \in 0 .. MaxId - 1
    OBVIOUS
  <2> QED  BY <2>1 DEF DTyped, Labels, DParts
<1>2. AllNodes = {}
  BY DEF AllNodes, NodesOf
<1>3. DStore /\ DIds
  BY <1>2 DEF DStore, DIds, NodesOf, DPending
<1>4. DPut /\ DGet
  BY DEF DPut, DGet, DPutOf, DGetOf
<1>5. LocksHaveOwners
  BY DEF LocksHaveOwners, Holds
<1>6. DMemory
  BY <1>2 DEF DMemory, DSlow, DFresh, DStrict, DRegion, DCmp, DSwap, DBlocks, DFloor, DReturned
<1> QED  BY <1>1, <1>3, <1>4, <1>5, <1>6 DEF DInv

(* A step of p that adds no node, takes no id and asks for no memory.          *)
LEMMA DQuiet ==
  ASSUME DInv, DTyped', NEW p \in Procs, UNCHANGED <<list, seq, allocVars>>,
         \A g \in given' : g \in given \/ \E n \in AllNodes : n.stack = g.stack /\ n.id = g.id,
         DPutOf(p)', DGetOf(p)', ~DPending(p)',
         \A q \in Procs \ {p} :
           \/ pc'[q] = "gone"
           \/ /\ pc'[q] = pc[q] /\ arg'[q] = arg[q] /\ snap'[q] = snap[q]
              /\ num'[q] = num[q] /\ pos'[q] = pos[q] /\ answer'[q] = answer[q],
         step[p] = "done" \/ pc'[p] = "gone"
  PROVE  DStore' /\ DPut' /\ DIds' /\ DGet' /\ DMemory'
<1> USE DEF DInv
<1>1. AllNodes' = AllNodes
  BY DEF AllNodes
<1>2. DStore'
  BY <1>1 DEF DStore, DTaken
<1>3. DPut'
  BY DEF DPut, DPutOf
<1>4. DIds'
  BY <1>1 DEF DIds, DPending, DTaken
<1>5. DGet'
  BY <1>1 DEF DGet, DGetOf
<1>6. DSlow'
  BY DEF DMemory, DSlow, allocVars, shared, DPending
<1>7. \A x \in Nat : DFloor(x)' <=> DFloor(x)
  BY DEF DFloor, allocVars, shared
<1>8. DStrict'
  BY <1>7 DEF DMemory, DStrict, Touching, DCmp, DSwap, allocVars, shared
<1>9. \A q \in Procs : DReturned(q)' => DReturned(q) /\ mem'[q] = mem[q] /\ arg'[q] = arg[q]
  BY DEF DReturned, allocVars, DPending
<1>10. \A a, z \in Nat : DRoom(a, z)' <=> DRoom(a, z)
  BY <1>7 DEF DRoom, allocVars, shared
<1>11. DFresh'
  <2>0. SUFFICES ASSUME ~stale PROVE DRegion' /\ DBlocks'
    BY DEF DFresh, allocVars, shared
  <2>1. DBlocks /\ DTyped /\ AllNodes \subseteq DNode
    BY <2>0, DNodes DEF DMemory, DFresh
  <2>2. \A s \in Stacks : StorageSize(s) \in Nat
    BY DAssumption
  <2>3. \A n \in AllNodes : DRoom(n.at, StorageSize(n.stack))'
    BY <1>10, <2>1, <2>2 DEF DBlocks, DNode
  <2>4. \A q \in Procs : DReturned(q)' => DRoom(mem[q], StorageSize(arg[q]))'
    <3>1. \A q \in Procs : DReturned(q) => arg[q] \in Stacks /\ mem[q] \in Nat
      BY <2>1 DEF DReturned, DPut, DPutOf, DTyped
    <3> QED  BY <1>9, <1>10, <2>1, <2>2, <3>1 DEF DBlocks
  <2>5. DBlocks'
    BY <1>1, <1>9, <2>1, <2>3, <2>4 DEF DBlocks
  <2>6. DRegion'
    BY <1>7, <2>0 DEF DMemory, DFresh, DRegion, allocVars, shared
  <2> QED  BY <2>5, <2>6
<1> QED  BY <1>2, <1>3, <1>4, <1>5, <1>6, <1>8, <1>11 DEF DMemory

(* A step of p that takes the locks of gets and releases those of drops.       *)
LEMMA DLocking ==
  ASSUME DInv, NEW p \in Procs, pc[p] # "gone",
         \A q \in Procs \ {p} : pc'[q] = pc[q] /\ arg'[q] = arg[q] /\ num'[q] = num[q],
         NEW gets \in SUBSET Buckets, NEW drops \in SUBSET Buckets,
         \A b \in Buckets : Holds(p, b)' <=> b \notin drops /\ (Holds(p, b) \/ b \in gets),
         \A b \in gets : ~locked[b], \A b \in drops : Holds(p, b),
         \A b \in Buckets : locked'[b] <=> b \notin drops /\ (locked[b] \/ b \in gets),
         \A q \in holder' : pc'[q] = "publish"
  PROVE  LocksHaveOwners'
<1>1. /\ \A b \in Buckets : locked[b] <=> \E q \in Procs : Holds(q, b)
      /\ \A b \in Buckets, q, r \in Procs : Holds(q, b) /\ Holds(r, b) => q = r
  BY DEF DInv, LocksHaveOwners
<1>2. \A b \in Buckets, q \in Procs \ {p} : Holds(q, b)' <=> Holds(q, b)
  BY DEF Holds
<1>3. \A b \in Buckets, q, r \in Procs : Holds(q, b)' /\ Holds(r, b)' => q = r
  BY <1>1, <1>2
<1>4. \A b \in Buckets : locked'[b] <=> \E q \in Procs : Holds(q, b)'
  BY <1>1, <1>2
<1> QED  BY <1>3, <1>4 DEF LocksHaveOwners

(* A step of p that has no locks before and none after.                        *)
LEMMA DUnlocked ==
  ASSUME DInv, NEW p \in Procs, pc[p] # "gone", UNCHANGED <<locked, holder>>,
         \A q \in Procs \ {p} : pc'[q] = pc[q] /\ arg'[q] = arg[q] /\ num'[q] = num[q],
         \A b \in Buckets : ~Holds(p, b) /\ ~Holds(p, b)',
         p \notin holder
  PROVE  LocksHaveOwners'
<1>1. \A b \in Buckets : Holds(p, b)' <=> b \notin {} /\ (Holds(p, b) \/ b \in {})
  OBVIOUS
<1>2. \A b \in Buckets : locked'[b] <=> b \notin {} /\ (locked[b] \/ b \in {})
  OBVIOUS
<1>3. \A q \in holder' : pc'[q] = "publish"
  BY DEF DInv, LocksHaveOwners, DTyped
<1>4. {} \in SUBSET Buckets /\ (\A b \in {} : ~locked[b]) /\ \A b \in {} : Holds(p, b)
  OBVIOUS
<1> QED  BY ONLY DInv, p \in Procs, pc[p] # "gone", <1>1, <1>2, <1>3, <1>4, DLocking,
       \A q \in Procs \ {p} : pc'[q] = pc[q] /\ arg'[q] = arg[q] /\ num'[q] = num[q]

-------------------------------------------------------------------------------
LEMMA DOnPut == ASSUME DInv, NEW p \in Procs, NEW s \in Stacks, Put(p, s) PROVE DInv'
<1> USE DEF DInv, Put, Goto, depotVars
<1>1. Bucket(s) \in Buckets /\ list[Bucket(s)] \in Seq(DNode)
  BY DAssumption DEF DTyped
<1>2. \A n \in NodesOf(list[Bucket(s)]) : n \in AllNodes /\ n \in DNode
  BY <1>1, DNodes DEF AllNodes, NodesOf
<1>3. DTyped'
  <2>1. given' \in SUBSET [stack : Stacks, id : Nat \ {0}]
    <3>1. CASE UNCHANGED given
      BY <3>1 DEF DTyped
    <3>2. CASE \E n \in find(list[Bucket(s)], s) : Hands(s, n)
      BY <1>2, <3>2 DEF Hands, find, DNode, DTyped
    <3> QED  BY <3>1, <3>2
  <2>2. pc' \in [Procs -> Labels] /\ arg' \in [Procs -> Stacks \union {NoStack}] /\ snap' \in [Procs -> Seq(DNode)]
    <3>1. /\ pc \in [Procs -> Labels] /\ "lock" \in Labels /\ snap \in [Procs -> Seq(DNode)]
          /\ arg \in [Procs -> Stacks \union {NoStack}]
      BY DEF DTyped, Labels
    <3>2. \/ UNCHANGED <<pc, arg, snap>>
          \/ /\ pc' = [pc EXCEPT ![p] = "lock"] /\ arg' = [arg EXCEPT ![p] = s]
             /\ snap' = [snap EXCEPT ![p] = list[Bucket(s)]]
      OBVIOUS
    <3> QED  BY <1>1, <3>1, <3>2
  <2> QED  BY <2>1, <2>2 DEF DTyped, allocVars, shared
<1>4. \A g \in given' : g \in given \/ \E n \in AllNodes : n.stack = g.stack /\ n.id = g.id
  BY <1>2 DEF Hands, find
<1>5. pc[p] = "idle" /\ pc'[p] \in {"idle", "lock"}
  BY DEF DTyped
<1>6. DPutOf(p)' /\ DGetOf(p)' /\ ~DPending(p)'
  BY <1>5 DEF DTyped, DPutOf, DGetOf, DPending, DPut
<1>7. \A q \in Procs \ {p} : /\ pc'[q] = pc[q] /\ arg'[q] = arg[q] /\ snap'[q] = snap[q]
                             /\ num'[q] = num[q] /\ pos'[q] = pos[q] /\ answer'[q] = answer[q]
  BY DEF DTyped
<1>8. step[p] = "done"
  BY <1>5 DEF DMemory, DSlow, DTyped
<1>9. DStore' /\ DPut' /\ DIds' /\ DGet' /\ DMemory'
  BY <1>3, <1>4, <1>6, <1>7, <1>8, DQuiet
<1>10. \A b \in Buckets : ~Holds(p, b) /\ ~Holds(p, b)'
  BY <1>5 DEF Holds
<1>11. LocksHaveOwners'
  <2>1. p \notin holder /\ UNCHANGED <<locked, holder>> /\ pc[p] # "gone"
    BY <1>5, <1>8 DEF DMemory, DSlow, allocVars, shared
  <2> HIDE DEF DInv, Put
  <2> QED  BY <1>7, <1>10, <2>1, DUnlocked
<1> QED  BY <1>3, <1>9, <1>11

LEMMA DOnLock == ASSUME DInv, NEW p \in Procs, Lock(p) PROVE DInv'
<1> USE DEF DInv, Lock, Goto
<1> DEFINE b == Bucket(arg[p])
<1>1. pc[p] = "lock" /\ arg[p] \in Stacks /\ b \in Buckets /\ list[b] \in Seq(DNode)
  BY DAssumption DEF DTyped, DPut, DPutOf
<1>2. pc'[p] \in {"found", "id"} /\ snap'[p] = list[b]
  BY DEF DTyped
<1>3. DTyped'
  BY <1>1 DEF DTyped, Labels, allocVars, shared
<1>4. find(snap[p], arg[p]) = {}
  BY <1>1 DEF DPut, DPutOf
<1>5. DPutOf(p)' /\ DGetOf(p)' /\ ~DPending(p)'
  BY <1>1, <1>2, <1>4 DEF DTyped, DPutOf, DGetOf, DPending, DPut
<1>6. \A q \in Procs \ {p} : /\ pc'[q] = pc[q] /\ arg'[q] = arg[q] /\ snap'[q] = snap[q]
                             /\ num'[q] = num[q] /\ pos'[q] = pos[q] /\ answer'[q] = answer[q]
  BY DEF DTyped
<1>7. step[p] = "done"
  BY <1>1 DEF DMemory, DSlow, DTyped
<1>8. DStore' /\ DPut' /\ DIds' /\ DGet' /\ DMemory'
  BY <1>3, <1>5, <1>6, <1>7, DQuiet
<1>9. \A c \in Buckets : ~Holds(p, c) /\ (Holds(p, c)' <=> c = b)
  BY <1>1, <1>2 DEF Holds
<1>10. \A c \in Buckets : locked'[c] <=> locked[c] \/ c = b
  BY DEF DTyped
<1>11. LocksHaveOwners'
  <2>1. \A q \in holder' : pc'[q] = "publish"
    BY <1>1, <1>6 DEF LocksHaveOwners, allocVars, shared, DTyped
  <2>2. \A c \in Buckets : Holds(p, c)' <=> c \notin {} /\ (Holds(p, c) \/ c \in {b})
    BY <1>9
  <2>3. \A c \in Buckets : locked'[c] <=> c \notin {} /\ (locked[c] \/ c \in {b})
    BY <1>10
  <2>4. {b} \in SUBSET Buckets /\ {} \in SUBSET Buckets /\ \A c \in {b} : ~locked[c]
    BY <1>1
  <2>5. pc[p] # "gone"
    BY <1>1
  <2> HIDE DEF DInv, Lock, b
  <2> QED  BY <1>6, <2>1, <2>2, <2>3, <2>4, <2>5, DLocking
<1> QED  BY <1>3, <1>8, <1>11

(* The head goes back as it was found.                                         *)
LEMMA DOnFound == ASSUME DInv, NEW p \in Procs, Found(p) PROVE DInv'
<1> USE DEF DInv, Found, Finish, Goto
<1> DEFINE b == Bucket(arg[p])
<1>1. /\ pc[p] = "found" /\ arg[p] \in Stacks /\ b \in Buckets /\ list[b] \in Seq(DNode)
      /\ snap[p] = list[b]
  BY DAssumption DEF DTyped, DPut, DPutOf
<1>2. list' = list
  BY <1>1 DEF DTyped
<1>3. \A n \in NodesOf(list[b]) : n \in AllNodes /\ n \in DNode
  BY <1>1, DNodes DEF AllNodes, NodesOf
<1>4. PICK n \in find(snap[p], arg[p]) : Hands(arg[p], n)
  OBVIOUS
<1>5. n \in AllNodes /\ n \in DNode /\ n.stack = arg[p]
  BY <1>1, <1>3, <1>4 DEF find
<1>6. DTyped'
  <2>1. given' \in SUBSET [stack : Stacks, id : Nat \ {0}]
    BY <1>4, <1>5, <1>1 DEF DTyped, Hands, DNode
  <2> QED  BY <1>1, <1>2, <2>1 DEF DTyped, Labels, allocVars, shared
<1>7. \A g \in given' : g \in given \/ \E m \in AllNodes : m.stack = g.stack /\ m.id = g.id
  BY <1>4, <1>5 DEF Hands
<1>8. pc'[p] = "idle"
  BY DEF DTyped
<1>9. DPutOf(p)' /\ DGetOf(p)' /\ ~DPending(p)'
  BY <1>8 DEF DPutOf, DGetOf, DPending
<1>10. \A q \in Procs \ {p} : /\ pc'[q] = pc[q] /\ arg'[q] = arg[q] /\ snap'[q] = snap[q]
                             /\ num'[q] = num[q] /\ pos'[q] = pos[q] /\ answer'[q] = answer[q]
  BY DEF DTyped
<1>11. step[p] = "done"
  BY <1>1 DEF DMemory, DSlow, DTyped
<1>12. UNCHANGED <<list, seq, allocVars>>
  BY <1>2
<1>13. DStore' /\ DPut' /\ DIds' /\ DGet' /\ DMemory'
  BY <1>6, <1>7, <1>9, <1>10, <1>11, <1>12, DQuiet
<1>14. LocksHaveOwners'
  <2>1. \A q \in holder' : pc'[q] = "publish"
    BY <1>1, <1>10 DEF LocksHaveOwners, allocVars, shared, DTyped
  <2>2. \A c \in Buckets : Holds(p, c)' <=> c \notin {b} /\ (Holds(p, c) \/ c \in {})
    BY <1>1, <1>8 DEF Holds
  <2>3. \A c \in Buckets : locked'[c] <=> c \notin {b} /\ (locked[c] \/ c \in {})
    BY DEF DTyped
  <2>4. {b} \in SUBSET Buckets /\ {} \in SUBSET Buckets /\ \A c \in {b} : Holds(p, c)
    BY <1>1 DEF Holds
  <2>5. pc[p] # "gone"
    BY <1>1
  <2> HIDE DEF DInv, Found, b
  <2> QED  BY <1>10, <2>1, <2>2, <2>3, <2>4, <2>5, DLocking
<1> QED  BY <1>6, <1>13, <1>14

(* Every thread is gone.                                                       *)
LEMMA DEnds ==
  ASSUME DInv, pc' = [q \in Procs |-> "gone"], NEW p \in Procs,
         UNCHANGED <<allocVars, depotVars, arg, snap, num, pos, answer, given>>
  PROVE  DInv'
<1> USE DEF DInv
<1>1. DTyped'
  BY DEF DTyped, Labels, allocVars, shared, depotVars
<1>2. DPutOf(p)' /\ DGetOf(p)' /\ ~DPending(p)'
  BY DEF DPutOf, DGetOf, DPending
<1>3. DStore' /\ DPut' /\ DIds' /\ DGet' /\ DMemory'
  BY <1>1, <1>2, DQuiet DEF depotVars
<1>4. LocksHaveOwners'
  BY DEF LocksHaveOwners
<1> QED  BY <1>1, <1>3, <1>4

LEMMA DOnEnd == ASSUME DInv, NEW p \in Procs, Die(p) \/ NoMemory(p) PROVE DInv'
BY DEnds DEF Die, NoMemory

LEMMA DOnGet == ASSUME DInv, NEW p \in Procs, NEW g \in given, Get(p, g) PROVE DInv'
<1> USE DEF DInv, Get, Goto, depotVars
<1>1. pc[p] = "idle" /\ g \in [stack : Stacks, id : Nat \ {0}]
  BY DEF DTyped
<1>2. DTyped'
  BY <1>1 DEF DTyped, Labels, allocVars, shared
<1>3. /\ pc'[p] = "scan" /\ arg'[p] = g.stack /\ num'[p] = g.id /\ pos'[p] = 0
  BY DEF DTyped
<1>4. PICK n \in AllNodes : n.stack = g.stack /\ n.id = g.id
  BY DEF DStore
<1>5. PICK b \in Buckets : n \in NodesOf(list[b])
  BY <1>4 DEF AllNodes
<1>6. Bucket(n.stack) = b /\ DTaken(b, n.id)
  BY <1>5 DEF DStore
<1>7. n.id \div MaxId = Part(b)
  BY <1>6, DIdPart
<1>8. (n.id \div MaxId) * PartSize + 0 <= b
  <2>1. Part(b) * PartSize \in Nat /\ Part(b) * PartSize <= b /\ b \in Nat
    BY DPart, DAssumption DEF DParts
  <2> QED  BY <1>7, <2>1
<1>9. AllNodes' = AllNodes
  BY DEF AllNodes
<1>10. DPutOf(p)' /\ DGetOf(p)' /\ ~DPending(p)'
  <2>1. DGetOf(p)'
    BY <1>3, <1>4, <1>6, <1>8, <1>9 DEF DGetOf
  <2> QED  BY <1>1, <1>3, <2>1 DEF DPutOf, DPending
<1>11. \A q \in Procs \ {p} : /\ pc'[q] = pc[q] /\ arg'[q] = arg[q] /\ snap'[q] = snap[q]
                             /\ num'[q] = num[q] /\ pos'[q] = pos[q] /\ answer'[q] = answer[q]
  BY DEF DTyped
<1>12. step[p] = "done"
  BY <1>1 DEF DMemory, DSlow, DTyped
<1>13. UNCHANGED <<list, seq, allocVars>>
  OBVIOUS
<1>14. DStore' /\ DPut' /\ DIds' /\ DGet' /\ DMemory'
  BY <1>2, <1>10, <1>11, <1>12, <1>13, DQuiet
<1>15. \A b1 \in Buckets : ~Holds(p, b1) /\ ~Holds(p, b1)'
  BY <1>1, <1>3 DEF Holds
<1>16. LocksHaveOwners'
  <2>1. p \notin holder /\ UNCHANGED <<locked, holder>> /\ pc[p] # "gone"
    BY <1>1, <1>12 DEF DMemory, DSlow, allocVars, shared
  <2> HIDE DEF DInv, Get
  <2> QED  BY <1>11, <1>15, <2>1, DUnlocked
<1> QED  BY <1>2, <1>14, <1>16

(* A bucket without the node is not the stack's, so the scan is not at its end. *)
LEMMA DOnScan == ASSUME DInv, NEW p \in Procs, Scan(p) PROVE DInv'
<1> USE DEF DInv, Scan, Goto, depotVars
<1> DEFINE b == (num[p] \div MaxId) * PartSize + pos[p]
           ns == {n \in NodesOf(list[b]) : n.id = num[p]}
<1>1. pc[p] = "scan" /\ arg[p] \in Stacks /\ b \in Buckets /\ num[p] \in Nat /\ pos[p] \in Nat
  BY DEF DTyped, DPut, DPutOf
<1>2. PICK m \in AllNodes : m.stack = arg[p] /\ m.id = num[p]
  BY <1>1 DEF DGet, DGetOf
<1>3. PICK c \in Buckets : m \in NodesOf(list[c])
  BY <1>2 DEF AllNodes
<1>4. c = Bucket(arg[p]) /\ DTaken(c, num[p])
  BY <1>2, <1>3 DEF DStore
<1>5. num[p] \div MaxId = Part(c)
  BY <1>4, DIdPart
<1>6. /\ c \in Nat /\ Part(c) * PartSize \in Nat /\ PartSize \in Nat
      /\ Part(c) * PartSize <= c /\ c < Part(c) * PartSize + PartSize
  BY <1>3, DPart, DAssumption DEF DParts
<1>7. b = Part(c) * PartSize + pos[p] /\ b <= c
  BY <1>1, <1>4, <1>5 DEF DGet, DGetOf
<1>8. \A n \in ns : n \in DNode /\ n = m
  <2>1. \A n \in NodesOf(list[b]) : n \in AllNodes /\ n \in DNode
    BY <1>1, DNodes DEF AllNodes, NodesOf
  <2> QED  BY <1>2, <2>1 DEF DStore
<1>9. ns = {} => b # c
  BY <1>2, <1>3
<1>10. \/ /\ ns # {} /\ pc'[p] = "got" /\ answer'[p] = arg[p] /\ UNCHANGED pos
          /\ answer' \in [Procs -> Stacks \union {NoStack}]
       \/ /\ ns = {} /\ pos'[p] = pos[p] + 1 /\ pos'[p] < PartSize /\ UNCHANGED <<pc, answer>>
          /\ pos' \in [Procs -> Nat]
  <2>1. CASE ns # {}
    <3>1. PICK n \in ns : answer' = [answer EXCEPT ![p] = n.stack] /\ Goto(p, "got") /\ UNCHANGED pos
      BY <2>1
    <3>2. n.stack = arg[p]
      BY <1>2, <1>8
    <3> QED  BY <1>1, <2>1, <3>1, <3>2 DEF DTyped
  <2>2. CASE ns = {}
    <3>1. pos' = [pos EXCEPT ![p] = @ + 1] /\ UNCHANGED answer
      BY <2>2
    <3>2. pos'[p] = pos[p] + 1 /\ pos' \in [Procs -> Nat]
      BY <3>1, <1>1 DEF DTyped
    <3>3. pos[p] + 1 < PartSize
      BY <1>1, <1>6, <1>7, <1>9, <2>2
    <3>4. UNCHANGED pc
      <4>1. pos'[p] # PartSize
        BY <1>1, <1>6, <3>2, <3>3
      <4> QED  BY <2>2, <4>1
    <3> QED  BY <2>2, <3>1, <3>2, <3>3, <3>4
  <2> QED  BY <2>1, <2>2
<1>11. DTyped'
  <2>1. pc' \in [Procs -> Labels]
    <3>1. pc \in [Procs -> Labels] /\ "got" \in Labels
      BY DEF DTyped, Labels
    <3>2. UNCHANGED pc \/ pc' = [pc EXCEPT ![p] = "got"]
      <4> HIDE DEF ns
      <4> QED  OBVIOUS
    <3> QED  BY <3>1, <3>2
  <2>2. pos' \in [Procs -> Nat] /\ answer' \in [Procs -> Stacks \union {NoStack}]
    BY <1>10 DEF DTyped
  <2> QED  BY <2>1, <2>2 DEF DTyped, allocVars, shared
<1>12. AllNodes' = AllNodes
  BY DEF AllNodes
<1>13. DPutOf(p)' /\ ~DPending(p)'
  BY <1>1, <1>10 DEF DPutOf, DPending
<1>14. DGetOf(p)'
  <2>1. CASE ns # {}
    BY <1>10, <2>1 DEF DGetOf
  <2>2. CASE ns = {}
    <3>1. b + 1 <= c
      BY <1>1, <1>6, <1>7, <1>9, <2>2
    <3>2. (num[p] \div MaxId) * PartSize + pos'[p] <= Bucket(arg[p])
      BY <1>1, <1>4, <1>5, <1>6, <1>7, <1>10, <2>2, <3>1
    <3> QED  BY <1>1, <1>2, <1>10, <1>12, <2>2, <3>2 DEF DGetOf
  <2> QED  BY <2>1, <2>2
<1>15. \A q \in Procs \ {p} : /\ pc'[q] = pc[q] /\ arg'[q] = arg[q] /\ snap'[q] = snap[q]
                             /\ num'[q] = num[q] /\ pos'[q] = pos[q] /\ answer'[q] = answer[q]
  BY DEF DTyped
<1>16. step[p] = "done"
  BY <1>1 DEF DMemory, DSlow, DTyped
<1>17. UNCHANGED <<list, seq, given, locked, allocVars>>
  OBVIOUS
<1> HIDE DEF b, ns
<1>18. DStore' /\ DPut' /\ DIds' /\ DGet' /\ DMemory'
  BY <1>11, <1>13, <1>14, <1>15, <1>16, <1>17, DQuiet
<1>19. \A c1 \in Buckets : ~Holds(p, c1) /\ ~Holds(p, c1)'
  BY <1>1, <1>10 DEF Holds
<1>20. LocksHaveOwners'
  <2>1. p \notin holder /\ UNCHANGED <<locked, holder>> /\ pc[p] # "gone"
    BY <1>1, <1>16 DEF DMemory, DSlow, allocVars, shared
  <2> HIDE DEF DInv, Scan
  <2> QED  BY <1>15, <1>19, <2>1, DUnlocked
<1> QED  BY <1>11, <1>18, <1>20

LEMMA DOnGot == ASSUME DInv, NEW p \in Procs, Got(p) PROVE DInv'
<1> USE DEF DInv, Got, Finish, Goto, depotVars
<1>1. pc[p] = "got" /\ pc'[p] = "idle"
  BY DEF DTyped
<1>2. DTyped'
  BY DEF DTyped, Labels, allocVars, shared
<1>3. DPutOf(p)' /\ DGetOf(p)' /\ ~DPending(p)'
  BY <1>1 DEF DPutOf, DGetOf, DPending
<1>4. \A q \in Procs \ {p} : /\ pc'[q] = pc[q] /\ arg'[q] = arg[q] /\ snap'[q] = snap[q]
                             /\ num'[q] = num[q] /\ pos'[q] = pos[q] /\ answer'[q] = answer[q]
  BY DEF DTyped
<1>5. step[p] = "done"
  BY <1>1 DEF DMemory, DSlow, DTyped
<1>6. UNCHANGED <<list, seq, given, locked, allocVars>>
  OBVIOUS
<1>7. DStore' /\ DPut' /\ DIds' /\ DGet' /\ DMemory'
  BY <1>2, <1>3, <1>4, <1>5, <1>6, DQuiet
<1>8. \A c \in Buckets : ~Holds(p, c) /\ ~Holds(p, c)'
  BY <1>1 DEF Holds
<1>9. LocksHaveOwners'
  <2>1. p \notin holder /\ UNCHANGED <<locked, holder>> /\ pc[p] # "gone"
    BY <1>1, <1>5 DEF DMemory, DSlow, allocVars, shared
  <2> HIDE DEF DInv, Got
  <2> QED  BY <1>4, <1>8, <2>1, DUnlocked
<1> QED  BY <1>2, <1>7, <1>9

LEMMA DOnBeforeFork == ASSUME DInv, NEW p \in Procs, BeforeFork(p) PROVE DInv'
<1> USE DEF DInv, BeforeFork, Goto, depotVars
<1>1. pc[p] = "idle" /\ pc'[p] = "lockall" /\ num'[p] = 0
  BY DEF DTyped
<1>2. DTyped'
  BY DEF DTyped, Labels, allocVars, shared
<1>3. 0 \in Buckets /\ \A b \in Buckets : ~(b < 0)
  BY DAssumption DEF Buckets, TabSize
<1>4. DPutOf(p)' /\ DGetOf(p)' /\ ~DPending(p)'
  BY <1>1, <1>3 DEF DPutOf, DGetOf, DPending
<1>5. \A q \in Procs \ {p} : /\ pc'[q] = pc[q] /\ arg'[q] = arg[q] /\ snap'[q] = snap[q]
                             /\ num'[q] = num[q] /\ pos'[q] = pos[q] /\ answer'[q] = answer[q]
  BY DEF DTyped
<1>6. step[p] = "done"
  BY <1>1 DEF DMemory, DSlow, DTyped
<1>7. UNCHANGED <<list, seq, given, locked, allocVars>>
  OBVIOUS
<1>8. DStore' /\ DPut' /\ DIds' /\ DGet' /\ DMemory'
  BY <1>2, <1>4, <1>5, <1>6, <1>7, DQuiet
<1>9. \A c \in Buckets : ~Holds(p, c) /\ ~Holds(p, c)'
  BY <1>1, <1>3 DEF Holds
<1>10. LocksHaveOwners'
  <2>1. p \notin holder /\ UNCHANGED <<locked, holder>> /\ pc[p] # "gone"
    BY <1>1, <1>6 DEF DMemory, DSlow, allocVars, shared
  <2> HIDE DEF DInv, BeforeFork
  <2> QED  BY <1>5, <1>9, <2>1, DUnlocked
<1> QED  BY <1>2, <1>8, <1>10

LEMMA DOnLockAll == ASSUME DInv, NEW p \in Procs, LockAll(p) PROVE DInv'
<1> USE DEF DInv, LockAll, Goto
<1>1. pc[p] = "lockall" /\ num[p] \in Buckets /\ num[p] \in Nat /\ TabSize \in Nat
  BY DAssumption DEF DTyped, DPut, DPutOf, TabSize
<1>2. num'[p] = num[p] + 1 /\ num' \in [Procs -> Nat]
  BY <1>1 DEF DTyped
<1>3. \/ num'[p] = TabSize /\ pc' = [pc EXCEPT ![p] = "fork"]
      \/ num'[p] # TabSize /\ UNCHANGED pc
  BY <1>2
<1>4. \/ num[p] + 1 = TabSize /\ pc'[p] = "fork"
      \/ num[p] + 1 # TabSize /\ pc'[p] = "lockall"
  BY <1>1, <1>2, <1>3 DEF DTyped
<1>5. DTyped'
  <2>1. pc' \in [Procs -> Labels]
    BY <1>3 DEF DTyped, Labels
  <2> QED  BY <1>2, <2>1 DEF DTyped, allocVars, shared
<1>6. DPutOf(p)' /\ DGetOf(p)' /\ ~DPending(p)'
  <2>1. pc'[p] = "lockall" => num'[p] \in Buckets
    BY <1>1, <1>2, <1>4 DEF Buckets
  <2> QED  BY <1>4, <2>1 DEF DPutOf, DGetOf, DPending
<1>7. \A q \in Procs \ {p} : /\ pc'[q] = pc[q] /\ arg'[q] = arg[q] /\ snap'[q] = snap[q]
                             /\ num'[q] = num[q] /\ pos'[q] = pos[q] /\ answer'[q] = answer[q]
  BY <1>3 DEF DTyped
<1>8. step[p] = "done"
  BY <1>1 DEF DMemory, DSlow, DTyped
<1>9. UNCHANGED <<list, seq, given, allocVars>>
  OBVIOUS
<1>10. DStore' /\ DPut' /\ DIds' /\ DGet' /\ DMemory'
  BY <1>5, <1>6, <1>7, <1>8, <1>9, DQuiet
<1>11. LocksHaveOwners'
  <2>k. PICK k : k = num[p]
    OBVIOUS
  <2>1. \A q \in holder' : pc'[q] = "publish"
    BY <1>1, <1>7 DEF LocksHaveOwners, allocVars, shared, DTyped
  <2>2. \A c \in Buckets : Holds(p, c)' <=> c \notin {} /\ (Holds(p, c) \/ c \in {k})
    <3>1. \A c \in Buckets : c \in Nat /\ c < TabSize
      BY <1>1 DEF Buckets
    <3> QED  BY <2>k, <1>1, <1>2, <1>4, <3>1 DEF Holds
  <2>3. \A c \in Buckets : locked'[c] <=> c \notin {} /\ (locked[c] \/ c \in {k})
    BY <2>k, <1>1 DEF DTyped
  <2>4. {k} \in SUBSET Buckets /\ {} \in SUBSET Buckets /\ \A c \in {k} : ~locked[c]
    BY <2>k, <1>1
  <2>5. pc[p] # "gone"
    BY <1>1
  <2> HIDE DEF DInv, LockAll
  <2> QED  BY <1>7, <2>1, <2>2, <2>3, <2>4, <2>5, DLocking
<1> QED  BY <1>5, <1>10, <1>11

(* Who forks has every lock, so nobody else is where the child would lack him. *)
LEMMA DOnFork == ASSUME DInv, NEW p \in Procs, Fork(p) PROVE DInv'
<1> USE DEF DInv, Fork, Goto, depotVars
<1>1. pc[p] = "fork" /\ pc'[p] = "unlockall" /\ num'[p] = 0
  BY DEF DTyped
<1>2. DTyped'
  BY DEF DTyped, Labels, allocVars, shared
<1>3. 0 \in Buckets /\ \A b \in Buckets : b >= 0
  BY DAssumption DEF Buckets, TabSize
<1>4. DPutOf(p)' /\ DGetOf(p)' /\ ~DPending(p)'
  BY <1>1, <1>3 DEF DPutOf, DGetOf, DPending
<1>5. \A q \in Procs \ {p} :
           \/ pc'[q] = "gone"
           \/ /\ pc'[q] = pc[q] /\ arg'[q] = arg[q] /\ snap'[q] = snap[q]
              /\ num'[q] = num[q] /\ pos'[q] = pos[q] /\ answer'[q] = answer[q]
  BY DEF DTyped
<1>6. step[p] = "done"
  BY <1>1 DEF DMemory, DSlow, DTyped
<1>7. UNCHANGED <<list, seq, given, locked, allocVars>>
  OBVIOUS
<1>8. DStore' /\ DPut' /\ DIds' /\ DGet' /\ DMemory'
  BY <1>2, <1>4, <1>5, <1>6, <1>7, DQuiet
<1>9. /\ \A b \in Buckets : Holds(p, b) /\ Holds(p, b)' /\ locked[b]
      /\ \A b \in Buckets, q \in Procs : Holds(q, b) => q = p
      /\ \A q \in holder : pc[q] = "publish"
  <2>1. \E q \in Procs : pc[q] # "gone"
    BY <1>1
  <2>2. \A b \in Buckets : Holds(p, b) /\ Holds(p, b)'
    BY <1>1, <1>3 DEF Holds
  <2> QED  BY <2>1, <2>2 DEF LocksHaveOwners
<1>10. \A b \in Buckets, q \in Procs \ {p} : ~Holds(q, b)'
  <2> SUFFICES ASSUME NEW b \in Buckets, NEW q \in Procs \ {p}, Holds(q, b)' PROVE FALSE
    OBVIOUS
  <2>1. pc'[q] # "gone"
    BY DEF Holds
  <2>2. pc'[q] = pc[q] /\ arg'[q] = arg[q] /\ num'[q] = num[q]
    BY <1>5, <2>1
  <2>3. Holds(q, b)
    BY <2>2 DEF Holds
  <2> QED  BY <2>3, <1>9
<1>11. holder = {}
  <2> SUFFICES ASSUME NEW q \in holder PROVE FALSE
    OBVIOUS
  <2>1. q \in Procs /\ pc[q] = "publish" /\ arg[q] \in Stacks
    BY <1>9 DEF DTyped, DPut, DPutOf
  <2>2. Holds(q, Bucket(arg[q])) /\ Bucket(arg[q]) \in Buckets
    BY <2>1, DAssumption DEF Holds
  <2> QED  BY <1>1, <1>9, <2>1, <2>2
<1>12. LocksHaveOwners'
  <2>1. \A b \in Buckets : locked'[b] <=> \E q \in Procs : Holds(q, b)'
    BY <1>7, <1>9
  <2>2. \A b \in Buckets, q, r \in Procs : Holds(q, b)' /\ Holds(r, b)' => q = r
    BY <1>10
  <2>3. \A q \in holder' : pc'[q] = "publish"
    BY <1>7, <1>11 DEF allocVars, shared
  <2> HIDE DEF DInv, Fork
  <2> QED  BY <2>1, <2>2, <2>3 DEF LocksHaveOwners
<1> QED  BY <1>2, <1>8, <1>12

LEMMA DOnUnlockAll == ASSUME DInv, NEW p \in Procs, UnlockAll(p) PROVE DInv'
<1> USE DEF DInv, UnlockAll, Goto, Finish
<1>1. pc[p] = "unlockall" /\ num[p] \in Buckets /\ num[p] \in Nat /\ TabSize \in Nat
  BY DAssumption DEF DTyped, DPut, DPutOf, TabSize
<1>2. \/ num[p] + 1 = TabSize /\ pc'[p] = "idle" /\ pc' = [pc EXCEPT ![p] = "idle"]
      \/ num[p] + 1 # TabSize /\ pc'[p] = "unlockall" /\ UNCHANGED pc /\ num'[p] = num[p] + 1
  BY <1>1 DEF DTyped
<1>3. DTyped'
  <2>1. pc' \in [Procs -> Labels]
    BY <1>2 DEF DTyped, Labels
  <2>2. /\ arg' \in [Procs -> Stacks \union {NoStack}] /\ answer' \in [Procs -> Stacks \union {NoStack}]
        /\ snap' \in [Procs -> Seq(DNode)] /\ num' \in [Procs -> Nat] /\ pos' \in [Procs -> Nat]
    <3>1. << >> \in Seq(DNode) /\ num[p] + 1 \in Nat
      BY <1>1
    <3>2. /\ arg \in [Procs -> Stacks \union {NoStack}] /\ answer \in [Procs -> Stacks \union {NoStack}]
          /\ snap \in [Procs -> Seq(DNode)] /\ num \in [Procs -> Nat] /\ pos \in [Procs -> Nat]
      BY DEF DTyped
    <3>3. CASE num[p] + 1 = TabSize
      <4>1. /\ arg' = [arg EXCEPT ![p] = NoStack] /\ answer' = [answer EXCEPT ![p] = NoStack]
            /\ snap' = [snap EXCEPT ![p] = << >>]
            /\ num' = [num EXCEPT ![p] = 0] /\ pos' = [pos EXCEPT ![p] = 0]
        BY <3>3
      <4> HIDE DEF DInv, UnlockAll
      <4> QED  BY <3>1, <3>2, <4>1
    <3>4. CASE num[p] + 1 # TabSize
      <4>1. num' = [num EXCEPT ![p] = num[p] + 1] /\ UNCHANGED <<arg, snap, pos, answer>>
        BY <3>4
      <4> HIDE DEF DInv, UnlockAll
      <4> QED  BY <3>1, <3>2, <4>1
    <3> QED  BY <3>3, <3>4
  <2>3. locked' \in [Buckets -> BOOLEAN]
    BY DEF DTyped
  <2> QED  BY <2>1, <2>2, <2>3 DEF DTyped, allocVars, shared
<1>4. DPutOf(p)' /\ DGetOf(p)' /\ ~DPending(p)'
  <2>1. pc'[p] = "unlockall" => num'[p] \in Buckets
    BY <1>1, <1>2 DEF Buckets
  <2> QED  BY <1>2, <2>1 DEF DPutOf, DGetOf, DPending
<1>5. \A q \in Procs \ {p} : /\ pc'[q] = pc[q] /\ arg'[q] = arg[q] /\ snap'[q] = snap[q]
                             /\ num'[q] = num[q] /\ pos'[q] = pos[q] /\ answer'[q] = answer[q]
  BY DEF DTyped
<1>6. step[p] = "done"
  BY <1>1 DEF DMemory, DSlow, DTyped
<1>7. UNCHANGED <<list, seq, given, allocVars>>
  OBVIOUS
<1>8. DStore' /\ DPut' /\ DIds' /\ DGet' /\ DMemory'
  BY <1>3, <1>4, <1>5, <1>6, <1>7, DQuiet
<1>9. LocksHaveOwners'
  <2>k. PICK k : k = num[p]
    OBVIOUS
  <2>1. \A q \in holder' : pc'[q] = "publish"
    BY <1>1, <1>5 DEF LocksHaveOwners, allocVars, shared, DTyped
  <2>2. \A c \in Buckets : Holds(p, c)' <=> c \notin {k} /\ (Holds(p, c) \/ c \in {})
    <3>1. \A c \in Buckets : c \in Nat /\ c < TabSize
      BY <1>1 DEF Buckets
    <3> QED  BY <2>k, <1>1, <1>2, <3>1 DEF Holds
  <2>3. \A c \in Buckets : locked'[c] <=> c \notin {k} /\ (locked[c] \/ c \in {})
    BY <2>k, <1>1 DEF DTyped
  <2>4. {k} \in SUBSET Buckets /\ {} \in SUBSET Buckets /\ \A c \in {k} : Holds(p, c)
    BY <2>k, <1>1 DEF Holds
  <2>5. pc[p] # "gone"
    BY <1>1
  <2> HIDE DEF DInv, UnlockAll
  <2> QED  BY <1>5, <2>1, <2>2, <2>3, <2>4, <2>5, DLocking
<1> QED  BY <1>3, <1>8, <1>9

-------------------------------------------------------------------------------
(* The next id of a part is nobody's.                                          *)
LEMMA DOnTakeId == ASSUME DInv, NEW p \in Procs, TakeId(p) PROVE DInv'
<1> USE DEF DInv, TakeId, Goto
<1>b. PICK b : b = Bucket(arg[p])
  OBVIOUS
<1>n. PICK new : new = Id(Part(b), seq[Part(b)] + 1)
  OBVIOUS
<1>1. pc[p] = "id" /\ arg[p] \in Stacks /\ b \in Buckets /\ Part(b) \in DParts /\ Part(b) \in Nat
  BY <1>b, DAssumption, DPart DEF DTyped, DPut, DPutOf, DParts
<1>2. /\ seq[Part(b)] \in Nat /\ seq[Part(b)] + 1 < MaxId /\ pc' = [pc EXCEPT ![p] = "alloc"]
      /\ seq' = [seq EXCEPT ![Part(b)] = seq[Part(b)] + 1] /\ num' = [num EXCEPT ![p] = new]
  BY <1>b, <1>n, <1>1 DEF DTyped
<1>3. new \in Nat
  BY <1>n, <1>1, <1>2, DAssumption DEF Id
<1>4. /\ pc'[p] = "alloc" /\ num'[p] = new /\ seq'[Part(b)] = seq[Part(b)] + 1
      /\ \A r \in DParts : r # Part(b) => seq'[r] = seq[r]
  BY <1>1, <1>2 DEF DTyped
<1>5. DTyped'
  <2>1. seq' \in [DParts -> 0 .. MaxId - 1]
    <3>1. seq[Part(b)] + 1 \in 0 .. MaxId - 1
      BY <1>2, DAssumption
    <3> QED  BY <1>2, <3>1 DEF DTyped
  <2>2. pc' \in [Procs -> Labels] /\ num' \in [Procs -> Nat]
    BY <1>2, <1>3 DEF DTyped, Labels
  <2> QED  BY <2>1, <2>2 DEF DTyped, allocVars, shared
<1>6. \A q \in Procs \ {p} : /\ pc'[q] = pc[q] /\ arg'[q] = arg[q] /\ snap'[q] = snap[q]
                             /\ num'[q] = num[q] /\ pos'[q] = pos[q] /\ answer'[q] = answer[q]
  BY <1>2 DEF DTyped
<1>7. AllNodes' = AllNodes
  BY DEF AllNodes
<1>8. \A c \in Buckets : \A id : DTaken(c, id) => DTaken(c, id)' /\ id # new
  <2> SUFFICES ASSUME NEW c \in Buckets, NEW id, DTaken(c, id) PROVE DTaken(c, id)' /\ id # new
    OBVIOUS
  <2>1. Part(c) \in DParts /\ Part(c) \in Nat /\ seq[Part(c)] \in Nat /\ seq[Part(c)] < MaxId
    BY DPart, DAssumption DEF DTyped, DParts
  <2>2. PICK k \in 1 .. seq[Part(c)] : id = Id(Part(c), k)
    BY DEF DTaken
  <2>3. k \in 1 .. seq'[Part(c)]
    BY <1>2, <1>4, <2>1, <2>2
  <2>4. DTaken(c, id)'
    BY <2>2, <2>3 DEF DTaken
  <2>5. id # new
    <3>1. CASE Part(c) = Part(b)
      BY <1>1, <1>2, <2>1, <2>2, <3>1, DIdInj, <1>n
    <3>2. CASE Part(c) # Part(b)
      <4>1. id \div MaxId = Part(c)
        BY DIdPart
      <4>2. seq[Part(b)] + 1 \in 1 .. MaxId - 1
        BY <1>2, DAssumption
      <4>4. new \div MaxId = Part(b)
        BY <1>1, <1>n, <4>2, DIdOf
      <4> QED  BY <3>2, <4>1, <4>4
    <3> QED  BY <3>1, <3>2
  <2> QED  BY <2>4, <2>5
<1>9. DTaken(b, new)'
  <2>1. seq'[Part(b)] \in 1 .. seq'[Part(b)] /\ new = Id(Part(b), seq'[Part(b)])
    BY <1>n, <1>2, <1>4, <1>1
  <2> QED  BY <2>1 DEF DTaken
<1>10. DStore'
  BY <1>7, <1>8 DEF DStore
<1>11. \A n \in AllNodes : n.id # new
  <2> SUFFICES ASSUME NEW n \in AllNodes PROVE n.id # new
    OBVIOUS
  <2>1. PICK c \in Buckets : n \in NodesOf(list[c])
    BY DEF AllNodes
  <2> QED  BY <2>1, <1>8 DEF DStore
<1>12. DIds'
  <2>1. \A q \in Procs \ {p} : DPending(q)' => DPending(q) /\ num'[q] # new /\ DTaken(Bucket(arg[q]), num[q])'
    <3> SUFFICES ASSUME NEW q \in Procs \ {p}, DPending(q)'
                 PROVE DPending(q) /\ num'[q] # new /\ DTaken(Bucket(arg[q]), num[q])'
      OBVIOUS
    <3>1. DPending(q) /\ num'[q] = num[q] /\ arg'[q] = arg[q] /\ DTaken(Bucket(arg[q]), num[q])
      BY <1>6 DEF DPending, DIds
    <3>2. Bucket(arg[q]) \in Buckets
      BY <3>1, DAssumption DEF DPut, DPutOf, DPending
    <3> QED  BY <1>8, <3>1, <3>2
  <2>2. DTaken(Bucket(arg[p]), num[p])'
    BY <1>b, <1>4, <1>9
  <2>3. \A q \in Procs : DPending(q)' => DTaken(Bucket(arg[q]), num[q])' /\ \A n \in AllNodes' : n.id # num'[q]
    BY <1>4, <1>6, <1>7, <1>11, <2>1, <2>2 DEF DIds
  <2>4. \A q, r \in Procs : DPending(q)' /\ DPending(r)' /\ num'[q] = num'[r] => q = r
    BY <1>4, <1>6, <2>1 DEF DIds
  <2> HIDE DEF DInv, TakeId
  <2> QED  BY <2>3, <2>4 DEF DIds
<1>13. DPut'
  <2>1. DPutOf(p)'
    BY <1>b, <1>1, <1>4 DEF DPut, DPutOf
  <2> QED  BY <1>6, <2>1 DEF DPut, DPutOf
<1>14. DGet'
  BY <1>4, <1>6, <1>7 DEF DGet, DGetOf
<1>15. DMemory'
  <2>1. step[p] = "done"
    BY <1>1 DEF DMemory, DSlow, DTyped
  <2>2. DSlow'
    BY <1>6, <2>1 DEF DMemory, DSlow, allocVars, shared
  <2>3. \A x \in Nat : DFloor(x)' <=> DFloor(x)
    BY DEF DFloor, allocVars, shared
  <2>4. DStrict' /\ UNCHANGED stale /\ (~stale => DRegion' /\ DBlocks)
    BY <2>3 DEF DMemory, DFresh, DRegion, DStrict, Touching, DCmp, DSwap, allocVars, shared
  <2>5. \A q \in Procs : (DReturned(q)' <=> DReturned(q)) /\ mem'[q] = mem[q] /\ arg'[q] = arg[q]
    BY <1>1, <1>4, <1>6 DEF DReturned, allocVars
  <2>6. \A a, z \in Nat : DRoom(a, z)' <=> DRoom(a, z)
    BY <2>3 DEF DRoom, allocVars, shared
  <2>7. \A s \in Stacks : StorageSize(s) \in Nat
    BY DAssumption
  <2>8. \A n \in AllNodes : n.at \in Nat /\ n.stack \in Stacks
    BY DNodes DEF DNode
  <2>9. \A q \in Procs : DReturned(q) => arg[q] \in Stacks /\ mem[q] \in Nat
    BY DEF DReturned, DPut, DPutOf, DTyped
  <2>10. ASSUME ~stale PROVE DBlocks'
    BY <1>7, <2>4, <2>5, <2>6, <2>7, <2>8, <2>9, <2>10 DEF DBlocks
  <2> QED  BY <2>2, <2>4, <2>10 DEF DMemory, DFresh
<1>16. LocksHaveOwners'
  <2>1. \A c \in Buckets, q \in Procs : Holds(q, c)' <=> Holds(q, c)
    <3>1. \A c \in Buckets : Holds(p, c)' <=> Holds(p, c)
      BY <1>b, <1>1, <1>4 DEF Holds
    <3> QED  BY <1>6, <3>1 DEF Holds
  <2>2. \A q \in holder' : q \in holder /\ pc'[q] = "publish"
    BY <1>1, <1>6 DEF LocksHaveOwners, allocVars, shared, DTyped
  <2> QED  BY <1>1, <2>1, <2>2 DEF LocksHaveOwners
<1> QED  BY <1>5, <1>10, <1>12, <1>13, <1>14, <1>15, <1>16

-------------------------------------------------------------------------------
(* What nodes and blocks are made of.                                          *)
LEMMA DBlockTypes ==
  ASSUME DTyped, DPut
  PROVE  /\ \A s \in Stacks : StorageSize(s) \in Nat \ {0}
         /\ \A n \in AllNodes : n.at \in Nat /\ n.stack \in Stacks /\ StorageSize(n.stack) \in Nat \ {0}
         /\ \A q \in Procs : DReturned(q) => /\ arg[q] \in Stacks /\ mem[q] \in Nat
                                             /\ StorageSize(arg[q]) \in Nat \ {0}
         /\ \A z \in Sizes : z \in Nat \ {0}
         /\ \A r \in regions : r.start \in Nat /\ r.end \in Nat
<1>1. \A s \in Stacks : StorageSize(s) \in Nat \ {0}
  BY DAssumption
<1>2. \A n \in AllNodes : n.at \in Nat /\ n.stack \in Stacks
  BY DNodes DEF DNode
<1>3. \A q \in Procs : DReturned(q) => arg[q] \in Stacks /\ mem[q] \in Nat
  BY DEF DReturned, DPut, DPutOf, DTyped
<1>4. \A r \in regions : r.start \in Nat /\ r.end \in Nat
  <2>1. \A r \in DRegions : r.start \in Nat /\ r.end \in Nat
    BY DAssumption DEF DRegions
  <2> QED  BY <2>1 DEF DTyped
<1> QED  BY <1>1, <1>2, <1>3, <1>4, DAssumption

(* No block becomes one, no region changes and the next block's start is what  *)
(* it was or nothing.                                                          *)
LEMMA DKeeps ==
  ASSUME DInv, UNCHANGED <<region_end, regions, stale, list>>,
         \A x \in Nat : DFloor(x)' => DFloor(x),
         \A q \in Procs : DReturned(q)' => DReturned(q) /\ mem'[q] = mem[q] /\ arg'[q] = arg[q]
  PROVE  DFresh'
<1>0. SUFFICES ASSUME ~stale PROVE DRegion' /\ DBlocks'
  BY DEF DFresh
<1> USE <1>0 DEF DInv
<1>1. DRegion'
  BY DEF DMemory, DFresh, DRegion
<1>2. \A a, z \in Nat : DRoom(a, z) => DRoom(a, z)'
  BY DEF DRoom
<1>3. AllNodes' = AllNodes
  BY DEF AllNodes
<1>4. DBlocks
  BY DEF DMemory, DFresh
<1>5. \A n \in AllNodes : DRoom(n.at, StorageSize(n.stack))'
  BY <1>2, <1>4, DBlockTypes DEF DBlocks
<1>6. \A q \in Procs : DReturned(q)' => DRoom(mem[q], StorageSize(arg[q]))'
  BY <1>2, <1>4, DBlockTypes DEF DBlocks
<1>7. DBlocks'
  BY <1>3, <1>4, <1>5, <1>6 DEF DBlocks
<1> QED  BY <1>1, <1>7

(* A step of the allocator leaves the depot alone.                             *)
LEMMA DAllocates ==
  ASSUME DInv, UNCHANGED <<depotVars, callVars>>, DTyped', DMemory',
         \A q \in holder' : q \in Procs /\ pc[q] = "publish"
  PROVE  DInv'
<1> USE DEF DInv, depotVars, callVars
<1>1. AllNodes' = AllNodes
  BY DEF AllNodes
<1>2. DStore'
  BY <1>1 DEF DStore, DTaken
<1>3. DIds'
  BY <1>1 DEF DIds, DPending, DTaken
<1>4. DPut' /\ DGet'
  BY <1>1 DEF DPut, DPutOf, DGet, DGetOf
<1>5. LocksHaveOwners'
  BY DEF LocksHaveOwners, Holds
<1> QED  BY <1>2, <1>3, <1>4, <1>5

LEMMA DAllocTyped ==
  ASSUME DTyped, stale' \in BOOLEAN, UNCHANGED <<depotVars, callVars>>, region_pos' \in Nat, region_end' \in Nat,
         holder' \in SUBSET Procs, regions' \in SUBSET DRegions,
         step' \in [Procs -> {"done", "pos", "end", "swap", "lock", "reset", "map", "publish"}],
         slow' \in [Procs -> BOOLEAN], size' \in [Procs -> Nat],
         cmp' \in [Procs -> Nat], mem' \in [Procs -> Nat]
  PROVE  DTyped'
BY DEF DTyped, depotVars, callVars

(* Who is in the loop under the mutex is alone in it.                          *)
LEMMA DAlone ==
  ASSUME DInv, NEW p \in Procs, slow[p]
  PROVE  /\ holder = {p} /\ \A q \in Procs \ {p} : ~slow[q] /\ step[q] \notin {"reset", "map", "publish"}
BY DEF DInv, DMemory, DSlow, DTyped

LEMMA DHolders ==
  ASSUME DInv, NEW p \in Procs, pc[p] = "publish"
  PROVE  \A q \in holder : q \in Procs /\ pc[q] = "publish"
BY DEF DInv, LocksHaveOwners, DTyped

LEMMA DOnLoadPos ==
  ASSUME DInv, NEW p \in Procs, pc[p] = "publish", LoadPos(p), UNCHANGED <<depotVars, callVars>>
  PROVE  DInv'
<1> USE DEF LoadPos, At, shared
<1>1. /\ DTyped /\ step[p] = "pos" /\ DSlow /\ DFresh /\ DStrict
      /\ UNCHANGED <<pc, arg, list, region_pos, region_end, holder, regions, stale, slow, size, mem>>
  BY DEF DInv, DMemory, depotVars, callVars
<1>2. /\ step'[p] = "end" /\ cmp'[p] = region_pos
      /\ \A q \in Procs \ {p} : step'[q] = step[q] /\ cmp'[q] = cmp[q]
      /\ step' \in [Procs -> {"done", "pos", "end", "swap", "lock", "reset", "map", "publish"}]
      /\ cmp' \in [Procs -> Nat]
  BY <1>1 DEF DTyped
<1>3. DTyped'
  BY <1>1, <1>2, DAllocTyped DEF DTyped
<1>4. \A x \in Nat : DFloor(x)' <=> DFloor(x)
  BY <1>1, <1>2 DEF DFloor
<1>5. DFresh'
  BY <1>1, <1>2, <1>4, DKeeps DEF DReturned
<1>6. DSlow'
  BY <1>1, <1>2 DEF DSlow
<1>7. ASSUME ~Touching PROVE DCmp'
  <2> USE <1>7
  <2>1. region_pos # 0 => /\ \E r \in regions : r.start <= region_pos /\ region_pos <= r.end
                          /\ \A x \in Nat : DFloor(x) => x = region_pos
    <3>1. region_pos \in Nat /\ \A r \in regions : r.start \in Nat /\ r.end \in Nat
      BY DBlockTypes DEF DInv, DTyped
    <3>2. region_pos # 0 => DFloor(region_pos)
      BY DEF DFloor
    <3>3. region_pos # 0 => \A x \in Nat : DFloor(x) => x = region_pos
      BY <1>1 DEF DSlow, DFloor
    <3> QED  BY <1>1, <3>1, <3>2, <3>3 DEF DStrict, DFresh, DRegion
  <2>2. \A q \in Procs : step'[q] \in {"end", "swap"} /\ cmp'[q] # 0 =>
          /\ \E r \in regions : r.start <= cmp'[q] /\ cmp'[q] <= r.end
          /\ \A x \in Nat : DFloor(x) => cmp'[q] <= x \/ region_end < cmp'[q]
    <3>1. CASE region_pos = 0
      BY <1>1, <1>2, <3>1 DEF DStrict, DCmp
    <3>2. CASE region_pos # 0
      BY <1>1, <1>2, <2>1, <3>2 DEF DStrict, DCmp
    <3> QED  BY <3>1, <3>2
  <2> QED  BY <1>1, <1>4, <2>2 DEF DCmp
<1>9. DStrict'
  BY <1>1, <1>2, <1>4, <1>7 DEF DStrict, Touching, DSwap
<1>8. DMemory'
  BY <1>5, <1>6, <1>9 DEF DMemory
<1> QED  BY <1>1, <1>3, <1>8, DHolders, DAllocates

LEMMA DOnLoadEnd ==
  ASSUME DInv, NEW p \in Procs, pc[p] = "publish", LoadEnd(p), UNCHANGED <<depotVars, callVars>>
  PROVE  DInv'
<1> USE DEF LoadEnd, At, shared
<1>1. /\ DTyped /\ step[p] = "end" /\ DSlow /\ DFresh /\ DStrict
      /\ UNCHANGED <<pc, arg, list, region_pos, region_end, holder, regions, stale, slow, size, cmp, mem>>
  BY DEF DInv, DMemory, depotVars, callVars
<1>2. /\ \/ step'[p] = "swap" /\ cmp[p] # 0 /\ cmp[p] + size[p] <= region_end
         \/ step'[p] = "reset" /\ slow[p]
         \/ step'[p] = "lock" /\ ~slow[p]
      /\ \A q \in Procs \ {p} : step'[q] = step[q]
      /\ step' \in [Procs -> {"done", "pos", "end", "swap", "lock", "reset", "map", "publish"}]
  BY <1>1 DEF DTyped
<1>3. DTyped'
  BY <1>1, <1>2, DAllocTyped DEF DTyped
<1>4. \A x \in Nat : DFloor(x)' <=> DFloor(x)
  BY <1>1, <1>2 DEF DFloor
<1>5. DFresh'
  BY <1>1, <1>2, <1>4, DKeeps DEF DReturned
<1>6. DSlow'
  BY <1>1, <1>2 DEF DSlow
<1>7. DStrict'
  BY <1>1, <1>2, <1>4 DEF DStrict, Touching, DCmp, DSwap
<1>8. DMemory'
  BY <1>5, <1>6, <1>7 DEF DMemory
<1> QED  BY <1>1, <1>3, <1>8, DHolders, DAllocates

LEMMA DOnSwapFails ==
  ASSUME DInv, NEW p \in Procs, pc[p] = "publish", UNCHANGED <<depotVars, callVars>>,
         At(p, "swap", "pos") /\ UNCHANGED <<shared, slow, size, cmp, mem>>
  PROVE  DInv'
<1> USE DEF At, shared
<1>1. /\ DTyped /\ step[p] = "swap" /\ DSlow /\ DFresh /\ DStrict
      /\ UNCHANGED <<pc, arg, list, region_pos, region_end, holder, regions, stale, slow, size, cmp, mem>>
  BY DEF DInv, DMemory, depotVars, callVars
<1>2. /\ step'[p] = "pos" /\ \A q \in Procs \ {p} : step'[q] = step[q]
      /\ step' \in [Procs -> {"done", "pos", "end", "swap", "lock", "reset", "map", "publish"}]
  BY <1>1 DEF DTyped
<1>3. DTyped'
  BY <1>1, <1>2, DAllocTyped DEF DTyped
<1>4. \A x \in Nat : DFloor(x)' <=> DFloor(x)
  BY <1>1, <1>2 DEF DFloor
<1>5. DFresh'
  BY <1>1, <1>2, <1>4, DKeeps DEF DReturned
<1>6. DSlow'
  BY <1>1, <1>2 DEF DSlow
<1>7. DStrict'
  BY <1>1, <1>2, <1>4 DEF DStrict, Touching, DCmp, DSwap
<1>8. DMemory'
  BY <1>5, <1>6, <1>7 DEF DMemory
<1> QED  BY <1>1, <1>3, <1>8, DHolders, DAllocates

LEMMA DOnLockMtx ==
  ASSUME DInv, NEW p \in Procs, pc[p] = "publish", LockMtx(p), UNCHANGED <<depotVars, callVars>>
  PROVE  DInv'
<1> USE DEF LockMtx, At, shared
<1>1. /\ DTyped /\ step[p] = "lock" /\ DSlow /\ DFresh /\ DStrict /\ holder = {} /\ holder' = {p}
      /\ UNCHANGED <<pc, arg, list, region_pos, region_end, regions, stale, size, cmp, mem>>
  BY DEF DInv, DMemory, depotVars, callVars
<1>2. /\ step'[p] = "pos" /\ slow'[p] /\ \A q \in Procs \ {p} : step'[q] = step[q] /\ slow'[q] = slow[q]
      /\ step' \in [Procs -> {"done", "pos", "end", "swap", "lock", "reset", "map", "publish"}]
      /\ slow' \in [Procs -> BOOLEAN]
  BY <1>1 DEF DTyped
<1>3. DTyped'
  BY <1>1, <1>2, DAllocTyped DEF DTyped
<1>4. \A x \in Nat : DFloor(x)' <=> DFloor(x)
  BY <1>1, <1>2 DEF DFloor
<1>5. DFresh'
  BY <1>1, <1>2, <1>4, DKeeps DEF DReturned
<1>6. DSlow'
  BY <1>1, <1>2 DEF DSlow
<1>7. DStrict'
  BY <1>1, <1>2, <1>4 DEF DStrict, Touching, DCmp, DSwap
<1>8. DMemory'
  BY <1>5, <1>6, <1>7 DEF DMemory
<1> QED  BY <1>1, <1>3, <1>8, DAllocates

(* Who resets the position is alone, so there is no start for a block.         *)
LEMMA DOnReset ==
  ASSUME DInv, NEW p \in Procs, pc[p] = "publish", Reset(p), UNCHANGED <<depotVars, callVars>>
  PROVE  DInv'
<1> USE DEF Reset, At, shared
<1>1. /\ DTyped /\ step[p] = "reset" /\ DSlow /\ DFresh /\ DStrict /\ region_pos' = 0 /\ slow[p]
      /\ UNCHANGED <<pc, arg, list, region_end, holder, regions, stale, slow, size, cmp, mem>>
  BY DEF DInv, DMemory, depotVars, callVars, DSlow
<1>2. /\ step'[p] = "map" /\ \A q \in Procs \ {p} : step'[q] = step[q]
      /\ step' \in [Procs -> {"done", "pos", "end", "swap", "lock", "reset", "map", "publish"}]
  BY <1>1 DEF DTyped
<1>3. DTyped'
  <2>1. region_pos' \in Nat
    BY <1>1
  <2> QED  BY <1>1, <1>2, <2>1, DAllocTyped DEF DTyped
<1>4. \A x \in Nat : ~DFloor(x)'
  BY <1>1, <1>2, DAlone DEF DFloor
<1>5. DFresh'
  BY <1>1, <1>2, <1>4, DKeeps DEF DReturned
<1>6. DSlow'
  BY <1>1, <1>2, DAlone DEF DSlow
<1>7. DStrict'
  BY <1>1, <1>2, <1>4 DEF DStrict, Touching, DCmp, DSwap
<1>8. DMemory'
  BY <1>5, <1>6, <1>7 DEF DMemory
<1> QED  BY <1>1, <1>3, <1>8, DHolders, DAllocates

LEMMA DOnSetPos ==
  ASSUME DInv, NEW p \in Procs, pc[p] = "publish", SetPos(p), UNCHANGED <<depotVars, callVars>>
  PROVE  DInv'
<1> USE DEF SetPos, At, shared
<1>1. /\ DTyped /\ step[p] = "publish" /\ DSlow /\ DFresh /\ DStrict /\ region_pos' = mem[p] /\ slow[p]
      /\ UNCHANGED <<pc, arg, list, region_end, holder, regions, stale, slow, size, cmp, mem>>
  BY DEF DInv, DMemory, depotVars, callVars, DSlow
<1>2. /\ step'[p] = "pos" /\ \A q \in Procs \ {p} : step'[q] = step[q]
      /\ step' \in [Procs -> {"done", "pos", "end", "swap", "lock", "reset", "map", "publish"}]
  BY <1>1 DEF DTyped
<1>3. DTyped'
  <2>1. region_pos' \in Nat
    BY <1>1 DEF DTyped
  <2> QED  BY <1>1, <1>2, <2>1, DAllocTyped DEF DTyped
<1>4. \A x \in Nat : DFloor(x)' => DFloor(x)
  BY <1>1, <1>2, DAlone DEF DFloor
<1>5. DFresh'
  BY <1>1, <1>2, <1>4, DKeeps DEF DReturned
<1>6. DSlow'
  BY <1>1, <1>2, DAlone DEF DSlow
<1>7. DStrict'
  BY <1>1, <1>2, <1>4 DEF DStrict, Touching, DCmp, DSwap
<1>8. DMemory'
  BY <1>5, <1>6, <1>7 DEF DMemory
<1> QED  BY <1>1, <1>3, <1>8, DHolders, DAllocates

(* The new region overlaps no old one.  While none touches another, a position *)
(* that was read is not in it.                                                 *)
LEMMA DOnMap ==
  ASSUME DInv, NEW p \in Procs, pc[p] = "publish", Map(p), UNCHANGED <<depotVars, callVars>>
  PROVE  DInv'
<1> USE DEF Map, At, shared
<1>1. /\ DTyped /\ step[p] = "map" /\ DSlow /\ DFresh /\ DStrict /\ slow[p]
      /\ region_pos = 0 /\ size[p] \in Sizes
      /\ UNCHANGED <<pc, arg, list, region_pos, holder, stale, slow, size, cmp>>
  BY DEF DInv, DMemory, depotVars, callVars, DSlow
<1>2. PICK r \in Places(p) : /\ regions' = regions \cup {r} /\ mem' = [mem EXCEPT ![p] = r.start]
                             /\ region_end' = r.end
  OBVIOUS
<1>3. /\ r \in DRegions /\ r.start \in Nat \ {0} /\ r.end \in Nat
      /\ r.start + RegionSize <= r.end
  <2>1. /\ r \in DRegions
        /\ r.end = r.start + (IF RegionSize < size[p] THEN size[p] ELSE RegionSize)
    BY DEF Places, DRegions
  <2>2. r.start \in Nat \ {0} /\ r.end \in Nat
    BY <2>1, DAssumption DEF DRegions
  <2>3. size[p] \in Nat /\ RegionSize \in Nat
    BY <1>1, DAssumption
  <2> QED  BY <2>1, <2>2, <2>3
<1>4. \A o \in regions : /\ o.start \in Nat /\ o.end \in Nat
                         /\ r.end <= o.start \/ o.end <= r.start
  BY DBlockTypes DEF Places, DInv
<1>5. /\ step'[p] = "publish" /\ mem'[p] = r.start
      /\ \A q \in Procs \ {p} : step'[q] = step[q] /\ mem'[q] = mem[q]
      /\ step' \in [Procs -> {"done", "pos", "end", "swap", "lock", "reset", "map", "publish"}]
      /\ mem' \in [Procs -> Nat]
  BY <1>1, <1>2, <1>3 DEF DTyped
<1>6. DTyped'
  <2>1. regions' \in SUBSET DRegions /\ region_end' \in Nat
    BY <1>1, <1>2, <1>3 DEF DTyped
  <2> QED  BY <1>1, <1>5, <2>1, DAllocTyped DEF DTyped
<1>7. \A x \in Nat : DFloor(x)' <=> x = r.start
  BY <1>1, <1>3, <1>5, DAlone DEF DFloor
<1>8. DSlow'
  BY <1>1, <1>5, DAlone DEF DSlow
<1>9. DRegion'
  <2>1. r \in regions' /\ r.end = region_end' /\ r.start <= r.end
    BY <1>2, <1>3, DAssumption
  <2>2. \A x \in Nat : DFloor(x)' => \E o \in regions' : o.end = region_end' /\ o.start <= x /\ x <= o.end
    BY <1>3, <1>7, <2>1
  <2> QED  BY <2>2 DEF DRegion
<1>10. ~Touching' => /\ DCmp /\ DSwap /\ ~stale
                    /\ \A o \in regions : r.end < o.start \/ o.end < r.start
  <2>1. ~Touching' => /\ ~Touching
                      /\ \A o \in regions : r.end # o.start /\ o.end # r.start
    BY <1>2 DEF Touching
  <2> QED  BY <1>1, <1>3, <1>4, <2>1 DEF DStrict
<1>16. ASSUME ~Touching'
       PROVE  \A q \in Procs : step'[q] \in {"end", "swap"} /\ cmp[q] # 0 =>
         /\ \E o \in regions : o.start <= cmp[q] /\ cmp[q] <= o.end
         /\ cmp[q] \in Nat
  BY <1>1, <1>5, <1>10, <1>16 DEF DCmp, DTyped
<1>11. ASSUME ~Touching' PROVE DCmp'
  <2>1. \A q \in Procs : step'[q] \in {"end", "swap"} /\ cmp'[q] # 0 =>
          /\ \E o \in regions' : o.start <= cmp'[q] /\ cmp'[q] <= o.end
          /\ cmp'[q] <= r.start \/ region_end' < cmp'[q]
    <3> SUFFICES ASSUME NEW q \in Procs, step'[q] \in {"end", "swap"}, cmp'[q] # 0
                 PROVE  /\ \E o \in regions' : o.start <= cmp'[q] /\ cmp'[q] <= o.end
                        /\ cmp'[q] <= r.start \/ region_end' < cmp'[q]
      OBVIOUS
    <3>1. PICK o \in regions : o.start <= cmp[q] /\ cmp[q] <= o.end
      BY <1>1, <1>11, <1>16
    <3>2. cmp[q] \in Nat /\ cmp'[q] = cmp[q] /\ o \in regions' /\ region_end' = r.end
      BY <1>1, <1>2, <1>11, <1>16
    <3>3. cmp[q] <= r.start \/ r.end < cmp[q]
      BY <1>3, <1>4, <1>10, <1>11, <3>1, <3>2
    <3> QED  BY <3>1, <3>2, <3>3
  <2> QED  BY <1>7, <2>1 DEF DCmp
<1>12. ASSUME ~Touching' PROVE DSwap'
  <2>1. \A q \in Procs : step'[q] = "swap" => cmp'[q] # 0 /\ cmp'[q] # r.start
    <3> SUFFICES ASSUME NEW q \in Procs, step'[q] = "swap"
                 PROVE  cmp'[q] # 0 /\ cmp'[q] # r.start
      OBVIOUS
    <3>1. step[q] = "swap" /\ cmp[q] # 0 /\ cmp'[q] = cmp[q]
      BY <1>1, <1>5 DEF DSlow
    <3>2. PICK o \in regions : o.start <= cmp[q] /\ cmp[q] <= o.end
      BY <1>5, <1>12, <1>16, <3>1
    <3>3. cmp[q] \in Nat /\ (r.end < o.start \/ o.end < r.start)
      BY <1>5, <1>10, <1>12, <1>16, <3>1
    <3>4. cmp[q] # r.start
      <4>1. r.start < r.end
        BY <1>3, DAssumption
      <4> QED  BY <1>3, <1>4, <3>2, <3>3, <4>1
    <3> QED  BY <3>1, <3>4
  <2> QED  BY <1>7, <2>1 DEF DSwap
<1>13. \A a \in Nat, z \in Nat \ {0} : DRoom(a, z) => DRoom(a, z)'
  <2> SUFFICES ASSUME NEW a \in Nat, NEW z \in Nat \ {0}, DRoom(a, z) PROVE DRoom(a, z)'
    OBVIOUS
  <2>1. PICK o \in regions : o.start <= a /\ a + z <= o.end
    BY DEF DRoom
  <2>2. a + z <= r.start \/ r.end <= a
    BY <1>3, <1>4, <2>1
  <2>3. o \in regions' /\ region_end' = r.end
    BY <1>2
  <2> QED  BY <1>7, <2>1, <2>2, <2>3 DEF DRoom
<1>14. ASSUME ~stale PROVE DBlocks'
  <2>0. DBlocks
    BY <1>1, <1>14 DEF DFresh
  <2>1. AllNodes' = AllNodes
    BY <1>1 DEF AllNodes
  <2>2. \A q \in Procs : DReturned(q)' => DReturned(q) /\ mem'[q] = mem[q] /\ arg'[q] = arg[q]
    BY <1>1, <1>5 DEF DReturned
  <2>3. \A n \in AllNodes : DRoom(n.at, StorageSize(n.stack))'
    BY <1>1, <1>13, <2>0, DBlockTypes DEF DBlocks, DInv
  <2>4. \A q \in Procs : DReturned(q)' => DRoom(mem[q], StorageSize(arg[q]))'
    <3> SUFFICES ASSUME NEW q \in Procs, DReturned(q)' PROVE DRoom(mem[q], StorageSize(arg[q]))'
      OBVIOUS
    <3>1. DRoom(mem[q], StorageSize(arg[q])) /\ mem[q] \in Nat /\ StorageSize(arg[q]) \in Nat \ {0}
      BY <1>1, <2>0, <2>2, DBlockTypes DEF DBlocks, DInv
    <3>3. \A a \in Nat, z \in Nat \ {0} : DRoom(a, z) => /\ \E o \in regions' : o.start <= a /\ a + z <= o.end
                                                        /\ \A x \in Nat : DFloor(x)' => a + z <= x \/ region_end' <= a
      BY <1>13 DEF DRoom
    <3>4. mem'[q] = mem[q] /\ arg'[q] = arg[q]
      BY <2>2
    <3> QED  BY <3>1, <3>3, <3>4 DEF DRoom
  <2> QED  BY <1>1, <2>0, <2>1, <2>2, <2>3, <2>4 DEF DBlocks
<1>15. DMemory'
  BY <1>1, <1>8, <1>9, <1>10, <1>11, <1>12, <1>14 DEF DMemory, DFresh, DStrict
<1> QED  BY <1>1, <1>6, <1>15, DHolders, DAllocates

(* The swap wins only at the position, from where there is room.               *)
LEMMA DOnReturn ==
  ASSUME DInv, NEW p \in Procs, pc[p] = "publish", region_pos = cmp[p], Return(p),
         UNCHANGED <<depotVars, callVars>>
  PROVE  DInv'
<1> USE DEF Return, At, shared
<1>p. PICK c, z : c = cmp[p] /\ z = size[p]
  OBVIOUS
<1>1. /\ DTyped /\ step[p] = "swap" /\ DSlow /\ DFresh /\ DStrict
      /\ stale' = (stale \/ c + z > region_end)
      /\ c = region_pos /\ c # 0 /\ c \in Nat /\ z \in Nat \ {0} /\ region_end \in Nat
      /\ UNCHANGED <<pc, arg, list, region_end, regions>> /\ region_pos' = c + z
      /\ holder' = holder \ {p} /\ z = StorageSize(arg[p])
  <2>1. z \in Sizes /\ cmp[p] # 0 /\ z = StorageSize(arg[p]) /\ step[p] = "swap"
    BY <1>p DEF DInv, DMemory, DSlow
  <2> QED  BY <1>p, <2>1, DAssumption DEF DInv, DMemory, depotVars, callVars, DTyped
<1>2. /\ step'[p] = "done" /\ ~slow'[p] /\ mem'[p] = c
      /\ \A q \in Procs \ {p} : /\ step'[q] = step[q] /\ slow'[q] = slow[q]
                                /\ size'[q] = size[q] /\ cmp'[q] = cmp[q] /\ mem'[q] = mem[q]
  BY <1>p, <1>1 DEF DTyped
<1>3. DTyped'
  <2>1. /\ step' \in [Procs -> {"done", "pos", "end", "swap", "lock", "reset", "map", "publish"}]
        /\ slow' \in [Procs -> BOOLEAN] /\ size' \in [Procs -> Nat]
        /\ cmp' \in [Procs -> Nat] /\ mem' \in [Procs -> Nat]
    BY <1>1 DEF DTyped
  <2>2. region_pos' \in Nat /\ holder' \in SUBSET Procs
    BY <1>1 DEF DTyped
  <2> QED  BY <1>1, <2>1, <2>2, DAllocTyped DEF DTyped
<1>4. /\ \A q \in Procs : step[q] \notin {"map", "publish"}
      /\ \A x \in Nat : DFloor(x) <=> x = c
  BY <1>1 DEF DSlow, DFloor
<1>5. \A x \in Nat : DFloor(x)' <=> x = c + z
  BY <1>1, <1>2, <1>4 DEF DFloor
<1>6. /\ Touching' <=> Touching
      /\ ~Touching => ~stale /\ DCmp /\ DSwap /\ c + z <= region_end
  BY <1>p, <1>1, <1>4 DEF Touching, DStrict, DSwap
<1>7. ASSUME ~stale'
      PROVE  /\ c + z <= region_end /\ DRegion /\ DBlocks
             /\ \E r \in regions : r.end = region_end /\ r.start <= c /\ r.start \in Nat
  <2>1. ~stale /\ ~(c + z > region_end)
    BY <1>1, <1>7
  <2>2. c + z <= region_end
    BY <1>1, <2>1
  <2>3. DRegion /\ DBlocks
    BY <1>1, <2>1 DEF DFresh
  <2> QED  BY <1>1, <1>4, <2>2, <2>3, DBlockTypes DEF DRegion, DInv
<1>8. DSlow'
  BY <1>1, <1>2, <1>4 DEF DSlow
<1>9. ASSUME ~stale' PROVE DRegion'
  <2>0. PICK r \in regions : r.end = region_end /\ r.start <= c /\ r.start \in Nat
    BY <1>7, <1>9
  <2>1. r.start <= c + z /\ c + z <= r.end
    BY <1>1, <1>7, <1>9, <2>0
  <2> QED  BY <1>1, <1>5, <2>0, <2>1 DEF DRegion
<1>10. ASSUME ~Touching
       PROVE  \A q \in Procs \ {p} : step[q] \in {"end", "swap"} /\ cmp[q] # 0 =>
         /\ \E o \in regions : o.start <= cmp[q] /\ cmp[q] <= o.end
         /\ cmp[q] \in Nat /\ (cmp[q] <= c \/ region_end < cmp[q])
  BY <1>1, <1>4, <1>6, <1>10 DEF DCmp, DTyped
<1>11. ASSUME ~Touching PROVE DCmp'
  <2>1. \A q \in Procs : step'[q] \in {"end", "swap"} /\ cmp'[q] # 0 =>
          /\ \E o \in regions' : o.start <= cmp'[q] /\ cmp'[q] <= o.end
          /\ cmp'[q] <= c + z \/ region_end' < cmp'[q]
    <3>1. \A y \in Nat : y <= c => y <= c + z
      BY <1>1
    <3> QED  BY <1>1, <1>2, <1>10, <1>11, <3>1
  <2> QED  BY <1>5, <2>1 DEF DCmp
<1>12. ASSUME ~Touching PROVE DSwap'
  <2>1. \A q \in Procs : step'[q] = "swap" => cmp'[q] # 0 /\ cmp'[q] # c + z
    <3> SUFFICES ASSUME NEW q \in Procs, step'[q] = "swap" PROVE cmp'[q] # 0 /\ cmp'[q] # c + z
      OBVIOUS
    <3>1. q # p /\ step[q] = "swap" /\ cmp[q] # 0 /\ cmp'[q] = cmp[q]
      BY <1>1, <1>2 DEF DSlow
    <3>2. cmp[q] \in Nat /\ (cmp[q] <= c \/ region_end < cmp[q])
      BY <1>10, <1>12, <3>1
    <3> QED  BY <1>1, <1>6, <1>12, <3>1, <3>2
  <2> QED  BY <1>5, <2>1 DEF DSwap
<1>13. ASSUME ~stale'
       PROVE  \A a \in Nat, y \in Nat \ {0} :
                DRoom(a, y) => DRoom(a, y)' /\ DApart(c, z, a, y) /\ DApart(a, y, c, z)
  <2> SUFFICES ASSUME NEW a \in Nat, NEW y \in Nat \ {0}, DRoom(a, y)
               PROVE  DRoom(a, y)' /\ DApart(c, z, a, y) /\ DApart(a, y, c, z)
    OBVIOUS
  <2>1. a + y <= c \/ region_end <= a
    BY <1>1, <1>4 DEF DRoom
  <2>2. a + y <= c + z \/ region_end <= a
    BY <1>1, <2>1
  <2>3. DRoom(a, y)'
    BY <1>1, <1>5, <2>2 DEF DRoom
  <2>4. c + z <= a \/ a + y <= c
    BY <1>1, <1>7, <1>13, <2>1
  <2> QED  BY <2>3, <2>4 DEF DApart
<1>14. ASSUME ~stale' PROVE DRoom(c, z)'
  <2>0. PICK r \in regions : r.end = region_end /\ r.start <= c /\ r.start \in Nat
    BY <1>7, <1>14
  <2>1. r.start <= c /\ c + z <= r.end /\ r \in regions'
    BY <1>1, <1>7, <1>14, <2>0
  <2>2. c + z <= c + z
    BY <1>1
  <2> QED  BY <1>5, <2>1, <2>2 DEF DRoom
<1>15. ASSUME ~stale' PROVE DBlocks'
  <2>0. DBlocks
    BY <1>7, <1>15
  <2>1. AllNodes' = AllNodes
    BY <1>1 DEF AllNodes
  <2>2. /\ \A q \in Procs : DReturned(q)' => q = p \/ (DReturned(q) /\ mem'[q] = mem[q] /\ arg'[q] = arg[q])
        /\ mem'[p] = c /\ StorageSize(arg'[p]) = z
    BY <1>1, <1>2 DEF DReturned
  <2>3. \A n \in AllNodes : /\ DRoom(n.at, StorageSize(n.stack))'
                            /\ DApart(c, z, n.at, StorageSize(n.stack))
    BY <1>1, <1>13, <1>15, <2>0, DBlockTypes DEF DBlocks, DInv
  <2>4. \A q \in Procs : DReturned(q) =>
          /\ DApart(c, z, mem[q], StorageSize(arg[q])) /\ DApart(mem[q], StorageSize(arg[q]), c, z)
    BY <1>1, <1>13, <1>15, <2>0, DBlockTypes DEF DBlocks, DInv
  <2>5. \A q \in Procs : DReturned(q)' => DRoom(mem[q], StorageSize(arg[q]))'
    <3> SUFFICES ASSUME NEW q \in Procs, DReturned(q)' PROVE DRoom(mem[q], StorageSize(arg[q]))'
      OBVIOUS
    <3>1. \A a \in Nat, y \in Nat \ {0} : DRoom(a, y) => /\ \E o \in regions' : o.start <= a /\ a + y <= o.end
                                                        /\ \A x \in Nat : DFloor(x)' => a + y <= x \/ region_end' <= a
      BY <1>13, <1>15 DEF DRoom
    <3>2. CASE q = p
      BY <1>14, <1>15, <2>2, <3>2 DEF DRoom
    <3>3. CASE q # p
      <4>1. DReturned(q) /\ mem'[q] = mem[q] /\ arg'[q] = arg[q]
        BY <2>2, <3>3
      <4>2. DRoom(mem[q], StorageSize(arg[q])) /\ mem[q] \in Nat /\ StorageSize(arg[q]) \in Nat \ {0}
        BY <1>1, <2>0, <4>1, DBlockTypes DEF DBlocks, DInv
      <4> QED  BY <3>1, <4>1, <4>2 DEF DRoom
    <3> QED  BY <3>2, <3>3
  <2>6. \A m, n \in AllNodes : m # n => DApart(m.at, StorageSize(m.stack), n.at, StorageSize(n.stack))
    BY <1>1, <2>0 DEF DBlocks
  <2>7. \A q \in Procs, n \in AllNodes : DReturned(q)' =>
          DApart(mem'[q], StorageSize(arg'[q]), n.at, StorageSize(n.stack))
    BY <1>1, <2>0, <2>2, <2>3 DEF DBlocks
  <2>8. \A q, s \in Procs : DReturned(q)' /\ DReturned(s)' /\ q # s =>
          DApart(mem'[q], StorageSize(arg'[q]), mem'[s], StorageSize(arg'[s]))
    BY <1>1, <2>0, <2>2, <2>4 DEF DBlocks
  <2> QED  BY <2>1, <2>3, <2>5, <2>6, <2>7, <2>8 DEF DBlocks, DApart
<1>16. DMemory'
  <2>1. ASSUME ~Touching PROVE ~stale'
    <3>1. ~stale /\ ~(c + z > region_end)
      BY <1>1, <1>6, <2>1
    <3> QED  BY <1>1, <3>1
  <2>2. DStrict'
    BY <1>6, <1>11, <1>12, <2>1 DEF DStrict
  <2> QED  BY <1>8, <1>9, <1>15, <2>2 DEF DMemory, DFresh
<1> QED  BY <1>1, <1>3, <1>16, DHolders, DAllocates

LEMMA DOnAlloc == ASSUME DInv, NEW p \in Procs, Alloc(p) PROVE DInv'
<1> USE DEF Alloc, PersistentAlloc, At, shared, Goto, depotVars
<1>1. /\ DTyped /\ pc[p] = "alloc" /\ step[p] = "done" /\ arg[p] \in Stacks /\ DSlow /\ DStrict
      /\ UNCHANGED <<list, locked, seq, arg, snap, num, pos, answer, given>>
      /\ UNCHANGED <<region_pos, region_end, holder, regions, stale, slow, cmp, mem>>
  BY DEF DInv, DMemory, DPut, DPutOf
<1>2. /\ pc'[p] = "publish" /\ step'[p] = "pos" /\ size'[p] = StorageSize(arg[p])
      /\ \A q \in Procs \ {p} : pc'[q] = pc[q] /\ step'[q] = step[q] /\ size'[q] = size[q]
  BY <1>1 DEF DTyped
<1>3. DTyped'
  <2>1. StorageSize(arg[p]) \in Nat
    BY <1>1, DAssumption
  <2>2. /\ step' \in [Procs -> {"done", "pos", "end", "swap", "lock", "reset", "map", "publish"}]
        /\ size' \in [Procs -> Nat] /\ pc' \in [Procs -> Labels]
    BY <1>1, <2>1 DEF DTyped, Labels
  <2> QED  BY <1>1, <2>2 DEF DTyped
<1>4. AllNodes' = AllNodes
  BY <1>1 DEF AllNodes
<1>5. DStore'
  BY <1>1, <1>4 DEF DInv, DStore, DTaken
<1>6. \A q \in Procs : DPending(q)' <=> DPending(q)
  BY <1>1, <1>2 DEF DPending
<1>7. DIds'
  BY <1>1, <1>4, <1>6 DEF DInv, DIds, DTaken
<1>8. DPut'
  BY <1>1, <1>2 DEF DInv, DPut, DPutOf
<1>9. DGet'
  BY <1>1, <1>2, <1>4 DEF DInv, DGet, DGetOf
<1>10. \A x \in Nat : DFloor(x)' <=> DFloor(x)
  BY <1>1, <1>2 DEF DFloor
<1>11. DFresh'
  <2>1. \A q \in Procs : DReturned(q)' => DReturned(q) /\ mem'[q] = mem[q] /\ arg'[q] = arg[q]
    BY <1>1, <1>2 DEF DReturned
  <2> QED  BY <1>1, <1>10, <2>1, DKeeps
<1>12. DSlow'
  <2>1. StorageSize(arg[p]) \in Sizes
    BY <1>1, DAssumption
  <2> QED  BY <1>1, <1>2, <2>1 DEF DSlow
<1>13. DStrict'
  BY <1>1, <1>2, <1>10 DEF DStrict, Touching, DCmp, DSwap
<1>14. LocksHaveOwners'
  <2>1. \A b \in Buckets, q \in Procs : Holds(q, b)' <=> Holds(q, b)
    <3>1. \A b \in Buckets : Holds(p, b)' <=> Holds(p, b)
      BY <1>1, <1>2 DEF Holds
    <3> QED  BY <1>1, <1>2, <3>1 DEF Holds
  <2>2. \A q \in holder' : pc'[q] = "publish"
    BY <1>1, <1>2 DEF DInv, LocksHaveOwners, DTyped
  <2> QED  BY <1>1, <2>1, <2>2 DEF DInv, LocksHaveOwners
<1> QED  BY <1>3, <1>5, <1>7, <1>8, <1>9, <1>11, <1>12, <1>13, <1>14 DEF DInv, DMemory

LEMMA DOnAllocate == ASSUME DInv, NEW p \in Procs, Allocate(p) PROVE DInv'
<1>1. pc[p] = "publish" /\ UNCHANGED <<depotVars, callVars>> /\ AllocStep(p)
  BY DEF Allocate
<1> QED  BY <1>1, DOnLoadPos, DOnLoadEnd, DOnReturn, DOnSwapFails, DOnLockMtx, DOnReset, DOnMap,
            DOnSetPos DEF AllocStep, Swap

(* The node goes in front of the list as it is, and the block becomes it.      *)
LEMMA DOnPublish == ASSUME DInv, NEW p \in Procs, Publish(p) PROVE DInv'
<1> USE DEF Publish, Finish, Goto
<1>b. PICK b, n : b = Bucket(arg[p]) /\ n = [stack |-> arg[p], id |-> num[p], at |-> mem[p]]
  OBVIOUS
<1>1. /\ DTyped /\ pc[p] = "publish" /\ step[p] = "done" /\ arg[p] \in Stacks /\ b \in Buckets
      /\ list[b] \in Seq(DNode) /\ snap[p] = list[b] /\ find(list[b], arg[p]) = {}
      /\ list' = [list EXCEPT ![b] = <<n>> \o list[b]] /\ locked' = [locked EXCEPT ![b] = FALSE]
      /\ given' = given \union {[stack |-> arg[p], id |-> num[p]]}
  <2>1. pc[p] = "publish" /\ step[p] = "done" /\ arg[p] \in Stacks /\ DTyped
    BY DEF DInv, DPut, DPutOf
  <2>2. b \in Buckets /\ snap[p] = list[b] /\ find(snap[p], arg[p]) = {}
    BY <1>b, <2>1, DAssumption DEF DInv, DPut, DPutOf
  <2>3. given' = given \union {[stack |-> arg[p], id |-> num[p]]}
    BY <1>b DEF Hands
  <2> QED  BY <1>b, <2>1, <2>2, <2>3 DEF DTyped
<1>2. UNCHANGED <<seq, region_pos, region_end, holder, regions, stale, step, slow, size, cmp, mem>>
  BY DEF allocVars, shared
<1>3. /\ DTaken(b, n.id) /\ n.id = num[p] /\ n.stack = arg[p] /\ n.at = mem[p]
      /\ \A m \in AllNodes : m.id # n.id
  BY <1>b, <1>1 DEF DInv, DIds, DPending
<1>4. n \in DNode
  <2>1. n.id \in Nat \ {0}
    BY <1>1, <1>3, DIdPart
  <2>2. mem[p] \in Nat
    BY <1>1 DEF DTyped
  <2> QED  BY <1>b, <1>1, <1>3, <2>1, <2>2 DEF DNode
<1>5. DTyped'
  <2>1. <<n>> \o list[b] \in Seq(DNode)
    BY <1>1, <1>4, SeqCons
  <2>2. list' \in [Buckets -> Seq(DNode)] /\ locked' \in [Buckets -> BOOLEAN]
    BY <1>1, <2>1 DEF DTyped
  <2>3. /\ pc' \in [Procs -> Labels]
        /\ arg' \in [Procs -> Stacks \union {NoStack}] /\ answer' \in [Procs -> Stacks \union {NoStack}]
        /\ snap' \in [Procs -> Seq(DNode)] /\ num' \in [Procs -> Nat] /\ pos' \in [Procs -> Nat]
    BY <1>1 DEF DTyped, Labels
  <2>4. given' \in SUBSET [stack : Stacks, id : Nat \ {0}]
    <3>1. num[p] \in Nat \ {0}
      BY <1>3, <1>4 DEF DNode
    <3> QED  BY <1>1, <3>1 DEF DTyped
  <2> HIDE DEF Publish, Finish, Goto
  <2> QED  BY <1>1, <1>2, <2>2, <2>3, <2>4 DEF DTyped
<1>6. /\ pc'[p] = "idle"
      /\ \A q \in Procs \ {p} : /\ pc'[q] = pc[q] /\ arg'[q] = arg[q] /\ snap'[q] = snap[q]
                                /\ num'[q] = num[q] /\ pos'[q] = pos[q] /\ answer'[q] = answer[q]
  BY <1>1 DEF DTyped
<1> HIDE DEF Publish, Finish, Goto
<1>7. /\ \A c \in Buckets : c # b => list'[c] = list[c]
      /\ list'[b] = <<n>> \o list[b] /\ Len(list'[b]) = Len(list[b]) + 1 /\ list'[b][1] = n
      /\ \A k \in 2 .. Len(list[b]) + 1 : list'[b][k] = list[b][k - 1]
      /\ \A k \in 1 .. Len(list[b]) : list'[b][k + 1] = list[b][k]
      /\ Len(list[b]) \in Nat
  BY <1>1, <1>4, SeqCons, SeqBasics DEF DTyped
<1>8. NodesOf(list'[b]) = NodesOf(list[b]) \union {n}
  <2>1. \A k \in 1 .. Len(list'[b]) : k = 1 \/ (k \in 2 .. Len(list[b]) + 1 /\ k - 1 \in 1 .. Len(list[b]))
    BY <1>7
  <2>2. 1 \in 1 .. Len(list'[b]) /\ \A k \in 1 .. Len(list[b]) : k + 1 \in 1 .. Len(list'[b])
    BY <1>7
  <2>3. NodesOf(list'[b]) \subseteq NodesOf(list[b]) \union {n}
    BY <1>7, <2>1 DEF NodesOf
  <2>4. NodesOf(list[b]) \subseteq NodesOf(list'[b])
    BY <1>7, <2>2 DEF NodesOf
  <2>5. n \in NodesOf(list'[b])
    BY <1>7, <2>2 DEF NodesOf
  <2> QED  BY <2>3, <2>4, <2>5
<1>9. AllNodes' = AllNodes \union {n}
  <2>1. \A c \in Buckets : NodesOf(list'[c]) = NodesOf(list[c]) \/ (c = b /\ NodesOf(list'[c]) = NodesOf(list[c]) \union {n})
    BY <1>7, <1>8
  <2>2. AllNodes' = UNION {NodesOf(list'[c]) : c \in Buckets}
    BY DEF AllNodes, NodesOf
  <2> QED  BY <1>1, <1>8, <2>1, <2>2 DEF AllNodes
<1>10. DStore'
  <2>1. \A c \in Buckets : \A id : DTaken(c, id)' <=> DTaken(c, id)
    BY <1>2 DEF DTaken
  <2>2. \A c \in Buckets : \A m \in NodesOf(list'[c]) : Bucket(m.stack) = c /\ DTaken(c, m.id)'
    <3> SUFFICES ASSUME NEW c \in Buckets, NEW m \in NodesOf(list'[c]) PROVE Bucket(m.stack) = c /\ DTaken(c, m.id)
      BY <2>1
    <3>1. m \in NodesOf(list[c]) \/ (c = b /\ m = n)
      BY <1>7, <1>8
    <3> QED  BY <1>b, <1>3, <3>1 DEF DInv, DStore
  <2>3. \A c \in Buckets : \A k, j \in 1 .. Len(list'[c]) : list'[c][k].stack = list'[c][j].stack => k = j
    <3> SUFFICES ASSUME NEW c \in Buckets, NEW k \in 1 .. Len(list'[c]), NEW j \in 1 .. Len(list'[c]),
                        list'[c][k].stack = list'[c][j].stack
                 PROVE k = j
      OBVIOUS
    <3>1. CASE c # b
      BY <1>7, <3>1 DEF DInv, DStore
    <3>2. CASE c = b
      <4>1. \A i \in 1 .. Len(list[b]) : list[b][i].stack # n.stack
        BY <1>1, <1>3 DEF find, NodesOf
      <4>2. \A i \in 1 .. Len(list'[b]) : i = 1 \/ (i \in 2 .. Len(list[b]) + 1 /\ i - 1 \in 1 .. Len(list[b])
                                                  /\ list'[b][i] = list[b][i - 1])
        BY <1>7
      <4>3. CASE k = 1
        <5>1. j = 1 \/ list'[b][j].stack # n.stack
          BY <3>2, <4>1, <4>2
        <5> QED  BY <1>7, <3>2, <4>3, <5>1
      <4>4. CASE j = 1
        <5>1. k = 1 \/ list'[b][k].stack # n.stack
          BY <3>2, <4>1, <4>2
        <5> QED  BY <1>7, <3>2, <4>4, <5>1
      <4>5. CASE k # 1 /\ j # 1
        <5>1. /\ k - 1 \in 1 .. Len(list[b]) /\ j - 1 \in 1 .. Len(list[b])
              /\ list[b][k - 1].stack = list[b][j - 1].stack
          BY <3>2, <4>2, <4>5
        <5>2. k - 1 = j - 1
          BY <5>1, <1>1 DEF DInv, DStore
        <5> QED  BY <5>2
      <4> QED  BY <4>3, <4>4, <4>5
    <3> QED  BY <3>1, <3>2
  <2>4. \A m, o \in AllNodes' : m.id = o.id => m = o
    BY <1>3, <1>9 DEF DInv, DStore
  <2>5. \A g \in given' : \E m \in AllNodes' : m.stack = g.stack /\ m.id = g.id
    BY <1>1, <1>3, <1>9 DEF DInv, DStore
  <2>6. \A c \in Buckets : NodesOf(list'[c]) = NodesOf(list[c])'
    BY DEF NodesOf
  <2> QED  BY <2>2, <2>3, <2>4, <2>5 DEF DStore, NodesOf
<1>11. DIds'
  <2>1. \A q \in Procs : DPending(q)' => q # p /\ DPending(q) /\ DPending(p) /\ num'[q] = num[q] /\ arg'[q] = arg[q]
    BY <1>1, <1>6 DEF DPending
  <2>2. \A c \in Buckets : \A id : DTaken(c, id)' <=> DTaken(c, id)
    BY <1>2 DEF DTaken
  <2>3. \A q \in Procs : DPending(q)' => DTaken(Bucket(arg[q]), num[q])'
    <3> SUFFICES ASSUME NEW q \in Procs, DPending(q)' PROVE DTaken(Bucket(arg[q]), num[q])'
      OBVIOUS
    <3>1. DTaken(Bucket(arg[q]), num[q])
      BY <2>1 DEF DInv, DIds
    <3> QED  BY <1>2, <2>1, <3>1 DEF DTaken
  <2>4. \A q \in Procs : DPending(q)' => \A m \in AllNodes' : m.id # num'[q]
    BY <1>3, <1>9, <2>1 DEF DInv, DIds
  <2>5. \A q, r \in Procs : DPending(q)' /\ DPending(r)' /\ num'[q] = num'[r] => q = r
    BY <2>1 DEF DInv, DIds
  <2> QED  BY <2>3, <2>4, <2>5 DEF DIds
<1>12. DPut'
  <2>1. DPutOf(p)'
    BY <1>6 DEF DPutOf
  <2>2. \A q \in Procs \ {p} : DPutOf(q)'
    <3> SUFFICES ASSUME NEW q \in Procs \ {p} PROVE DPutOf(q)'
      OBVIOUS
    <3>1. DPutOf(q)
      BY DEF DInv, DPut
    <3>2. pc[q] \in {"found", "id", "alloc", "publish"} => Bucket(arg[q]) # b /\ Bucket(arg[q]) \in Buckets
      <4> SUFFICES ASSUME pc[q] \in {"found", "id", "alloc", "publish"}
                   PROVE  Bucket(arg[q]) # b /\ Bucket(arg[q]) \in Buckets
        OBVIOUS
      <4>1. Bucket(arg[q]) \in Buckets
        BY <3>1, DAssumption DEF DPutOf
      <4>2. Holds(q, Bucket(arg[q])) /\ Holds(p, b)
        BY <1>b, <1>1 DEF Holds
      <4> QED  BY <1>1, <4>1, <4>2 DEF DInv, LocksHaveOwners
    <3> QED  BY <1>6, <1>7, <3>1, <3>2 DEF DPutOf, find
  <2> QED  BY <2>1, <2>2 DEF DPut
<1>13. DGet'
  BY <1>6, <1>9 DEF DInv, DGet, DGetOf
<1>14. DMemory'
  <2>1. \A x \in Nat : DFloor(x)' <=> DFloor(x)
    BY <1>2 DEF DFloor
  <2>2. DSlow'
    BY <1>1, <1>2, <1>6 DEF DInv, DMemory, DSlow
  <2>3. DStrict' /\ (~stale => DRegion' /\ DBlocks)
    BY <1>2, <2>1 DEF DInv, DMemory, DFresh, DRegion, DStrict, Touching, DCmp, DSwap
  <2>4. \A a, z \in Nat : DRoom(a, z) => DRoom(a, z)'
    BY <1>2, <2>1 DEF DRoom
  <2>5. \A q \in Procs : DReturned(q)' => q # p /\ DReturned(q) /\ mem'[q] = mem[q] /\ arg'[q] = arg[q]
    BY <1>1, <1>2, <1>6 DEF DReturned
  <2>12. ASSUME ~stale PROVE DBlocks'
    <3>6. DReturned(p) /\ DBlocks
      BY <1>1, <2>3, <2>12 DEF DReturned
    <3>7. \A m \in AllNodes' : DRoom(m.at, StorageSize(m.stack))'
      BY <1>3, <1>9, <2>4, <3>6, DBlockTypes DEF DBlocks, DInv
    <3>8. \A q \in Procs : DReturned(q)' => DRoom(mem[q], StorageSize(arg[q]))'
      <4> SUFFICES ASSUME NEW q \in Procs, DReturned(q)' PROVE DRoom(mem[q], StorageSize(arg[q]))'
        OBVIOUS
      <4>1. DRoom(mem[q], StorageSize(arg[q])) /\ mem[q] \in Nat /\ StorageSize(arg[q]) \in Nat
        BY <2>5, <3>6, DBlockTypes DEF DBlocks, DInv
      <4> QED  BY <1>2, <2>1, <2>5, <4>1 DEF DRoom
    <3>9. \A m, o \in AllNodes' : m # o => DApart(m.at, StorageSize(m.stack), o.at, StorageSize(o.stack))
      BY <1>3, <1>9, <3>6 DEF DBlocks, DApart
    <3>10. \A q \in Procs, m \in AllNodes' : DReturned(q)' =>
             DApart(mem'[q], StorageSize(arg'[q]), m.at, StorageSize(m.stack))
      BY <1>3, <1>9, <2>5, <3>6 DEF DBlocks
    <3>11. \A q, r \in Procs : DReturned(q)' /\ DReturned(r)' /\ q # r =>
             DApart(mem'[q], StorageSize(arg'[q]), mem'[r], StorageSize(arg'[r]))
      BY <2>5, <3>6 DEF DBlocks
    <3> QED  BY <3>7, <3>8, <3>9, <3>10, <3>11 DEF DBlocks, DApart
  <2> QED  BY <1>2, <2>2, <2>3, <2>12 DEF DMemory, DFresh
<1>15. LocksHaveOwners'
  <2>1. \A q \in holder' : pc'[q] = "publish"
    <3>1. p \notin holder
      BY <1>1 DEF DInv, DMemory, DSlow
    <3> QED  BY <1>1, <1>2, <1>6, <3>1 DEF DInv, LocksHaveOwners, DTyped
  <2>2. \A c \in Buckets : Holds(p, c)' <=> c \notin {b} /\ (Holds(p, c) \/ c \in {})
    BY <1>b, <1>1, <1>6 DEF Holds
  <2>3. \A c \in Buckets : locked'[c] <=> c \notin {b} /\ (locked[c] \/ c \in {})
    BY <1>1 DEF DTyped
  <2>4. {b} \in SUBSET Buckets /\ {} \in SUBSET Buckets /\ \A c \in {b} : Holds(p, c)
    BY <1>b, <1>1 DEF Holds
  <2>5. pc[p] # "gone"
    BY <1>1
  <2> QED  BY <1>6, <2>1, <2>2, <2>3, <2>4, <2>5, DLocking
<1> QED  BY <1>5, <1>10, <1>11, <1>12, <1>13, <1>14, <1>15 DEF DInv

-------------------------------------------------------------------------------
LEMMA DStep == ASSUME DInv, [Next]_vars PROVE DInv'
<1>1. CASE UNCHANGED vars
  <2> USE <1>1 DEF vars, depotVars, callVars, allocVars, shared
  <2>1. AllNodes' = AllNodes
    BY DEF AllNodes
  <2>2. DTyped' /\ DStore' /\ DPut' /\ DIds' /\ DGet' /\ LocksHaveOwners'
    <3>1. DTyped'
      BY DEF DInv, DTyped
    <3>2. DStore'
      BY <2>1 DEF DInv, DStore, DTaken
    <3>3. DPut' /\ DGet'
      BY <2>1 DEF DInv, DPut, DPutOf, DGet, DGetOf
    <3>4. DIds'
      BY <2>1 DEF DInv, DIds, DPending, DTaken
    <3>5. LocksHaveOwners'
      BY DEF DInv, LocksHaveOwners, Holds
    <3> QED  BY <3>1, <3>2, <3>3, <3>4, <3>5
  <2>3. \A x \in Nat : DFloor(x)' <=> DFloor(x)
    BY DEF DFloor
  <2>4. DFresh'
    BY <2>3, DKeeps DEF DReturned
  <2>5. DSlow' /\ DStrict'
    BY <2>3 DEF DInv, DMemory, DSlow, DStrict, Touching, DCmp, DSwap
  <2> QED  BY <2>2, <2>4, <2>5 DEF DInv, DMemory
<1>2. ASSUME NEW p \in Procs, NEW s \in Stacks, Put(p, s) PROVE DInv'
  BY <1>2, DOnPut
<1>3. ASSUME NEW p \in Procs, NEW g \in given, Get(p, g) PROVE DInv'
  BY <1>3, DOnGet
<1>4. ASSUME NEW p \in Procs, BeforeFork(p) PROVE DInv'
  BY <1>4, DOnBeforeFork
<1>5. ASSUME NEW p \in Procs, Step(p) PROVE DInv'
  BY <1>5, DOnLock, DOnFound, DOnTakeId, DOnEnd, DOnAlloc, DOnAllocate, DOnPublish, DOnScan, DOnGot,
     DOnLockAll, DOnFork, DOnUnlockAll DEF Step
<1> QED  BY <1>1, <1>2, <1>3, <1>4, <1>5 DEF Next, Stopped

LEMMA DSound == DInv => DepotIsSound
<1> SUFFICES ASSUME DInv PROVE DepotIsSound
  OBVIOUS
<1>1. DTyped /\ DStore /\ (~stale => DBlocks) /\ DPut
  BY DEF DInv, DMemory, DFresh
<1>2. Interned
  <2>1. \A g \in given : \E n \in AllNodes : g = [stack |-> n.stack, id |-> n.id]
    <3> SUFFICES ASSUME NEW g \in given PROVE \E n \in AllNodes : g = [stack |-> n.stack, id |-> n.id]
      OBVIOUS
    <3>1. PICK n \in AllNodes : n.stack = g.stack /\ n.id = g.id
      BY <1>1 DEF DStore
    <3>2. g \in [stack : Stacks, id : Nat \ {0}]
      BY <1>1 DEF DTyped
    <3> QED  BY <3>1, <3>2
  <2> QED  BY <1>1, <2>1 DEF Interned, DStore
<1>3. GetIsRight
  BY DEF DInv, DGet, DGetOf, GetIsRight
<1>4. LocksHaveOwners
  BY DEF DInv
<1>5. NodesAreForever
  <2>1. ~stale => \A m, n \in AllNodes : m # n => Memory(m) \cap Memory(n) = {}
    BY <1>1, DBlockTypes DEF DBlocks, DApart, Memory
  <2>2. ~stale => \A n \in AllNodes : \E r \in regions : Memory(n) \subseteq r.start .. r.end - 1
    BY <1>1, DBlockTypes DEF DBlocks, DRoom, Memory
  <2>3. stale => Touching
    BY DEF DInv, DMemory, DStrict
  <2> QED  BY <2>1, <2>2, <2>3 DEF NodesAreForever
<1> QED  BY <1>2, <1>3, <1>4, <1>5 DEF DepotIsSound

(* The depot, for any threads, stacks and sizes and wherever mmap() finds room: a stack is
   stored once and an id names one stack, lookups are right, locks have owners also in the
   child of a fork, and published nodes share no memory (sanitizer_stackdepotbase.h,
   sanitizer_persistent_allocator.h), unless a thread won a swap with the position of another
   region, which takes a region that ends where another one starts. *)
THEOREM DepotStaysSound == Spec => []DepotIsSound
<1>1. DInv /\ [Next]_vars => DInv'
  BY DStep
<1> QED  BY <1>1, DInitially, DSound, PTL DEF Spec

-------------------------------------------------------------------------------
(* AsanChunks (Q), for any threads, chunks and sizes.  Batches are full to a   *)
(* limit and never empty.                                                      *)
QBatch == {b \in Seq(Chunks) : Len(b) \in 1 .. BatchSize}
QBatches == Seq(QBatch)
QAll(q) == {x \in Chunks : \E i \in 1 .. Len(q) : \E j \in 1 .. Len(q[i]) : q[i][j] = x}
QDist(q) ==
  \A i, k \in 1 .. Len(q) : \A j \in 1 .. Len(q[i]), l \in 1 .. Len(q[k]) :
    q[i][j] = q[k][l] => i = k /\ j = l

LEMMA QAssumption ==
  /\ None \notin Users /\ None \notin Chunks /\ ChunkSize \in Nat /\ BatchBytes \in Nat
  /\ BatchSize \in Nat \ {0}
BY PartsAssumption DEF Q!AsanAssumption

LEMMA QBasics ==
  ASSUME NEW q \in QBatches
  PROVE  /\ Len(q) \in Nat /\ DOMAIN q = 1 .. Len(q)
         /\ \A i \in 1 .. Len(q) :
              /\ q[i] \in QBatch /\ q[i] \in Seq(Chunks) /\ q[i] # << >> /\ Len(q[i]) \in 1 .. BatchSize
              /\ Len(q[i]) \in Nat \ {0} /\ DOMAIN q[i] = 1 .. Len(q[i])
              /\ \A j \in 1 .. Len(q[i]) : q[i][j] \in Chunks
<1>1. Len(q) \in Nat /\ DOMAIN q = 1 .. Len(q) /\ \A i \in 1 .. Len(q) : q[i] \in QBatch
  BY SeqBasics DEF QBatches
<1>2. \A b \in QBatch : /\ b \in Seq(Chunks) /\ b # << >> /\ Len(b) \in 1 .. BatchSize
                        /\ Len(b) \in Nat \ {0} /\ DOMAIN b = 1 .. Len(b)
                        /\ \A j \in 1 .. Len(b) : b[j] \in Chunks
  BY SeqBasics, QAssumption DEF QBatch
<1> QED  BY <1>1, <1>2

LEMMA QOnce ==
  ASSUME NEW q, QDist(q), NEW i \in 1 .. Len(q), NEW k \in 1 .. Len(q),
         NEW j \in 1 .. Len(q[i]), NEW l \in 1 .. Len(q[k]), q[i][j] = q[k][l]
  PROVE  i = k /\ j = l
BY DEF QDist

LEMMA QIn ==
  ASSUME NEW q, NEW x \in QAll(q)
  PROVE  x \in Chunks /\ \E i \in 1 .. Len(q) : \E j \in 1 .. Len(q[i]) : q[i][j] = x
BY DEF QAll

(* A quarantine behind another.                                                *)
LEMMA QCat ==
  ASSUME NEW a \in QBatches, NEW b \in QBatches
  PROVE  /\ a \o b \in QBatches /\ Len(a \o b) = Len(a) + Len(b)
         /\ \A i \in 1 .. Len(a) : (a \o b)[i] = a[i]
         /\ \A i \in 1 .. Len(b) : (a \o b)[i + Len(a)] = b[i]
         /\ \A i \in 1 .. Len(a) + Len(b) :
              \/ i \in 1 .. Len(a)
              \/ i - Len(a) \in 1 .. Len(b) /\ i - Len(a) + Len(a) = i /\ i \notin 1 .. Len(a)
         /\ QAll(a \o b) = QAll(a) \union QAll(b)
         /\ QDist(a \o b) <=> QDist(a) /\ QDist(b) /\ QAll(a) \intersect QAll(b) = {}
<1> DEFINE c == a \o b
<1>1. /\ c \in QBatches /\ Len(c) = Len(a) + Len(b)
      /\ \A i \in 1 .. Len(a) + Len(b) : c[i] = IF i <= Len(a) THEN a[i] ELSE b[i - Len(a)]
  BY ConcatProperties DEF QBatches
<1> HIDE DEF c
<1>2. Len(a) \in Nat /\ Len(b) \in Nat
  BY QBasics
<1>3. /\ \A i \in 1 .. Len(a) : i \in 1 .. Len(c) /\ c[i] = a[i]
      /\ \A i \in 1 .. Len(b) : i + Len(a) \in 1 .. Len(c) /\ c[i + Len(a)] = b[i] /\ i + Len(a) \notin 1 .. Len(a)
  <2>1. \A i \in 1 .. Len(b) : i + Len(a) - Len(a) = i /\ ~(i + Len(a) <= Len(a)) /\ i + Len(a) \in 1 .. Len(a) + Len(b)
    BY <1>2
  <2>2. \A i \in 1 .. Len(a) : i <= Len(a) /\ i \in 1 .. Len(a) + Len(b)
    BY <1>2
  <2>3. \A i \in 1 .. Len(b) : i + Len(a) \notin 1 .. Len(a)
    BY <1>2
  <2> QED  BY <1>1, <2>1, <2>2, <2>3
<1>4. \A i \in 1 .. Len(c) :
        \/ i \in 1 .. Len(a)
        \/ i - Len(a) \in 1 .. Len(b) /\ i - Len(a) + Len(a) = i /\ i \notin 1 .. Len(a)
  BY <1>1, <1>2
<1>5. QAll(c) = QAll(a) \union QAll(b)
  <2>1. QAll(c) \subseteq QAll(a) \union QAll(b)
    <3> SUFFICES ASSUME NEW x \in QAll(c), x \notin QAll(b) PROVE x \in QAll(a)
      OBVIOUS
    <3>1. PICK i \in 1 .. Len(c) : \E j \in 1 .. Len(c[i]) : c[i][j] = x
      BY QIn
    <3>2. PICK j \in 1 .. Len(c[i]) : c[i][j] = x
      BY <3>1
    <3>3. CASE i \in 1 .. Len(a)
      BY <1>3, <3>2, <3>3, QIn DEF QAll
    <3>4. CASE i - Len(a) \in 1 .. Len(b) /\ i - Len(a) + Len(a) = i
      <4>1. b[i - Len(a)] = c[i]
        BY <1>3, <3>4
      <4> QED  BY <3>2, <3>4, <4>1, QIn DEF QAll
    <3> QED  BY <1>4, <3>3, <3>4
  <2>2. QAll(a) \subseteq QAll(c)
    BY <1>3 DEF QAll
  <2>3. QAll(b) \subseteq QAll(c)
    BY <1>3 DEF QAll
  <2> QED  BY <2>1, <2>2, <2>3
<1>6. ASSUME QDist(c) PROVE QDist(a) /\ QDist(b) /\ QAll(a) \intersect QAll(b) = {}
  <2>1. QDist(a)
    <3> SUFFICES ASSUME NEW i \in 1 .. Len(a), NEW k \in 1 .. Len(a), NEW j \in 1 .. Len(a[i]), NEW l \in 1 .. Len(a[k]),
                        a[i][j] = a[k][l]
                 PROVE  i = k /\ j = l
      BY DEF QDist
    <3>1. i \in 1 .. Len(c) /\ k \in 1 .. Len(c) /\ c[i] = a[i] /\ c[k] = a[k]
      BY <1>3
    <3> QED  BY <1>6, <3>1, QOnce
  <2>2. QDist(b)
    <3> SUFFICES ASSUME NEW i \in 1 .. Len(b), NEW k \in 1 .. Len(b), NEW j \in 1 .. Len(b[i]), NEW l \in 1 .. Len(b[k]),
                        b[i][j] = b[k][l]
                 PROVE  i = k /\ j = l
      BY DEF QDist
    <3>0. /\ i + Len(a) \in 1 .. Len(c) /\ k + Len(a) \in 1 .. Len(c)
          /\ c[i + Len(a)] = b[i] /\ c[k + Len(a)] = b[k]
      BY <1>3
    <3>1. i + Len(a) = k + Len(a) /\ j = l
      BY <1>6, <3>0, QOnce
    <3> QED  BY <1>2, <3>1
  <2>3. ASSUME NEW x \in QAll(a), x \in QAll(b) PROVE FALSE
    <3>1. PICK i \in 1 .. Len(a) : \E j \in 1 .. Len(a[i]) : a[i][j] = x
      BY DEF QAll
    <3>2. PICK k \in 1 .. Len(b) : \E j \in 1 .. Len(b[k]) : b[k][j] = x
      BY <2>3 DEF QAll
    <3>3. i = k + Len(a)
      <4>1. PICK j \in 1 .. Len(a[i]), l \in 1 .. Len(b[k]) : a[i][j] = b[k][l]
        BY <3>1, <3>2
      <4>2. i \in 1 .. Len(c) /\ k + Len(a) \in 1 .. Len(c) /\ c[i] = a[i] /\ c[k + Len(a)] = b[k]
        BY <1>3
      <4> QED  BY <1>6, <4>1, <4>2, QOnce
    <3> QED  BY <1>3, <3>3
  <2> QED  BY <2>1, <2>2, <2>3
<1>7. ASSUME QDist(a), QDist(b), QAll(a) \intersect QAll(b) = {} PROVE QDist(c)
  <2> SUFFICES ASSUME NEW i \in 1 .. Len(c), NEW k \in 1 .. Len(c), NEW j \in 1 .. Len(c[i]), NEW l \in 1 .. Len(c[k]),
                      c[i][j] = c[k][l]
               PROVE  i = k /\ j = l
    BY DEF QDist
  <2>1. \A n \in 1 .. Len(a) : \A m \in 1 .. Len(a[n]) : a[n][m] \in QAll(a)
    BY QBasics DEF QAll
  <2>2. \A n \in 1 .. Len(b) : \A m \in 1 .. Len(b[n]) : b[n][m] \in QAll(b)
    BY QBasics DEF QAll
  <2>3. CASE i \in 1 .. Len(a) /\ k \in 1 .. Len(a)
    BY <1>3, <1>7, <2>3 DEF QDist
  <2>4. CASE i \notin 1 .. Len(a) /\ k \notin 1 .. Len(a)
    <3>1. i - Len(a) \in 1 .. Len(b) /\ k - Len(a) \in 1 .. Len(b) /\ c[i] = b[i - Len(a)] /\ c[k] = b[k - Len(a)]
      BY <1>3, <1>4, <2>4
    <3>2. PICK u \in 1 .. Len(b), v \in 1 .. Len(b) : u = i - Len(a) /\ v = k - Len(a)
      BY <3>1
    <3>3. j \in 1 .. Len(b[u]) /\ l \in 1 .. Len(b[v]) /\ b[u][j] = b[v][l]
      BY <3>1, <3>2
    <3>4. u = v /\ j = l
      BY <1>7, <3>3, QOnce
    <3> QED  BY <1>1, <1>2, <3>2, <3>4
  <2>5. CASE i \in 1 .. Len(a) /\ k \notin 1 .. Len(a)
    <3>1. k - Len(a) \in 1 .. Len(b) /\ c[k] = b[k - Len(a)] /\ c[i] = a[i]
      BY <1>3, <1>4, <2>5
    <3> QED  BY <1>7, <2>1, <2>2, <2>5, <3>1
  <2>6. CASE i \notin 1 .. Len(a) /\ k \in 1 .. Len(a)
    <3>1. i - Len(a) \in 1 .. Len(b) /\ c[i] = b[i - Len(a)] /\ c[k] = a[k]
      BY <1>3, <1>4, <2>6
    <3> QED  BY <1>7, <2>1, <2>2, <2>6, <3>1
  <2> QED  BY <2>3, <2>4, <2>5, <2>6
<1> QED  BY <1>1, <1>3, <1>4, <1>5, <1>6, <1>7 DEF c

(* Its first batches and the others.                                           *)
LEMMA QCut ==
  ASSUME NEW q \in QBatches, NEW k \in 0 .. Len(q)
  PROVE  /\ SubSeq(q, 1, k) \in QBatches /\ SubSeq(q, k + 1, Len(q)) \in QBatches
         /\ Len(SubSeq(q, 1, k)) = k /\ Len(SubSeq(q, k + 1, Len(q))) = Len(q) - k
         /\ q = SubSeq(q, 1, k) \o SubSeq(q, k + 1, Len(q))
<1> DEFINE a == SubSeq(q, 1, k)  b == SubSeq(q, k + 1, Len(q))
<1>0. Len(q) \in Nat /\ \A i \in 1 .. Len(q) : q[i] \in QBatch
  BY QBasics
<1>1. a \in QBatches /\ Len(a) = k /\ \A i \in 1 .. k : a[i] = q[i]
  BY <1>0, SubSeqProperties DEF QBatches
<1>2. b \in QBatches /\ Len(b) = Len(q) - k /\ \A i \in 1 .. Len(q) - k : b[i] = q[k + i]
  BY <1>0, SubSeqProperties DEF QBatches
<1> HIDE DEF a, b
<1>3. Len(a \o b) = Len(q) /\ a \o b \in Seq(QBatch) /\ q \in Seq(QBatch)
  BY <1>0, <1>1, <1>2, QCat DEF QBatches
<1>4. \A i \in 1 .. Len(q) : (a \o b)[i] = q[i]
  <2> SUFFICES ASSUME NEW i \in 1 .. Len(q) PROVE (a \o b)[i] = q[i]
    OBVIOUS
  <2>1. CASE i \in 1 .. k
    <3>1. i \in 1 .. Len(a)
      BY <1>1, <2>1
    <3> QED  BY <1>1, <1>2, <2>1, <3>1, QCat
  <2>2. CASE i - k \in 1 .. Len(q) - k /\ i - k + k = i
    <3>0. i - k \in 1 .. Len(b) /\ k + (i - k) = i
      BY <1>0, <1>2, <2>2
    <3>1. (a \o b)[i - k + Len(a)] = b[i - k] /\ b[i - k] = q[k + (i - k)] /\ k + (i - k) = i
      BY <1>1, <1>2, <2>2, <3>0, QCat
    <3>2. i - k + Len(a) = i
      BY <1>1, <2>2
    <3> QED  BY <3>1, <3>2
  <2>3. i \in 1 .. k \/ (i - k \in 1 .. Len(q) - k /\ i - k + k = i)
    BY <1>0
  <2> QED  BY <2>1, <2>2, <2>3
<1>5. q = a \o b
  BY <1>3, <1>4, SeqEqual
<1> QED  BY <1>1, <1>2, <1>5 DEF a, b

(* Bytes are counted batch by batch.                                           *)
LEMMA QCards == \A S : Q!Cardinality(S) = Cardinality(S)
BY DEF Q!Cardinality, Cardinality

LEMMA QSlots ==
  ASSUME NEW q \in QBatches
  PROVE  /\ IsFiniteSet(Q!Slots(q)) /\ Cardinality(Q!Slots(q)) \in Nat
         /\ Q!BytesOf(q) = BatchBytes * Len(q) + ChunkSize * Cardinality(Q!Slots(q))
         /\ Q!Slots(q) = {x \in (1 .. Len(q)) \X (1 .. BatchSize) : x[2] <= Len(q[x[1]])}
<1>1. Len(q) \in Nat /\ DOMAIN q = 1 .. Len(q) /\ \A i \in 1 .. Len(q) : DOMAIN q[i] = 1 .. Len(q[i]) /\ Len(q[i]) \in 1 .. BatchSize
  BY QBasics
<1>2. Q!Slots(q) = {x \in (1 .. Len(q)) \X (1 .. BatchSize) : x[2] <= Len(q[x[1]])}
  <2>1. ASSUME NEW x \in Q!Slots(q) PROVE x \in (1 .. Len(q)) \X (1 .. BatchSize) /\ x[2] <= Len(q[x[1]])
    <3>0. PICK i \in 1 .. Len(q) : x \in {<<i, j>> : j \in DOMAIN q[i]}
      BY <1>1 DEF Q!Slots
    <3>1. PICK j \in 1 .. Len(q[i]) : x = <<i, j>>
      BY <1>1, <3>0
    <3>2. j \in 1 .. BatchSize /\ j <= Len(q[i])
      BY <1>1, QAssumption
    <3> QED  BY <3>1, <3>2
  <2>2. ASSUME NEW x \in (1 .. Len(q)) \X (1 .. BatchSize), x[2] <= Len(q[x[1]]) PROVE x \in Q!Slots(q)
    <3>1. x = <<x[1], x[2]>> /\ x[1] \in 1 .. Len(q) /\ x[2] \in 1 .. Len(q[x[1]])
      BY <1>1, <2>2, QAssumption
    <3>2. x \in {<<x[1], j>> : j \in DOMAIN q[x[1]]}
      BY <1>1, <3>1
    <3>3. {<<x[1], j>> : j \in DOMAIN q[x[1]]} \in {{<<i, j>> : j \in DOMAIN q[i]} : i \in DOMAIN q}
      BY <1>1, <3>1
    <3> QED  BY <3>2, <3>3 DEF Q!Slots
  <2> QED  BY <2>1, <2>2
<1>3. IsFiniteSet((1 .. Len(q)) \X (1 .. BatchSize))
  <2>1. IsFiniteSet(1 .. Len(q)) /\ IsFiniteSet(1 .. BatchSize)
    BY <1>1, FS_Interval, QAssumption
  <2> QED  BY <2>1, FS_Product
<1>4. IsFiniteSet(Q!Slots(q))
  BY <1>2, <1>3, FS_Subset
<1> QED  BY <1>2, <1>4, FS_CardinalityType, QCards DEF Q!BytesOf

LEMMA QBytes ==
  ASSUME NEW a \in QBatches, NEW b \in QBatches
  PROVE  /\ Q!BytesOf(a) \in Nat
         /\ Q!BytesOf(a \o b) = Q!BytesOf(a) + Q!BytesOf(b)
<1> DEFINE c == a \o b
           n == Len(a)
           A == Q!Slots(a)  B == Q!Slots(b)
           f == [x \in B |-> <<x[1] + n, x[2]>>]
           T == {<<x[1] + n, x[2]>> : x \in B}
<1>0. n \in Nat /\ Len(b) \in Nat /\ c \in QBatches
  BY QBasics, QCat
<1>1. f \in Bijection(B, T)
  <2>1. f \in Surjection(B, T)
    BY DEF Surjection
  <2>2. f \in Injection(B, T)
    <3>1. \A x, y \in B : f[x] = f[y] => x = y
      <4> SUFFICES ASSUME NEW x \in B, NEW y \in B, f[x] = f[y] PROVE x = y
        OBVIOUS
      <4>1. x[1] \in Nat /\ y[1] \in Nat /\ x = <<x[1], x[2]>> /\ y = <<y[1], y[2]>>
        BY QSlots
      <4>2. x[1] + n = y[1] + n /\ x[2] = y[2]
        <5>1. <<x[1] + n, x[2]>> = <<y[1] + n, y[2]>>
          OBVIOUS
        <5> QED  BY <5>1
      <4> QED  BY <1>0, <4>1, <4>2
    <3>2. f \in [B -> T]
      OBVIOUS
    <3> HIDE DEF f, B, T
    <3> QED  BY <3>1, <3>2 DEF Injection, IsInjective
  <2> QED  BY <2>1, <2>2 DEF Bijection
<1>2. IsFiniteSet(T) /\ Cardinality(T) = Cardinality(B)
  <2>1. ExistsBijection(B, T)
    BY <1>1 DEF ExistsBijection
  <2> QED  BY <2>1, QSlots, FS_Bijection
<1>3. A \intersect T = {}
  <2> SUFFICES ASSUME NEW x \in B, <<x[1] + n, x[2]>> \in A PROVE FALSE
    OBVIOUS
  <2>1. x[1] \in 1 .. Len(b) /\ x[1] + n \in 1 .. n
    BY QSlots
  <2> QED  BY <1>0, <2>1
<1>4. Q!Slots(c) = A \union T
  <2>1. ASSUME NEW x \in Q!Slots(c) PROVE x \in A \union T
    <3>1. x \in (1 .. Len(c)) \X (1 .. BatchSize) /\ x[2] <= Len(c[x[1]])
      BY <1>0, QSlots
    <3>2. CASE x[1] \in 1 .. n
      <4>1. c[x[1]] = a[x[1]] /\ x \in (1 .. n) \X (1 .. BatchSize)
        BY <3>1, <3>2, QCat
      <4> QED  BY <3>1, <4>1, QSlots
    <3>3. CASE x[1] - n \in 1 .. Len(b) /\ x[1] - n + n = x[1]
      <4>1. c[x[1]] = b[x[1] - n]
        BY <3>3, QCat
      <4>2. <<x[1] - n, x[2]>> \in B
        BY <3>1, <3>3, <4>1, QSlots
      <4>3. x = <<x[1] - n + n, x[2]>>
        BY <3>1, <3>3
      <4> QED  BY <4>2, <4>3
    <3>4. x[1] \in 1 .. n + Len(b)
      BY <3>1, QCat
    <3> QED  BY <3>2, <3>3, <3>4, QCat
  <2>2. A \subseteq Q!Slots(c)
    <3> SUFFICES ASSUME NEW x \in A PROVE x \in Q!Slots(c)
      OBVIOUS
    <3>1. x \in (1 .. n) \X (1 .. BatchSize) /\ x[2] <= Len(a[x[1]])
      BY QSlots
    <3>2. c[x[1]] = a[x[1]] /\ x[1] \in 1 .. Len(c)
      BY <1>0, <3>1, QCat
    <3>3. x \in (1 .. Len(c)) \X (1 .. BatchSize) /\ x[2] <= Len(c[x[1]])
      BY <3>1, <3>2
    <3> QED  BY <1>0, <3>3, QSlots
  <2>3. T \subseteq Q!Slots(c)
    <3> SUFFICES ASSUME NEW x \in B PROVE <<x[1] + n, x[2]>> \in Q!Slots(c)
      OBVIOUS
    <3>1. x[1] \in 1 .. Len(b) /\ x[2] \in 1 .. BatchSize /\ x[2] <= Len(b[x[1]])
      BY QSlots
    <3>2. c[x[1] + n] = b[x[1]] /\ x[1] + n \in 1 .. Len(c)
      BY <1>0, <3>1, QCat
    <3>3. <<x[1] + n, x[2]>> \in (1 .. Len(c)) \X (1 .. BatchSize)
      BY <3>1, <3>2
    <3> QED  BY <1>0, <3>1, <3>2, <3>3, QSlots
  <2> QED  BY <2>1, <2>2, <2>3
<1>5. Cardinality(Q!Slots(c)) = Cardinality(A) + Cardinality(B)
  <2>1. IsFiniteSet(A) /\ Cardinality(A) \in Nat /\ Cardinality(B) \in Nat
    BY QSlots
  <2>2. Cardinality(A \union T) = Cardinality(A) + Cardinality(T) - Cardinality(A \intersect T)
    BY <1>2, <2>1, FS_Union
  <2>3. Cardinality(A \intersect T) = 0
    BY <1>3, FS_EmptySet
  <2> HIDE DEF A, B, T, c, n
  <2> QED  BY <1>2, <1>4, <2>1, <2>2, <2>3
<1>6. Len(c) = Len(a) + Len(b)
  BY QCat
<1>7. /\ Q!BytesOf(a) = BatchBytes * Len(a) + ChunkSize * Cardinality(A)
      /\ Q!BytesOf(b) = BatchBytes * Len(b) + ChunkSize * Cardinality(B)
      /\ Q!BytesOf(c) = BatchBytes * Len(c) + ChunkSize * Cardinality(Q!Slots(c))
      /\ Cardinality(A) \in Nat /\ Cardinality(B) \in Nat
  BY <1>0, QSlots
<1>8. \A m, i, j \in Nat : m * (i + j) = m * i + m * j /\ m * i \in Nat
  OBVIOUS
<1> HIDE DEF A, B, c, n
<1>9. BatchBytes * Len(c) = BatchBytes * Len(a) + BatchBytes * Len(b)
  BY <1>0, <1>6, <1>8, QAssumption DEF n
<1>10. ChunkSize * Cardinality(Q!Slots(c)) = ChunkSize * Cardinality(A) + ChunkSize * Cardinality(B)
  BY <1>5, <1>7, <1>8, QAssumption
<1>11. /\ BatchBytes * Len(a) \in Nat /\ BatchBytes * Len(b) \in Nat
       /\ ChunkSize * Cardinality(A) \in Nat /\ ChunkSize * Cardinality(B) \in Nat
  BY <1>0, <1>7, <1>8, QAssumption DEF n
<1> QED  BY <1>7, <1>9, <1>10, <1>11 DEF c

(* One batch.                                                                  *)
QElems(b) == {x \in Chunks : \E j \in 1 .. Len(b) : b[j] = x}

LEMMA QOne ==
  ASSUME NEW b \in QBatch
  PROVE  /\ <<b>> \in QBatches /\ Len(<<b>>) = 1 /\ <<b>>[1] = b
         /\ QAll(<<b>>) = QElems(b)
         /\ QDist(<<b>>) <=> \A j, l \in 1 .. Len(b) : b[j] = b[l] => j = l
<1>1. <<b>> \in QBatches /\ Len(<<b>>) = 1 /\ <<b>>[1] = b
  BY DEF QBatches
<1>2. \A i \in 1 .. Len(<<b>>) : i = 1
  BY <1>1
<1>3. 1 \in 1 .. Len(<<b>>)
  BY <1>1
<1> DEFINE q == <<b>>
<1>4. /\ q \in QBatches /\ Len(q) = 1 /\ q[1] = b /\ 1 \in 1 .. Len(q) /\ \A i \in 1 .. Len(q) : i = 1
  BY <1>1, <1>2, <1>3
<1> HIDE DEF q
<1>5. QAll(q) = QElems(b)
  BY <1>4 DEF QAll, QElems
<1>6. QDist(q) <=> \A j, l \in 1 .. Len(b) : b[j] = b[l] => j = l
  BY <1>4 DEF QDist
<1> QED  BY <1>4, <1>5, <1>6 DEF q

LEMMA QFrontLast ==
  ASSUME NEW q \in QBatches, q # << >>
  PROVE  /\ Q!Front(q) \in QBatches /\ Q!Last(q) \in QBatch
         /\ q = Q!Front(q) \o <<Q!Last(q)>>
<1>1. Len(q) \in Nat \ {0} /\ \A i \in 1 .. Len(q) : q[i] \in QBatch
  BY QBasics, SeqBasics DEF QBatches
<1> DEFINE k == Len(q) - 1
<1>2. k \in 0 .. Len(q) /\ k + 1 = Len(q) /\ Len(q) \in 1 .. Len(q) /\ Len(q) - k = 1
  BY <1>1
<1>3. Q!Front(q) = SubSeq(q, 1, k) /\ Q!Last(q) = q[Len(q)]
  BY DEF Q!Front, Q!Last
<1> HIDE DEF k
<1>4. Q!Front(q) \in QBatches /\ q = SubSeq(q, 1, k) \o SubSeq(q, k + 1, Len(q))
  BY <1>2, <1>3, QCut
<1>5. SubSeq(q, Len(q), Len(q)) = <<q[Len(q)]>>
  <2>1. SubSeq(q, k + 1, Len(q)) \in QBatches /\ Len(SubSeq(q, k + 1, Len(q))) = 1
    BY <1>2, QCut
  <2>2. SubSeq(q, k + 1, Len(q))[1] = q[Len(q)]
    BY <1>1, <1>2 DEF QBatches
  <2> DEFINE z == SubSeq(q, k + 1, Len(q))
  <2>3. z \in Seq(QBatch) /\ Len(z) = 1 /\ z[1] = q[Len(q)]
    BY <2>1, <2>2 DEF QBatches
  <2> HIDE DEF z
  <2>4. z = <<q[Len(q)]>>
    BY <2>3
  <2> QED  BY <1>2, <2>4 DEF z
<1> QED  BY <1>1, <1>2, <1>3, <1>4, <1>5

LEMMA QHeadTail ==
  ASSUME NEW q \in QBatches, q # << >>
  PROVE  /\ Head(q) \in QBatch /\ Tail(q) \in QBatches
         /\ q = <<Head(q)>> \o Tail(q)
<1>1. Head(q) \in QBatch /\ Tail(q) \in QBatches
  BY SeqTail DEF QBatches
<1>2. q = <<Head(q)>> \o Tail(q)
  BY DEF QBatches
<1> QED  BY <1>1, <1>2

(* A chunk is put behind the others.                                           *)
LEMMA QEnq ==
  ASSUME NEW q \in QBatches, NEW c \in Chunks
  PROVE  /\ Q!Enqueue(q, c) \in QBatches
         /\ QAll(Q!Enqueue(q, c)) = QAll(q) \union {c}
         /\ c \notin QAll(q) /\ QDist(q) => QDist(Q!Enqueue(q, c))
<1>1. CASE q = << >> \/ Len(Q!Last(q)) = BatchSize
  <2> DEFINE o == <<c>>
  <2>1. o \in QBatch /\ Len(o) = 1 /\ QElems(o) = {c} /\ \A j, l \in 1 .. Len(o) : o[j] = o[l] => j = l
    <3>1. o \in Seq(Chunks) /\ Len(o) = 1 /\ o[1] = c
      OBVIOUS
    <3>2. 1 \in 1 .. BatchSize
      BY QAssumption
    <3> HIDE DEF o
    <3>3. \A j \in 1 .. Len(o) : j = 1
      BY <3>1
    <3>4. 1 \in 1 .. Len(o)
      BY <3>1
    <3> QED  BY <3>1, <3>2, <3>3, <3>4 DEF QBatch, QElems
  <2>2. Q!Enqueue(q, c) = q \o <<o>>
    <3>1. Q!Enqueue(q, c) = Append(q, o)
      BY <1>1 DEF Q!Enqueue
    <3>2. Append(q, o) = q \o <<o>>
      <4> HIDE DEF o
      <4> QED  BY <2>1, AppendIsConcat DEF QBatches
    <3> QED  BY <3>1, <3>2
  <2> HIDE DEF o
  <2>3. <<o>> \in QBatches /\ QAll(<<o>>) = {c} /\ QDist(<<o>>)
    BY <2>1, QOne
  <2>4. /\ q \o <<o>> \in QBatches
        /\ QAll(q \o <<o>>) = QAll(q) \union QAll(<<o>>)
        /\ QDist(q \o <<o>>) <=> QDist(q) /\ QDist(<<o>>) /\ QAll(q) \intersect QAll(<<o>>) = {}
    BY <2>3, QCat
  <2> QED  BY <2>2, <2>3, <2>4
<1>2. CASE q # << >> /\ Len(Q!Last(q)) # BatchSize
  <2> DEFINE f == Q!Front(q)  b == Q!Last(q)  d == Append(b, c)
  <2>1. f \in QBatches /\ b \in QBatch /\ q = f \o <<b>>
    BY <1>2, QFrontLast
  <2>2. Q!Enqueue(q, c) = f \o <<d>>
    <3>1. Q!Enqueue(q, c) = Append(f, d)
      BY <1>2 DEF Q!Enqueue
    <3>2. d \in QBatch
      <4>1. b \in Seq(Chunks) /\ Len(b) \in 1 .. BatchSize /\ Len(b) # BatchSize
        BY <1>2, <2>1 DEF QBatch
      <4>2. d \in Seq(Chunks) /\ Len(d) = Len(b) + 1
        <5> HIDE DEF b
        <5> QED  BY <4>1
      <4> QED  BY <4>1, <4>2, QAssumption DEF QBatch
    <3> HIDE DEF f, d
    <3>3. Append(f, d) = f \o <<d>>
      BY <2>1, <3>2, AppendIsConcat DEF QBatches
    <3> QED  BY <3>1, <3>3
  <2> HIDE DEF f, b
  <2>3. /\ b \in Seq(Chunks) /\ Len(b) \in 1 .. BatchSize /\ Len(b) \in Nat /\ Len(b) + 1 \in 1 .. BatchSize
    <3>1. b \in Seq(Chunks) /\ Len(b) \in 1 .. BatchSize /\ Len(b) # BatchSize
      BY <1>2, <2>1 DEF QBatch, b
    <3> QED  BY <3>1, QAssumption
  <2>4. /\ d \in Seq(Chunks) /\ Len(d) = Len(b) + 1
        /\ \A j \in 1 .. Len(b) : d[j] = b[j]
        /\ d[Len(b) + 1] = c
    BY <2>3
  <2> HIDE DEF d
  <2>5. d \in QBatch
    BY <2>3, <2>4 DEF QBatch
  <2>6. \A j \in 1 .. Len(d) : j \in 1 .. Len(b) \/ j = Len(b) + 1
    BY <2>3, <2>4
  <2>7. Len(b) + 1 \in 1 .. Len(d) /\ \A j \in 1 .. Len(b) : j \in 1 .. Len(d)
    BY <2>3, <2>4
  <2>8. QElems(d) = QElems(b) \union {c}
    BY <2>4, <2>6, <2>7 DEF QElems
  <2>9. c \notin QElems(b) /\ (\A j, l \in 1 .. Len(b) : b[j] = b[l] => j = l)
          => \A j, l \in 1 .. Len(d) : d[j] = d[l] => j = l
    BY <2>4, <2>6 DEF QElems
  <2>10. /\ <<b>> \in QBatches /\ <<d>> \in QBatches
         /\ QAll(<<b>>) = QElems(b) /\ QAll(<<d>>) = QElems(d)
         /\ c \notin QElems(b) /\ QDist(<<b>>) => QDist(<<d>>)
    BY <2>1, <2>5, <2>9, QOne
  <2>11. /\ QAll(q) = QAll(f) \union QElems(b)
         /\ QDist(q) <=> QDist(f) /\ QDist(<<b>>) /\ QAll(f) \intersect QElems(b) = {}
    BY <2>1, <2>10, QCat
  <2>12. /\ f \o <<d>> \in QBatches
         /\ QAll(f \o <<d>>) = QAll(f) \union QElems(d)
         /\ QDist(f \o <<d>>) <=> QDist(f) /\ QDist(<<d>>) /\ QAll(f) \intersect QElems(d) = {}
    <3>1. f \in QBatches /\ <<d>> \in QBatches /\ QAll(<<d>>) = QElems(d)
      BY <2>1, <2>10
    <3>2. /\ f \o <<d>> \in QBatches
          /\ QAll(f \o <<d>>) = QAll(f) \union QAll(<<d>>)
          /\ QDist(f \o <<d>>) <=> QDist(f) /\ QDist(<<d>>) /\ QAll(f) \intersect QAll(<<d>>) = {}
      BY <3>1, QCat
    <3> QED  BY <3>1, <3>2
  <2> QED  BY <2>2, <2>8, <2>10, <2>11, <2>12
<1> QED  BY <1>1, <1>2

(* The oldest chunk of a quarantine is taken out.                              *)
QRest(q) ==
  LET rest == Tail(Head(q)) IN IF rest = << >> THEN Tail(q) ELSE <<rest>> \o Tail(q)

LEMMA QPop ==
  ASSUME NEW q \in QBatches, q # << >>, QDist(q)
  PROVE  /\ Head(Head(q)) \in QAll(q) /\ QRest(q) \in QBatches /\ QDist(QRest(q))
         /\ QAll(QRest(q)) = QAll(q) \ {Head(Head(q))}
<1> DEFINE h == Head(q)  c == Head(h)  r == Tail(h)  w == Tail(q)
<1>1. h \in QBatch /\ w \in QBatches /\ q = <<h>> \o w
  BY QHeadTail
<1>2. /\ QRest(q) = IF r = << >> THEN w ELSE <<r>> \o w
  BY DEF QRest
<1> HIDE DEF h, w
<1>3. /\ h \in Seq(Chunks) /\ h # << >> /\ Len(h) \in 1 .. BatchSize /\ Len(h) \in Nat \ {0}
  BY <1>1, SeqBasics, QAssumption DEF QBatch
<1>4. /\ r \in Seq(Chunks) /\ c = h[1] /\ c \in Chunks /\ Len(r) = Len(h) - 1
      /\ \A j \in 1 .. Len(r) : r[j] = h[j + 1]
      /\ r = << >> <=> Len(r) = 0
  <2>1. /\ r \in Seq(Chunks) /\ c = h[1] /\ c \in Chunks /\ Len(r) = Len(h) - 1
        /\ \A j \in 1 .. Len(h) - 1 : r[j] = h[j + 1]
    BY <1>3, SeqTail
  <2> QED  BY <2>1, SeqBasics
<1> HIDE DEF c, r
<1>5. /\ <<h>> \in QBatches /\ QAll(<<h>>) = QElems(h)
      /\ \A j, l \in 1 .. Len(h) : h[j] = h[l] => j = l
      /\ QAll(q) = QElems(h) \union QAll(w) /\ QDist(w) /\ QElems(h) \intersect QAll(w) = {}
  <2>1. /\ <<h>> \in QBatches /\ QAll(<<h>>) = QElems(h)
        /\ QDist(<<h>>) <=> \A j, l \in 1 .. Len(h) : h[j] = h[l] => j = l
    BY <1>1, QOne
  <2> QED  BY <1>1, <2>1, QCat
<1>6. QElems(h) = QElems(r) \union {c} /\ c \notin QElems(r)
  <2>1. \A j \in 1 .. Len(h) : j = 1 \/ (j - 1 \in 1 .. Len(r) /\ j - 1 + 1 = j)
    BY <1>3, <1>4
  <2>2. 1 \in 1 .. Len(h) /\ \A j \in 1 .. Len(r) : j + 1 \in 1 .. Len(h) /\ j + 1 # 1
    BY <1>3, <1>4
  <2>3. QElems(h) \subseteq QElems(r) \union {c}
    <3> SUFFICES ASSUME NEW x \in Chunks, NEW j \in 1 .. Len(h), h[j] = x, x # c PROVE x \in QElems(r)
      BY DEF QElems
    <3>1. j - 1 \in 1 .. Len(r) /\ r[j - 1] = h[j - 1 + 1] /\ j - 1 + 1 = j
      BY <1>4, <2>1
    <3> QED  BY <3>1 DEF QElems
  <2>4. QElems(r) \union {c} \subseteq QElems(h)
    BY <1>4, <2>2 DEF QElems
  <2>5. c \notin QElems(r)
    BY <1>4, <1>5, <2>2 DEF QElems
  <2> QED  BY <2>3, <2>4, <2>5
<1>7. CASE r = << >>
  <2>1. QElems(r) = {}
    <3>1. \A j \in 1 .. Len(r) : FALSE
      BY <1>4, <1>7
    <3> QED  BY <3>1 DEF QElems
  <2> QED  BY <1>1, <1>2, <1>5, <1>6, <1>7, <2>1 DEF c, h
<1>8. CASE r # << >>
  <2>1. r \in QBatch
    <3>1. Len(r) \in 1 .. BatchSize
      BY <1>3, <1>4, <1>8, QAssumption
    <3> QED  BY <1>4, <3>1 DEF QBatch
  <2>2. \A j, l \in 1 .. Len(r) : r[j] = r[l] => j = l
    <3> SUFFICES ASSUME NEW j \in 1 .. Len(r), NEW l \in 1 .. Len(r), r[j] = r[l] PROVE j = l
      OBVIOUS
    <3>1. h[j + 1] = h[l + 1] /\ j + 1 \in 1 .. Len(h) /\ l + 1 \in 1 .. Len(h)
      BY <1>3, <1>4
    <3>2. j + 1 = l + 1
      BY <1>5, <3>1
    <3> QED  BY <3>2
  <2>3. <<r>> \in QBatches /\ QAll(<<r>>) = QElems(r) /\ QDist(<<r>>)
    BY <2>1, <2>2, QOne
  <2>4. /\ <<r>> \o w \in QBatches /\ QAll(<<r>> \o w) = QElems(r) \union QAll(w)
        /\ QDist(<<r>> \o w) <=> QDist(<<r>>) /\ QDist(w) /\ QElems(r) \intersect QAll(w) = {}
    BY <1>1, <2>3, QCat
  <2> QED  BY <1>2, <1>5, <1>6, <1>8, <2>3, <2>4 DEF c, h
<1> QED  BY <1>7, <1>8

(* Where a chunk is: with a place k of the program and the thread whose it is. *)
QKinds == {"global", "cache", "tmp", "hand"}
QOwners == Users \union {None}
QAt(c, k, t) ==
  \/ k = "global" /\ t = None /\ c \in QAll(global)
  \/ k = "cache" /\ t \in Users /\ c \in QAll(acCache[t])
  \/ k = "tmp" /\ t \in Users /\ c \in QAll(tmp[t])
  \/ k = "hand" /\ t \in Users /\ chunk[t] = c
QPlaced(c) ==
  /\ c \in free => chunk_state[c] = "available"
  /\ \A k \in QKinds, t \in QOwners : QAt(c, k, t) => c \notin free /\ chunk_state[c] # "allocated"
  /\ c \notin free /\ chunk_state[c] # "allocated" => \E k \in QKinds, t \in QOwners : QAt(c, k, t)
  /\ \A k, l \in QKinds : \A t, u \in QOwners : QAt(c, k, t) /\ QAt(c, l, u) => k = l /\ t = u

QStates == {"available", "allocated", "quarantine"}
QLabels == {"out", "unpoison", "publish", "poison", "put", "drain", "try", "recycle", "unlock", "give"}
QTyped ==
  /\ chunk_state \in [Chunks -> QStates] /\ poisoned \subseteq Chunks /\ free \subseteq Chunks
  /\ acCache \in [Users -> QBatches] /\ global \in QBatches
  /\ acPc \in [Users -> QLabels] /\ chunk \in [Users -> Chunks \union {None}]
  /\ tmp \in [Users -> QBatches]
QHand == \A t \in Users : acPc[t] \in {"unpoison", "publish", "poison", "put"} <=> chunk[t] # None
QTmp == \A t \in Users : tmp[t] # << >> => acPc[t] \in {"unlock", "give"}
QDists == QDist(global) /\ \A t \in Users : QDist(acCache[t]) /\ QDist(tmp[t])
QInv ==
  /\ QTyped /\ QHand /\ QTmp /\ QDists
  /\ \A c \in Chunks : QPlaced(c)
  /\ Q!FreedIsPoisoned /\ Q!SizeIsRight

(* A chunk that stays, one that moves, one that comes in and one that leaves.  *)
LEMMA QKeep ==
  ASSUME NEW c, QPlaced(c), \A k \in QKinds, t \in QOwners : QAt(c, k, t)' <=> QAt(c, k, t),
         (c \in free)' <=> c \in free, chunk_state'[c] = chunk_state[c]
  PROVE  QPlaced(c)'
BY DEF QPlaced

LEMMA QMove ==
  ASSUME NEW c, QPlaced(c), NEW k0 \in QKinds, NEW t0 \in QOwners, NEW k1 \in QKinds, NEW t1 \in QOwners,
         QAt(c, k0, t0),
         \A k \in QKinds, t \in QOwners : QAt(c, k, t)' => (QAt(c, k, t) /\ ~(k = k0 /\ t = t0)) \/ (k = k1 /\ t = t1),
         QAt(c, k1, t1)',
         (c \in free)' <=> c \in free, chunk_state'[c] = chunk_state[c]
  PROVE  QPlaced(c)'
BY DEF QPlaced

LEMMA QEnter ==
  ASSUME NEW c, NEW k1 \in QKinds, NEW t1 \in QOwners,
         \A k \in QKinds, t \in QOwners : ~QAt(c, k, t),
         \A k \in QKinds, t \in QOwners : QAt(c, k, t)' => QAt(c, k, t) \/ (k = k1 /\ t = t1),
         QAt(c, k1, t1)',
         ~(c \in free)', chunk_state'[c] # "allocated"
  PROVE  QPlaced(c)'
BY DEF QPlaced

LEMMA QLeave ==
  ASSUME NEW c, QPlaced(c), NEW k0 \in QKinds, NEW t0 \in QOwners, QAt(c, k0, t0),
         \A k \in QKinds, t \in QOwners : QAt(c, k, t)' => QAt(c, k, t) /\ ~(k = k0 /\ t = t0),
         (c \in free)' => chunk_state'[c] = "available",
         (c \in free)' \/ chunk_state'[c] = "allocated"
  PROVE  QPlaced(c)'
BY DEF QPlaced

(* Nothing of a chunk changes if nothing of its place does.                    *)
LEMMA QSame ==
  ASSUME QInv, UNCHANGED <<acCache, global, tmp, chunk, free, chunk_state>>
  PROVE  /\ \A c \in Chunks : QPlaced(c)'
         /\ QDists'
<1>1. ASSUME NEW c \in Chunks PROVE QPlaced(c)'
  <2>1. \A k \in QKinds, t \in QOwners : QAt(c, k, t)' <=> QAt(c, k, t)
    BY DEF QAt
  <2> QED  BY <2>1, QKeep DEF QInv
<1> QED  BY <1>1 DEF QInv, QDists

LEMMA QInitially == Q!Init => QInv
<1> SUFFICES ASSUME Q!Init PROVE QInv
  OBVIOUS
<1> USE DEF Q!Init
<1>1. << >> \in QBatches /\ QAll(<< >>) = {} /\ QDist(<< >>)
  BY SeqBasics DEF QBatches, QAll, QDist
<1>2. QTyped
  BY <1>1 DEF QTyped, QStates, QLabels
<1>3. QHand /\ QTmp /\ QDists
  BY <1>1 DEF QHand, QTmp, QDists
<1>4. ASSUME NEW c \in Chunks PROVE QPlaced(c)
  <2>1. \A k \in QKinds, t \in QOwners : ~QAt(c, k, t)
    BY <1>1, QAssumption DEF QAt
  <2> QED  BY <2>1 DEF QPlaced
<1>5. Q!FreedIsPoisoned
  BY DEF Q!FreedIsPoisoned
<1>6. Q!SizeIsRight
  <2>1. << >> \o << >> = << >>
    OBVIOUS
  <2>2. Q!BytesOf(<< >>) \in Nat /\ Q!BytesOf(<< >>) = Q!BytesOf(<< >>) + Q!BytesOf(<< >>)
    BY <1>1, <2>1, QBytes
  <2> QED  BY <2>2 DEF Q!SizeIsRight
<1> QED  BY <1>2, <1>3, <1>4, <1>5, <1>6 DEF QInv

-------------------------------------------------------------------------------
LEMMA QOnAllocate == ASSUME QInv, NEW t \in Users, Q!Allocate(t) PROVE QInv'
<1> USE DEF Q!Allocate, Q!Goto, Q!Hold
<1>1. PICK c \in free : free' = free \ {c} /\ chunk' = [chunk EXCEPT ![t] = c]
  OBVIOUS
<1>2. acPc[t] = "out" /\ acPc' = [acPc EXCEPT ![t] = "unpoison"] /\ chunk[t] = None /\ c \in Chunks
  BY <1>1, QAssumption DEF QInv, QTyped, QHand
<1>3. QTyped'
  BY <1>1, <1>2 DEF QInv, QTyped, QLabels
<1>4. /\ chunk'[t] = c /\ acPc'[t] = "unpoison"
      /\ \A u \in Users : u # t => chunk'[u] = chunk[u] /\ acPc'[u] = acPc[u]
  BY <1>1, <1>2 DEF QInv, QTyped
<1>5. QHand' /\ QTmp' /\ QDists'
  <2>1. QHand'
    BY <1>2, <1>4, QAssumption DEF QInv, QHand
  <2>2. QTmp'
    BY <1>2, <1>4 DEF QInv, QTmp
  <2> QED  BY <2>1, <2>2 DEF QInv, QDists
<1>6. QPlaced(c)'
  <2>1. \A k \in QKinds, u \in QOwners : ~QAt(c, k, u)
    BY <1>1, <1>2 DEF QInv, QPlaced
  <2>2. \A k \in QKinds, u \in QOwners : QAt(c, k, u)' => QAt(c, k, u) \/ (k = "hand" /\ u = t)
    BY <1>4 DEF QAt
  <2>3. QAt(c, "hand", t)' /\ "hand" \in QKinds /\ t \in QOwners
    BY <1>4 DEF QAt, QKinds, QOwners
  <2>4. ~(c \in free)' /\ chunk_state'[c] # "allocated"
    BY <1>1, <1>2 DEF QInv, QPlaced
  <2> QED  BY <2>1, <2>2, <2>3, <2>4, QEnter
<1>7. ASSUME NEW d \in Chunks, d # c PROVE QPlaced(d)'
  <2>1. \A k \in QKinds, u \in QOwners : QAt(d, k, u)' <=> QAt(d, k, u)
    BY <1>2, <1>4, <1>7, QAssumption DEF QAt
  <2> QED  BY <1>1, <1>7, <2>1, QKeep DEF QInv
<1>8. Q!FreedIsPoisoned'
  BY <1>2, <1>4 DEF QInv, Q!FreedIsPoisoned
<1>9. Q!SizeIsRight'
  BY DEF QInv, Q!SizeIsRight
<1> QED  BY <1>3, <1>5, <1>6, <1>7, <1>8, <1>9 DEF QInv

LEMMA QOnUnpoison == ASSUME QInv, NEW t \in Users, Q!Unpoison(t) PROVE QInv'
<1> USE DEF Q!Unpoison, Q!Goto
<1>1. acPc[t] = "unpoison" /\ acPc' = [acPc EXCEPT ![t] = "publish"] /\ chunk[t] # None
  BY DEF QInv, QTyped, QHand
<1>2. acPc'[t] = "publish" /\ \A u \in Users : u # t => acPc'[u] = acPc[u]
  BY <1>1 DEF QInv, QTyped
<1>3. QTyped'
  BY <1>1 DEF QInv, QTyped, QLabels
<1>4. QHand' /\ QTmp'
  BY <1>1, <1>2 DEF QInv, QHand, QTmp
<1>5. QDists' /\ \A c \in Chunks : QPlaced(c)'
  BY QSame
<1>6. Q!FreedIsPoisoned'
  BY <1>1, <1>2 DEF QInv, Q!FreedIsPoisoned
<1>7. Q!SizeIsRight'
  BY DEF QInv, Q!SizeIsRight
<1> QED  BY <1>3, <1>4, <1>5, <1>6, <1>7 DEF QInv

LEMMA QOnPublish == ASSUME QInv, NEW t \in Users, Q!Publish(t) PROVE QInv'
<1> USE DEF Q!Publish, Q!Goto, Q!Hold
<1>0. PICK c \in Chunks : c = chunk[t]
  BY DEF QInv, QTyped, QHand
<1>1. acPc[t] = "publish" /\ acPc' = [acPc EXCEPT ![t] = "out"] /\ c # None /\ c \in Chunks
  BY <1>0 DEF QInv, QTyped, QHand
<1>2. chunk_state' = [chunk_state EXCEPT ![c] = "allocated"] /\ chunk' = [chunk EXCEPT ![t] = None]
  BY <1>0
<1>3. /\ acPc'[t] = "out" /\ chunk'[t] = None /\ chunk_state'[c] = "allocated"
      /\ \A u \in Users : u # t => chunk'[u] = chunk[u] /\ acPc'[u] = acPc[u]
      /\ \A d \in Chunks : d # c => chunk_state'[d] = chunk_state[d]
  BY <1>1, <1>2 DEF QInv, QTyped
<1>4. QTyped'
  BY <1>1, <1>2 DEF QInv, QTyped, QLabels, QStates
<1>5. QHand' /\ QTmp' /\ QDists'
  <2>1. QHand'
    BY <1>3 DEF QInv, QHand
  <2>2. QTmp'
    BY <1>1, <1>3 DEF QInv, QTmp
  <2> QED  BY <2>1, <2>2 DEF QInv, QDists
<1>6. QPlaced(c)'
  <2>1. QAt(c, "hand", t) /\ "hand" \in QKinds /\ t \in QOwners
    BY <1>0 DEF QAt, QKinds, QOwners
  <2>2. \A k \in QKinds, u \in QOwners : QAt(c, k, u)' => QAt(c, k, u) /\ ~(k = "hand" /\ u = t)
    BY <1>1, <1>3 DEF QAt
  <2>3. c \notin free
    BY <1>1, <2>1 DEF QInv, QPlaced
  <2> QED  BY <1>1, <1>3, <2>1, <2>2, <2>3, QLeave DEF QInv
<1>7. ASSUME NEW d \in Chunks, d # c PROVE QPlaced(d)'
  <2>1. \A k \in QKinds, u \in QOwners : QAt(d, k, u)' <=> QAt(d, k, u)
    BY <1>0, <1>3, <1>7, QAssumption DEF QAt
  <2> QED  BY <1>3, <1>7, <2>1, QKeep DEF QInv
<1>8. Q!FreedIsPoisoned'
  BY <1>0, <1>1, <1>3 DEF QInv, Q!FreedIsPoisoned
<1>9. Q!SizeIsRight'
  BY DEF QInv, Q!SizeIsRight
<1> QED  BY <1>4, <1>5, <1>6, <1>7, <1>8, <1>9 DEF QInv

LEMMA QOnSetFlag ==
  ASSUME QInv, NEW t \in Users, NEW c \in Chunks, Q!SetQuarantineFlag(t, c) PROVE QInv'
<1> USE DEF Q!Goto, Q!Hold
<1>0. /\ acPc[t] = "out" /\ chunk[t] = None
      /\ UNCHANGED <<poisoned, free, acCache, global, acSize, tmp>>
  BY DEF QInv, QHand, Q!SetQuarantineFlag
<1>a. CASE chunk_state[c] # "allocated" /\ UNCHANGED <<chunk_state, acPc, chunk>>
  <2>1. QDists' /\ \A d \in Chunks : QPlaced(d)'
    BY <1>0, <1>a, QSame
  <2> QED  BY <1>0, <1>a, <2>1 DEF QInv, QTyped, QHand, QTmp, Q!FreedIsPoisoned, Q!SizeIsRight
<1>b. CASE /\ chunk_state[c] = "allocated"
           /\ chunk_state' = [chunk_state EXCEPT ![c] = "quarantine"]
           /\ chunk' = [chunk EXCEPT ![t] = c] /\ acPc' = [acPc EXCEPT ![t] = "poison"]
  <2> USE <1>0, <1>b
  <2>1. /\ chunk'[t] = c /\ acPc'[t] = "poison" /\ chunk_state'[c] = "quarantine"
        /\ \A u \in Users : u # t => chunk'[u] = chunk[u] /\ acPc'[u] = acPc[u]
        /\ \A d \in Chunks : d # c => chunk_state'[d] = chunk_state[d]
    BY DEF QInv, QTyped
  <2>2. QTyped'
    BY DEF QInv, QTyped, QLabels, QStates
  <2>3. QHand' /\ QTmp' /\ QDists'
    <3>1. QHand'
      BY <2>1, QAssumption DEF QInv, QHand
    <3>2. QTmp'
      BY <2>1 DEF QInv, QTmp
    <3> QED  BY <3>1, <3>2 DEF QInv, QDists
  <2>4. QPlaced(c)'
    <3>1. \A k \in QKinds, u \in QOwners : ~QAt(c, k, u)
      BY DEF QInv, QPlaced
    <3>2. \A k \in QKinds, u \in QOwners : QAt(c, k, u)' => QAt(c, k, u) \/ (k = "hand" /\ u = t)
      BY <2>1 DEF QAt
    <3>3. QAt(c, "hand", t)' /\ "hand" \in QKinds /\ t \in QOwners
      BY <2>1 DEF QAt, QKinds, QOwners
    <3>4. ~(c \in free)' /\ chunk_state'[c] # "allocated"
      BY <2>1 DEF QInv, QPlaced
    <3> QED  BY <3>1, <3>2, <3>3, <3>4, QEnter
  <2>5. ASSUME NEW d \in Chunks, d # c PROVE QPlaced(d)'
    <3>1. \A k \in QKinds, u \in QOwners : QAt(d, k, u)' <=> QAt(d, k, u)
      BY <2>1, <2>5, QAssumption DEF QAt
    <3> QED  BY <2>1, <2>5, <3>1, QKeep DEF QInv
  <2>6. Q!FreedIsPoisoned'
    BY <2>1 DEF QInv, Q!FreedIsPoisoned
  <2>7. Q!SizeIsRight'
    BY DEF QInv, Q!SizeIsRight
  <2> QED  BY <2>2, <2>3, <2>4, <2>5, <2>6, <2>7 DEF QInv
<1> QED  BY <1>a, <1>b DEF Q!SetQuarantineFlag

LEMMA QOnPoison == ASSUME QInv, NEW t \in Users, Q!Poison(t) PROVE QInv'
<1> USE DEF Q!Poison, Q!Goto
<1>1. acPc[t] = "poison" /\ acPc' = [acPc EXCEPT ![t] = "put"] /\ chunk[t] \in Chunks
  BY DEF QInv, QTyped, QHand
<1>2. acPc'[t] = "put" /\ \A u \in Users : u # t => acPc'[u] = acPc[u]
  BY <1>1 DEF QInv, QTyped
<1>3. QTyped'
  BY <1>1 DEF QInv, QTyped, QLabels
<1>4. QHand' /\ QTmp'
  BY <1>1, <1>2 DEF QInv, QHand, QTmp
<1>5. QDists' /\ \A c \in Chunks : QPlaced(c)'
  BY QSame
<1>6. Q!FreedIsPoisoned'
  BY <1>1, <1>2 DEF QInv, Q!FreedIsPoisoned
<1>7. Q!SizeIsRight'
  BY DEF QInv, Q!SizeIsRight
<1> QED  BY <1>3, <1>4, <1>5, <1>6, <1>7 DEF QInv

LEMMA QOnPut == ASSUME QInv, NEW t \in Users, Q!Put(t) PROVE QInv'
<1> USE DEF Q!Put, Q!Goto, Q!Hold, Q!heap
<1>0. PICK c \in Chunks : c = chunk[t]
  BY DEF QInv, QTyped, QHand
<1> DEFINE q == acCache[t]  e == Q!Enqueue(q, c)
<1>1. q \in QBatches
  BY DEF QInv, QTyped
<1>2. /\ acPc[t] = "put" /\ acCache' = [acCache EXCEPT ![t] = e] /\ chunk' = [chunk EXCEPT ![t] = None]
  BY <1>0
<1>3. PICK l \in {"drain", "out"} : acPc' = [acPc EXCEPT ![t] = l]
  BY <1>2
<1>4. QAt(c, "hand", t) /\ "hand" \in QKinds /\ "cache" \in QKinds /\ t \in QOwners
  BY <1>0 DEF QAt, QKinds, QOwners
<1>5. c \notin QAll(q) /\ QDist(q)
  <2>1. c \in QAll(q) => QAt(c, "cache", t)
    BY DEF QAt
  <2> QED  BY <1>4, <2>1 DEF QInv, QPlaced, QDists
<1>6. e \in QBatches /\ QAll(e) = QAll(q) \union {c} /\ QDist(e)
  BY <1>1, <1>5, QEnq
<1>7. PICK n \in QBatches : n = e
  BY <1>6
<1>8. PICK p \in QBatches : p = q
  BY <1>1
<1> HIDE DEF q, e
<1>9. n \in QBatches /\ QAll(n) = QAll(p) \union {c} /\ QDist(n) /\ acCache[t] = p
  BY <1>6, <1>7, <1>8 DEF q
<1>10. /\ acPc'[t] \in {"drain", "out"} /\ chunk'[t] = None /\ acCache'[t] = n
       /\ \A u \in Users : u # t => chunk'[u] = chunk[u] /\ acPc'[u] = acPc[u] /\ acCache'[u] = acCache[u]
  BY <1>2, <1>3, <1>7 DEF QInv, QTyped
<1>11. QTyped'
  BY <1>2, <1>3, <1>7 DEF QInv, QTyped, QLabels
<1>12. QHand' /\ QTmp' /\ QDists'
  <2>1. QHand'
    BY <1>10 DEF QInv, QHand
  <2>2. QTmp'
    BY <1>2, <1>10 DEF QInv, QTmp
  <2>3. QDists'
    BY <1>9, <1>10 DEF QInv, QDists
  <2> QED  BY <2>1, <2>2, <2>3
<1>13. QPlaced(c)'
  <2>1. \A k \in QKinds, u \in QOwners :
          QAt(c, k, u)' => (QAt(c, k, u) /\ ~(k = "hand" /\ u = t)) \/ (k = "cache" /\ u = t)
    BY <1>10, QAssumption DEF QAt
  <2>2. QAt(c, "cache", t)'
    BY <1>9, <1>10 DEF QAt
  <2> QED  BY <1>4, <2>1, <2>2, QMove DEF QInv
<1>14. ASSUME NEW d \in Chunks, d # c PROVE QPlaced(d)'
  <2>1. \A k \in QKinds, u \in QOwners : QAt(d, k, u)' <=> QAt(d, k, u)
    BY <1>0, <1>9, <1>10, <1>14, QAssumption DEF QAt
  <2> QED  BY <1>14, <2>1, QKeep DEF QInv
<1>15. Q!FreedIsPoisoned'
  BY <1>2, <1>10 DEF QInv, Q!FreedIsPoisoned
<1>16. Q!SizeIsRight'
  BY DEF QInv, Q!SizeIsRight
<1> QED  BY <1>11, <1>12, <1>13, <1>14, <1>15, <1>16 DEF QInv

LEMMA QOnTransfer == ASSUME QInv, NEW t \in Users, Q!Transfer(t) PROVE QInv'
<1> USE DEF Q!Transfer, Q!Goto, Q!heap
<1>0. PICK p \in QBatches : p = acCache[t]
  BY DEF QInv, QTyped
<1>1. /\ acPc[t] = "drain" /\ acPc' = [acPc EXCEPT ![t] = "try"]
      /\ acCache' = [acCache EXCEPT ![t] = << >>] /\ global' = global \o p
  BY <1>0
<1>2. /\ acPc'[t] = "try" /\ acCache'[t] = << >>
      /\ \A u \in Users : u # t => acPc'[u] = acPc[u] /\ acCache'[u] = acCache[u]
  BY <1>1 DEF QInv, QTyped
<1>3. << >> \in QBatches /\ QAll(<< >>) = {} /\ QDist(<< >>)
  BY SeqBasics DEF QBatches, QAll, QDist
<1>4. {"global", "cache"} \subseteq QKinds /\ t \in QOwners /\ None \in QOwners /\ "global" # "cache"
  BY DEF QKinds, QOwners
<1>5. QAll(global) \intersect QAll(p) = {}
  <2>1. \A x \in Chunks : /\ x \in QAll(global) => QAt(x, "global", None)
                          /\ x \in QAll(p) => QAt(x, "cache", t)
    BY <1>0 DEF QAt
  <2>2. QAll(p) \subseteq Chunks
    BY DEF QAll
  <2> QED  BY <1>4, <2>1, <2>2 DEF QInv, QPlaced
<1>6. /\ global \in QBatches /\ global' \in QBatches /\ QDist(global')
      /\ QAll(global') = QAll(global) \union QAll(p)
  <2>1. global \in QBatches /\ QDist(global) /\ QDist(p)
    BY <1>0 DEF QInv, QTyped, QDists
  <2>2. /\ global \o p \in QBatches /\ QAll(global \o p) = QAll(global) \union QAll(p)
        /\ QDist(global \o p) <=> QDist(global) /\ QDist(p) /\ QAll(global) \intersect QAll(p) = {}
    BY <2>1, QCat
  <2> QED  BY <1>1, <1>5, <2>1, <2>2
<1>7. QTyped'
  BY <1>1, <1>3, <1>6 DEF QInv, QTyped, QLabels
<1>8. QHand' /\ QTmp' /\ QDists'
  <2>1. QHand'
    BY <1>1, <1>2 DEF QInv, QHand
  <2>2. QTmp'
    BY <1>1, <1>2 DEF QInv, QTmp
  <2>3. QDists'
    <3>1. \A u \in Users : QDist(acCache'[u]) /\ QDist(tmp'[u])
      BY <1>2, <1>3 DEF QInv, QDists
    <3> QED  BY <1>6, <3>1 DEF QDists
  <2> QED  BY <2>1, <2>2, <2>3
<1>9. ASSUME NEW d \in Chunks, d \in QAll(p) PROVE QPlaced(d)'
  <2>1. QAt(d, "cache", t)
    BY <1>0, <1>9 DEF QAt
  <2>2. \A k \in QKinds, u \in QOwners :
          QAt(d, k, u)' => (QAt(d, k, u) /\ ~(k = "cache" /\ u = t)) \/ (k = "global" /\ u = None)
    BY <1>2, <1>3, QAssumption DEF QAt
  <2>3. QAt(d, "global", None)'
    BY <1>6, <1>9 DEF QAt
  <2> QED  BY <1>4, <2>1, <2>2, <2>3, QMove DEF QInv
<1>10. ASSUME NEW d \in Chunks, d \notin QAll(p) PROVE QPlaced(d)'
  <2>1. \A k \in QKinds, u \in QOwners : QAt(d, k, u)' <=> QAt(d, k, u)
    <3>1. \A u \in Users : d \in QAll(acCache'[u]) <=> d \in QAll(acCache[u])
      BY <1>0, <1>2, <1>3, <1>10
    <3>2. d \in QAll(global') <=> d \in QAll(global)
      BY <1>6, <1>10
    <3> QED  BY <3>1, <3>2 DEF QAt
  <2> QED  BY <1>10, <2>1, QKeep DEF QInv
<1>11. Q!FreedIsPoisoned'
  BY <1>1, <1>2 DEF QInv, Q!FreedIsPoisoned
<1>12. Q!SizeIsRight'
  <2>1. acSize = Q!BytesOf(global) /\ acSize' = acSize + Q!BytesOf(p)
    BY <1>0 DEF QInv, Q!SizeIsRight
  <2>2. Q!BytesOf(global') = Q!BytesOf(global) + Q!BytesOf(p)
    BY <1>1, <1>6, QBytes
  <2>3. acSize' = Q!BytesOf(global')
    BY <2>1, <2>2
  <2> QED  BY <2>3 DEF Q!SizeIsRight, Q!BytesOf, Q!Slots
<1> QED  BY <1>7, <1>8, <1>9, <1>10, <1>11, <1>12 DEF QInv

(* Only the program counter and the mutex change.                              *)
LEMMA QWalk ==
  ASSUME QInv, NEW t \in Users, NEW l \in QLabels, acPc' = [acPc EXCEPT ![t] = l],
         acPc[t] \notin {"unpoison", "publish", "poison", "put"},
         l \notin {"unpoison", "publish", "poison", "put"},
         tmp[t] = << >> \/ l \in {"unlock", "give"},
         UNCHANGED <<chunk_state, poisoned, free, acCache, global, acSize, chunk, tmp>>
  PROVE  QInv'
<1>2. acPc'[t] = l /\ \A u \in Users : u # t => acPc'[u] = acPc[u]
  BY DEF QInv, QTyped
<1>3. QTyped'
  BY DEF QInv, QTyped
<1>4. QHand' /\ QTmp'
  BY <1>2 DEF QInv, QHand, QTmp
<1>5. QDists' /\ \A c \in Chunks : QPlaced(c)'
  BY QSame
<1>6. Q!FreedIsPoisoned'
  BY <1>2 DEF QInv, Q!FreedIsPoisoned
<1>7. Q!SizeIsRight'
  BY DEF QInv, Q!SizeIsRight
<1> QED  BY <1>3, <1>4, <1>5, <1>6, <1>7 DEF QInv

LEMMA QOnCommitBack == ASSUME QInv, NEW t \in Users, Q!CommitBack(t) PROVE QInv'
<1>1. /\ acPc[t] = "out" /\ acPc' = [acPc EXCEPT ![t] = "drain"]
      /\ UNCHANGED <<chunk_state, poisoned, free, acCache, global, acSize, chunk, tmp>>
  BY DEF Q!CommitBack, Q!Goto, Q!heap
<1>2. tmp[t] = << >>
  BY <1>1 DEF QInv, QTmp
<1> QED  BY <1>1, <1>2, QWalk DEF QLabels

LEMMA QOnTryRecycle == ASSUME QInv, NEW t \in Users, Q!TryRecycle(t) PROVE QInv'
<1>1. /\ acPc[t] = "try" /\ \E l \in {"recycle", "out"} : acPc' = [acPc EXCEPT ![t] = l]
      /\ UNCHANGED <<chunk_state, poisoned, free, acCache, global, acSize, chunk, tmp>>
  BY DEF Q!TryRecycle, Q!Goto, Q!heap
<1>2. tmp[t] = << >>
  BY <1>1 DEF QInv, QTmp
<1>3. PICK l \in {"recycle", "out"} : acPc' = [acPc EXCEPT ![t] = l]
  BY <1>1
<1> QED  BY <1>1, <1>2, <1>3, QWalk DEF QLabels

LEMMA QOnUnlockRecycle == ASSUME QInv, NEW t \in Users, Q!UnlockRecycle(t) PROVE QInv'
<1>1. /\ acPc[t] = "unlock" /\ acPc' = [acPc EXCEPT ![t] = "give"]
      /\ UNCHANGED <<chunk_state, poisoned, free, acCache, global, acSize, chunk, tmp>>
  BY DEF Q!UnlockRecycle, Q!Goto, Q!heap
<1> QED  BY <1>1, QWalk DEF QLabels

LEMMA QOnTakeOld == ASSUME QInv, NEW t \in Users, Q!TakeOld(t) PROVE QInv'
<1> USE DEF Q!Goto, Q!heap
<1>0. PICK k \in 0 .. Len(global) :
        /\ tmp' = [tmp EXCEPT ![t] = SubSeq(global, 1, k)]
        /\ global' = SubSeq(global, k + 1, Len(global))
  BY DEF Q!TakeOld
<1>1. /\ acPc[t] = "recycle" /\ acPc' = [acPc EXCEPT ![t] = "unlock"]
      /\ acSize' = acSize - Q!BytesOf(tmp'[t])
      /\ UNCHANGED <<chunk_state, poisoned, free, acCache, chunk>>
  BY DEF Q!TakeOld
<1>2. tmp[t] = << >>
  BY <1>1 DEF QInv, QTmp
<1>3. PICK a \in QBatches, b \in QBatches : /\ a = SubSeq(global, 1, k) /\ b = SubSeq(global, k + 1, Len(global))
                                       /\ global = a \o b
  <2>1. global \in QBatches
    BY DEF QInv, QTyped
  <2>2. /\ SubSeq(global, 1, k) \in QBatches /\ SubSeq(global, k + 1, Len(global)) \in QBatches
        /\ global = SubSeq(global, 1, k) \o SubSeq(global, k + 1, Len(global))
    BY <2>1, QCut
  <2> QED  BY <2>2, Zenon
<1>4. /\ acPc'[t] = "unlock" /\ tmp'[t] = a /\ global' = b
      /\ \A u \in Users : u # t => acPc'[u] = acPc[u] /\ tmp'[u] = tmp[u]
  BY <1>0, <1>1, <1>3 DEF QInv, QTyped
<1>5. QAll(<< >>) = {}
  BY SeqBasics DEF QAll
<1>6. {"global", "tmp"} \subseteq QKinds /\ t \in QOwners /\ None \in QOwners
  BY DEF QKinds, QOwners
<1>7. QAll(global) = QAll(a) \union QAll(b) /\ QDist(a) /\ QDist(b) /\ QAll(a) \intersect QAll(b) = {}
  <2>1. /\ QAll(a \o b) = QAll(a) \union QAll(b)
        /\ QDist(a \o b) <=> QDist(a) /\ QDist(b) /\ QAll(a) \intersect QAll(b) = {}
    BY QCat
  <2>2. QDist(a \o b)
    BY <1>3 DEF QInv, QDists
  <2> QED  BY <1>3, <2>1, <2>2
<1>8. QTyped'
  BY <1>0, <1>1, <1>3 DEF QInv, QTyped, QLabels
<1>9. QHand' /\ QTmp' /\ QDists'
  <2>1. QHand'
    BY <1>1, <1>4 DEF QInv, QHand
  <2>2. QTmp'
    BY <1>1, <1>4 DEF QInv, QTmp
  <2>3. QDists'
    <3>1. \A u \in Users : QDist(acCache'[u]) /\ QDist(tmp'[u])
      BY <1>1, <1>4, <1>7 DEF QInv, QDists
    <3> QED  BY <1>4, <1>7, <3>1 DEF QDists
  <2> QED  BY <2>1, <2>2, <2>3
<1>10. ASSUME NEW d \in Chunks, d \in QAll(a) PROVE QPlaced(d)'
  <2>1. QAt(d, "global", None)
    BY <1>7, <1>10 DEF QAt
  <2>2. \A l \in QKinds, u \in QOwners :
          QAt(d, l, u)' => (QAt(d, l, u) /\ ~(l = "global" /\ u = None)) \/ (l = "tmp" /\ u = t)
    <3>1. d \notin QAll(global')
      BY <1>4, <1>7, <1>10
    <3>2. \A u \in Users : u # t => (d \in QAll(tmp'[u]) <=> d \in QAll(tmp[u]))
      BY <1>4
    <3> QED  BY <1>1, <3>1, <3>2 DEF QAt
  <2>3. QAt(d, "tmp", t)'
    BY <1>4, <1>10 DEF QAt
  <2> QED  BY <1>1, <1>6, <2>1, <2>2, <2>3, QMove DEF QInv
<1>11. ASSUME NEW d \in Chunks, d \notin QAll(a) PROVE QPlaced(d)'
  <2>1. \A l \in QKinds, u \in QOwners : QAt(d, l, u)' <=> QAt(d, l, u)
    <3>1. d \in QAll(global') <=> d \in QAll(global)
      BY <1>4, <1>7, <1>11
    <3>2. \A u \in Users : d \in QAll(tmp'[u]) <=> d \in QAll(tmp[u])
      BY <1>2, <1>4, <1>5, <1>11
    <3> QED  BY <1>1, <3>1, <3>2 DEF QAt
  <2> QED  BY <1>1, <1>11, <2>1, QKeep DEF QInv
<1>12. Q!FreedIsPoisoned'
  BY <1>1, <1>4 DEF QInv, Q!FreedIsPoisoned
<1>13. Q!SizeIsRight'
  <2>1. acSize = Q!BytesOf(global) /\ acSize' = acSize - Q!BytesOf(a)
    BY <1>1, <1>4 DEF QInv, Q!SizeIsRight
  <2>2. Q!BytesOf(global) = Q!BytesOf(a) + Q!BytesOf(b) /\ Q!BytesOf(a) \in Nat /\ Q!BytesOf(b) \in Nat
    BY <1>3, QBytes
  <2>3. acSize' = Q!BytesOf(b)
    BY <2>1, <2>2
  <2> QED  BY <1>4, <2>3 DEF Q!SizeIsRight, Q!BytesOf, Q!Slots
<1> QED  BY <1>8, <1>9, <1>10, <1>11, <1>12, <1>13 DEF QInv

LEMMA QOnGiveBack == ASSUME QInv, NEW t \in Users, Q!GiveBack(t) PROVE QInv'
<1> USE DEF Q!Goto, Q!heap
<1>a. CASE tmp[t] = << >>
  <2>1. /\ acPc[t] = "give" /\ acPc' = [acPc EXCEPT ![t] = "out"]
        /\ UNCHANGED <<chunk_state, poisoned, free, acCache, global, acSize, chunk, tmp>>
    BY <1>a DEF Q!GiveBack
  <2> QED  BY <1>a, <2>1, QWalk DEF QLabels
<1>b. CASE tmp[t] # << >>
  <2>0. PICK q \in QBatches : q = tmp[t]
    BY DEF QInv, QTyped
  <2>1. q # << >> /\ QDist(q)
    BY <1>b, <2>0 DEF QInv, QDists
  <2>2. PICK c \in Chunks, n \in QBatches :
          /\ c = Head(Head(q)) /\ n = QRest(q)
          /\ c \in QAll(q) /\ QDist(n) /\ QAll(n) = QAll(q) \ {c}
    <3>1. \A x \in QAll(q) : x \in Chunks
      BY DEF QAll
    <3> QED  BY <2>1, <3>1, QPop
  <2>3. /\ acPc[t] = "give" /\ acPc' = acPc
        /\ chunk_state' = [chunk_state EXCEPT ![c] = "available"]
        /\ poisoned' = poisoned \union {c} /\ free' = free \union {c}
        /\ tmp' = [tmp EXCEPT ![t] = n]
        /\ UNCHANGED <<acCache, global, acSize, chunk>>
    BY <1>b, <2>0, <2>2 DEF Q!GiveBack, QRest
  <2>4. /\ tmp'[t] = n /\ chunk_state'[c] = "available"
        /\ \A u \in Users : u # t => tmp'[u] = tmp[u]
        /\ \A d \in Chunks : d # c => chunk_state'[d] = chunk_state[d]
    BY <2>3 DEF QInv, QTyped
  <2>5. QTyped'
    BY <2>3 DEF QInv, QTyped, QStates
  <2>6. QHand' /\ QTmp' /\ QDists'
    <3>1. QHand'
      BY <2>3 DEF QInv, QHand
    <3>2. QTmp'
      BY <2>3, <2>4 DEF QInv, QTmp
    <3>3. \A u \in Users : QDist(acCache'[u]) /\ QDist(tmp'[u])
      BY <2>2, <2>3, <2>4 DEF QInv, QDists
    <3>4. QDists'
      BY <2>3, <3>3 DEF QInv, QDists
    <3> QED  BY <3>1, <3>2, <3>4
  <2>7. QPlaced(c)'
    <3>1. QAt(c, "tmp", t) /\ "tmp" \in QKinds /\ t \in QOwners
      BY <2>0, <2>2 DEF QAt, QKinds, QOwners
    <3>2. \A k \in QKinds, u \in QOwners : QAt(c, k, u)' => QAt(c, k, u) /\ ~(k = "tmp" /\ u = t)
      BY <2>2, <2>3, <2>4 DEF QAt
    <3> QED  BY <2>3, <2>4, <3>1, <3>2, QLeave DEF QInv
  <2>8. ASSUME NEW d \in Chunks, d # c PROVE QPlaced(d)'
    <3>1. \A u \in Users : d \in QAll(tmp'[u]) <=> d \in QAll(tmp[u])
      BY <2>0, <2>2, <2>4, <2>8
    <3>2. \A k \in QKinds, u \in QOwners : QAt(d, k, u)' <=> QAt(d, k, u)
      BY <2>3, <3>1 DEF QAt
    <3> QED  BY <2>3, <2>4, <2>8, <3>2, QKeep DEF QInv
  <2>9. Q!FreedIsPoisoned'
    BY <2>3, <2>4 DEF QInv, Q!FreedIsPoisoned
  <2>10. Q!SizeIsRight'
    BY <2>3 DEF QInv, Q!SizeIsRight
  <2> QED  BY <2>5, <2>6, <2>7, <2>8, <2>9, <2>10 DEF QInv
<1> QED  BY <1>a, <1>b

LEMMA QStep == QInv /\ [Q!Next]_(Q!vars) => QInv'
<1> SUFFICES ASSUME QInv, [Q!Next]_(Q!vars) PROVE QInv'
  OBVIOUS
<1>1. CASE UNCHANGED Q!vars
  <2>1. UNCHANGED <<chunk_state, poisoned, free, acCache, global, acSize, acPc, chunk, tmp>>
    BY <1>1 DEF Q!vars, Q!heap
  <2>2. QDists' /\ \A d \in Chunks : QPlaced(d)'
    BY <2>1, QSame
  <2> QED  BY <2>1, <2>2 DEF QInv, QTyped, QHand, QTmp, Q!FreedIsPoisoned, Q!SizeIsRight
<1>2. ASSUME NEW t \in Users, NEW c \in Chunks, Q!SetQuarantineFlag(t, c) PROVE QInv'
  BY <1>2, QOnSetFlag
<1>3. ASSUME NEW t \in Users,
             \/ Q!Allocate(t) \/ Q!Unpoison(t) \/ Q!Publish(t) \/ Q!Poison(t) \/ Q!Put(t)
             \/ Q!Transfer(t) \/ Q!CommitBack(t) \/ Q!TryRecycle(t) \/ Q!TakeOld(t)
             \/ Q!UnlockRecycle(t) \/ Q!GiveBack(t)
      PROVE  QInv'
  BY <1>3, QOnAllocate, QOnUnpoison, QOnPublish, QOnPoison, QOnPut, QOnTransfer, QOnCommitBack,
     QOnTryRecycle, QOnTakeOld, QOnUnlockRecycle, QOnGiveBack
<1> QED  BY <1>1, <1>2, <1>3 DEF Q!Next, Q!Dead

-------------------------------------------------------------------------------
LEMMA QInOf ==
  ASSUME NEW q \in QBatches, NEW c \in Chunks
  PROVE  /\ Q!In(q, c) = {} <=> c \notin QAll(q)
         /\ QDist(q) => \A x, y \in Q!In(q, c) : x = y
<1>1. Q!Slots(q) = {x \in (1 .. Len(q)) \X (1 .. BatchSize) : x[2] <= Len(q[x[1]])}
  BY QSlots
<1>2. \A i \in 1 .. Len(q) : Len(q[i]) \in 1 .. BatchSize /\ Len(q[i]) \in Nat
  BY QBasics
<1>3. \A x \in Q!In(q, c) :
        /\ x = <<x[1], x[2]>> /\ x[1] \in 1 .. Len(q) /\ x[2] \in 1 .. Len(q[x[1]]) /\ q[x[1]][x[2]] = c
  <2> SUFFICES ASSUME NEW x \in Q!In(q, c)
               PROVE  /\ x = <<x[1], x[2]>> /\ x[1] \in 1 .. Len(q)
                      /\ x[2] \in 1 .. Len(q[x[1]]) /\ q[x[1]][x[2]] = c
    OBVIOUS
  <2>1. /\ x \in (1 .. Len(q)) \X (1 .. BatchSize) /\ x[2] <= Len(q[x[1]]) /\ q[x[1]][x[2]] = c
    BY <1>1 DEF Q!In
  <2>2. x = <<x[1], x[2]>> /\ x[1] \in 1 .. Len(q) /\ x[2] \in 1 .. BatchSize
    BY <2>1
  <2> QED  BY <1>2, <2>1, <2>2, QAssumption
<1>4. \A i \in 1 .. Len(q) : \A j \in 1 .. Len(q[i]) : q[i][j] = c => <<i, j>> \in Q!In(q, c)
  <2> SUFFICES ASSUME NEW i \in 1 .. Len(q), NEW j \in 1 .. Len(q[i]), q[i][j] = c
               PROVE  <<i, j>> \in Q!In(q, c)
    OBVIOUS
  <2>1. j \in 1 .. BatchSize /\ j <= Len(q[i])
    BY <1>2, QAssumption
  <2>2. <<i, j>> \in Q!Slots(q)
    BY <1>1, <2>1
  <2> QED  BY <2>2 DEF Q!In
<1>5. Q!In(q, c) = {} <=> c \notin QAll(q)
  BY <1>3, <1>4 DEF QAll
<1>6. QDist(q) => \A x, y \in Q!In(q, c) : x = y
  BY <1>3 DEF QDist
<1> QED  BY <1>5, <1>6

LEMMA QPlacesOf ==
  ASSUME QInv, NEW c \in Chunks
  PROVE  /\ \A x \in Q!Places(c) : /\ x = <<x[1], x[2], x[3]>> /\ x[1] \in QKinds /\ x[2] \in QOwners
                                   /\ QAt(c, x[1], x[2])
         /\ \A k \in QKinds, t \in QOwners : QAt(c, k, t) => Q!Places(c) # {}
         /\ \A x, y \in Q!Places(c) : x[1] = y[1] /\ x[2] = y[2] => x = y
<1>1. global \in QBatches /\ \A t \in Users : acCache[t] \in QBatches /\ tmp[t] \in QBatches
  BY DEF QInv, QTyped
<1>2. QDist(global) /\ \A t \in Users : QDist(acCache[t]) /\ QDist(tmp[t])
  BY DEF QInv, QDists
<1> DEFINE G == {<<"global", None, p>> : p \in Q!In(global, c)}
           A(t) == {<<"cache", t, p>> : p \in Q!In(acCache[t], c)}
           B(t) == {<<"tmp", t, p>> : p \in Q!In(tmp[t], c)}
           D == {<<"hand", t, <<0, 0>>>> : t \in {u \in Users : chunk[u] = c}}
           places == Q!Places(c)
<1>0. places = G \union (UNION {A(t) \union B(t) : t \in Users}) \union D
  BY DEF Q!Places
<1>3. \A x \in places :
        \/ \E p \in Q!In(global, c) : x = <<"global", None, p>>
        \/ \E t \in Users : \/ \E p \in Q!In(acCache[t], c) : x = <<"cache", t, p>>
                            \/ \E p \in Q!In(tmp[t], c) : x = <<"tmp", t, p>>
                            \/ chunk[t] = c /\ x = <<"hand", t, <<0, 0>>>>
  <2> SUFFICES ASSUME NEW x \in places
               PROVE  \/ \E p \in Q!In(global, c) : x = <<"global", None, p>>
                      \/ \E t \in Users : \/ \E p \in Q!In(acCache[t], c) : x = <<"cache", t, p>>
                                          \/ \E p \in Q!In(tmp[t], c) : x = <<"tmp", t, p>>
                                          \/ chunk[t] = c /\ x = <<"hand", t, <<0, 0>>>>
    OBVIOUS
  <2> HIDE DEF places
  <2>1. CASE x \in G
    BY <2>1
  <2>2. CASE x \in D
    BY <2>2
  <2>3. ASSUME NEW t \in Users, x \in A(t) \union B(t)
        PROVE  \/ \E p \in Q!In(acCache[t], c) : x = <<"cache", t, p>>
               \/ \E p \in Q!In(tmp[t], c) : x = <<"tmp", t, p>>
    BY <2>3
  <2> HIDE DEF G, A, B, D
  <2>4. x \in G \/ x \in D \/ \E t \in Users : x \in A(t) \union B(t)
    BY <1>0
  <2> QED  BY <2>1, <2>2, <2>3, <2>4
<1>4. /\ \A p \in Q!In(global, c) : <<"global", None, p>> \in places
      /\ \A t \in Users : /\ \A p \in Q!In(acCache[t], c) : <<"cache", t, p>> \in places
                          /\ \A p \in Q!In(tmp[t], c) : <<"tmp", t, p>> \in places
                          /\ chunk[t] = c => <<"hand", t, <<0, 0>>>> \in places
  <2> HIDE DEF places
  <2>1. \A p \in Q!In(global, c) : <<"global", None, p>> \in G
    OBVIOUS
  <2>2. \A t \in Users : chunk[t] = c => <<"hand", t, <<0, 0>>>> \in D
    OBVIOUS
  <2>3. \A t \in Users : /\ \A p \in Q!In(acCache[t], c) : <<"cache", t, p>> \in A(t)
                         /\ \A p \in Q!In(tmp[t], c) : <<"tmp", t, p>> \in B(t)
    OBVIOUS
  <2> HIDE DEF G, A, B, D
  <2>4. \A t \in Users : A(t) \subseteq places /\ B(t) \subseteq places
    BY <1>0
  <2>5. G \subseteq places /\ D \subseteq places
    BY <1>0
  <2> QED  BY <2>1, <2>2, <2>3, <2>4, <2>5
<1>5. /\ Q!In(global, c) = {} <=> c \notin QAll(global)
      /\ \A x, y \in Q!In(global, c) : x = y
  BY <1>1, <1>2, QInOf
<1>6. \A t \in Users : /\ Q!In(acCache[t], c) = {} <=> c \notin QAll(acCache[t])
                       /\ Q!In(tmp[t], c) = {} <=> c \notin QAll(tmp[t])
                       /\ \A x, y \in Q!In(acCache[t], c) : x = y
                       /\ \A x, y \in Q!In(tmp[t], c) : x = y
  BY <1>1, <1>2, QInOf
<1>7. ASSUME NEW x \in Q!Places(c)
      PROVE  /\ x = <<x[1], x[2], x[3]>> /\ x[1] \in QKinds /\ x[2] \in QOwners /\ QAt(c, x[1], x[2])
             /\ x[1] = "global" => x[3] \in Q!In(global, c)
             /\ x[1] = "cache" => x[2] \in Users /\ x[3] \in Q!In(acCache[x[2]], c)
             /\ x[1] = "tmp" => x[2] \in Users /\ x[3] \in Q!In(tmp[x[2]], c)
             /\ x[1] = "hand" => x[3] = <<0, 0>>
  <2>1. CASE \E p \in Q!In(global, c) : x = <<"global", None, p>>
    <3>1. PICK p \in Q!In(global, c) : x = <<"global", None, p>>
      BY <2>1
    <3>2. x[1] = "global" /\ x[2] = None /\ x[3] = p
      BY <3>1
    <3> QED  BY <1>5, <3>1, <3>2 DEF QKinds, QOwners, QAt
  <2>2. ASSUME NEW t \in Users, NEW p \in Q!In(acCache[t], c), x = <<"cache", t, p>>
        PROVE  x[1] = "cache" /\ x[2] = t /\ x[3] = p /\ c \in QAll(acCache[t])
    BY <1>6, <2>2
  <2>3. ASSUME NEW t \in Users, NEW p \in Q!In(tmp[t], c), x = <<"tmp", t, p>>
        PROVE  x[1] = "tmp" /\ x[2] = t /\ x[3] = p /\ c \in QAll(tmp[t])
    BY <1>6, <2>3
  <2>4. ASSUME NEW t \in Users, chunk[t] = c, x = <<"hand", t, <<0, 0>>>>
        PROVE  x[1] = "hand" /\ x[2] = t /\ x[3] = <<0, 0>>
    BY <2>4
  <2>5. CASE \E t \in Users : \E p \in Q!In(acCache[t], c) : x = <<"cache", t, p>>
    BY <2>2, <2>5 DEF QKinds, QOwners, QAt
  <2>6. CASE \E t \in Users : \E p \in Q!In(tmp[t], c) : x = <<"tmp", t, p>>
    BY <2>3, <2>6 DEF QKinds, QOwners, QAt
  <2>7. CASE \E t \in Users : chunk[t] = c /\ x = <<"hand", t, <<0, 0>>>>
    BY <2>4, <2>7 DEF QKinds, QOwners, QAt
  <2> QED  BY <1>3, <2>1, <2>5, <2>6, <2>7
<1>8. ASSUME NEW k \in QKinds, NEW t \in QOwners, QAt(c, k, t) PROVE Q!Places(c) # {}
  <2>1. CASE k = "global" /\ c \in QAll(global)
    <3>1. PICK p \in Q!In(global, c) : TRUE
      BY <1>5, <2>1
    <3> QED  BY <1>4, <3>1
  <2>2. CASE k = "cache" /\ t \in Users /\ c \in QAll(acCache[t])
    <3>1. PICK p \in Q!In(acCache[t], c) : TRUE
      BY <1>6, <2>2
    <3> QED  BY <1>4, <2>2, <3>1
  <2>3. CASE k = "tmp" /\ t \in Users /\ c \in QAll(tmp[t])
    <3>1. PICK p \in Q!In(tmp[t], c) : TRUE
      BY <1>6, <2>3
    <3> QED  BY <1>4, <2>3, <3>1
  <2>4. CASE k = "hand" /\ t \in Users /\ chunk[t] = c
    BY <1>4, <2>4
  <2> QED  BY <1>8, <2>1, <2>2, <2>3, <2>4 DEF QAt
<1>9. ASSUME NEW x \in Q!Places(c), NEW y \in Q!Places(c), x[1] = y[1], x[2] = y[2] PROVE x = y
  <2>1. x = <<x[1], x[2], x[3]>> /\ y = <<y[1], y[2], y[3]>> /\ x[1] \in QKinds
    BY <1>7
  <2>2. x[3] = y[3]
    BY <1>5, <1>6, <1>7, <1>9 DEF QKinds
  <2> QED  BY <1>9, <2>1, <2>2
<1> QED  BY <1>7, <1>8, <1>9

LEMMA QSound == QInv => Q!ChunksOnce /\ Q!FreedIsPoisoned /\ Q!SizeIsRight
<1> SUFFICES ASSUME QInv, NEW c \in Chunks
             PROVE  IF c \in free \/ chunk_state[c] = "allocated"
                    THEN Q!Places(c) = {} /\ (c \in free => chunk_state[c] = "available")
                    ELSE Q!Places(c) # {} /\ \A x, y \in Q!Places(c) : x = y
  BY DEF QInv, Q!ChunksOnce
<1>1. QPlaced(c)
  BY DEF QInv
<1>2. CASE c \in free \/ chunk_state[c] = "allocated"
  BY <1>1, <1>2, QPlacesOf DEF QPlaced
<1>3. CASE c \notin free /\ chunk_state[c] # "allocated"
  <2>1. Q!Places(c) # {}
    <3>1. PICK k \in QKinds, t \in QOwners : QAt(c, k, t)
      BY <1>1, <1>3 DEF QPlaced
    <3>2. \A l \in QKinds, u \in QOwners : QAt(c, l, u) => Q!Places(c) # {}
      BY QPlacesOf
    <3> QED  BY <3>1, <3>2
  <2>2. ASSUME NEW x \in Q!Places(c), NEW y \in Q!Places(c) PROVE x = y
    <3>1. /\ x[1] \in QKinds /\ x[2] \in QOwners /\ QAt(c, x[1], x[2])
          /\ y[1] \in QKinds /\ y[2] \in QOwners /\ QAt(c, y[1], y[2])
      BY QPlacesOf
    <3>2. x[1] = y[1] /\ x[2] = y[2]
      BY <1>1, <3>1 DEF QPlaced
    <3> QED  BY <3>2, QPlacesOf
  <2> QED  BY <1>3, <2>1, <2>2
<1> QED  BY <1>2, <1>3

(* First in, first out: what is added is added behind, what leaves was first.  *)
LEMMA QPrefix ==
  ASSUME NEW a \in QBatches, NEW b \in QBatches
  PROVE  Q!IsPrefix(a, a \o b) /\ Q!IsSuffix(b, a \o b)
<1> DEFINE c == a \o b
<1>1. /\ c \in QBatches /\ Len(c) = Len(a) + Len(b)
      /\ \A i \in 1 .. Len(a) : c[i] = a[i]
      /\ \A i \in 1 .. Len(b) : c[i + Len(a)] = b[i]
  BY QCat
<1>2. Len(a) \in Nat /\ Len(b) \in Nat
  BY QBasics
<1> HIDE DEF c
<1>3. Q!IsPrefix(a, c)
  <2> DEFINE x == SubSeq(a, 1, Len(a))  y == SubSeq(c, 1, Len(a))
  <2>1. /\ x \in Seq(QBatch) /\ Len(x) = Len(a) /\ \A i \in 1 .. Len(a) : x[i] = a[i]
    BY <1>2, SubSeqProperties DEF QBatches
  <2>2. /\ y \in Seq(QBatch) /\ Len(y) = Len(a) /\ \A i \in 1 .. Len(a) : y[i] = c[i]
    BY <1>1, <1>2, SubSeqProperties DEF QBatches
  <2> HIDE DEF x, y
  <2>3. x = y
    BY <1>1, <2>1, <2>2, SeqEqual
  <2> QED  BY <1>1, <1>2, <2>3 DEF Q!IsPrefix, x, y
<1>4. Q!IsSuffix(b, c)
  <2> DEFINE r == Q!Reverse(b)  s == Q!Reverse(c)  x == SubSeq(r, 1, Len(r))  y == SubSeq(s, 1, Len(r))
  <2>1. /\ r \in Seq(QBatch) /\ Len(r) = Len(b)
        /\ \A i \in 1 .. Len(b) : r[i] = b[Len(b) - i + 1]
    BY <1>2, QBasics DEF Q!Reverse
  <2>2. /\ s \in Seq(QBatch) /\ Len(s) = Len(c)
        /\ \A i \in 1 .. Len(c) : s[i] = c[Len(c) - i + 1]
    BY <1>1, QBasics DEF Q!Reverse
  <2> HIDE DEF r, s
  <2>3. \A i \in 1 .. Len(b) : r[i] = s[i]
    <3> SUFFICES ASSUME NEW i \in 1 .. Len(b) PROVE r[i] = s[i]
      OBVIOUS
    <3> DEFINE j == Len(b) - i + 1
    <3>1. j \in 1 .. Len(b)
      BY <1>2
    <3>2. Len(c) - i + 1 = j + Len(a) /\ i \in 1 .. Len(c)
      BY <1>1, <1>2
    <3>3. r[i] = b[j] /\ s[i] = c[Len(c) - i + 1]
      BY <2>1, <2>2, <3>2
    <3> HIDE DEF j
    <3> QED  BY <1>1, <3>1, <3>2, <3>3
  <2>4. /\ x \in Seq(QBatch) /\ Len(x) = Len(b) /\ \A i \in 1 .. Len(b) : x[i] = r[i]
    BY <1>2, <2>1, SubSeqProperties
  <2>5. /\ y \in Seq(QBatch) /\ Len(y) = Len(b) /\ \A i \in 1 .. Len(b) : y[i] = s[i]
    BY <1>1, <1>2, <2>1, <2>2, SubSeqProperties
  <2> HIDE DEF x, y
  <2>6. x = y
    BY <2>3, <2>4, <2>5, SeqEqual
  <2>7. Len(r) <= Len(s)
    BY <1>1, <1>2, <2>1, <2>2
  <2> QED  BY <2>6, <2>7 DEF Q!IsSuffix, Q!IsPrefix, x, y, r, s
<1> QED  BY <1>3, <1>4 DEF c

LEMMA QFifo ==
  QInv /\ [Q!Next]_(Q!vars) => Q!IsPrefix(global, global') \/ Q!IsSuffix(global', global)
<1> SUFFICES ASSUME QInv, [Q!Next]_(Q!vars)
             PROVE  Q!IsPrefix(global, global') \/ Q!IsSuffix(global', global)
  OBVIOUS
<1>1. global \in QBatches /\ \A t \in Users : acCache[t] \in QBatches
  BY DEF QInv, QTyped
<1>2. CASE UNCHANGED global
  <2>1. << >> \in QBatches
    BY DEF QBatches
  <2>2. << >> \o global = global
    BY <1>1 DEF QBatches
  <2> QED  BY <1>1, <1>2, <2>1, <2>2, QPrefix
<1>3. ASSUME NEW t \in Users, Q!Transfer(t) PROVE Q!IsPrefix(global, global')
  BY <1>1, <1>3, QPrefix DEF Q!Transfer
<1>4. ASSUME NEW t \in Users, Q!TakeOld(t) PROVE Q!IsSuffix(global', global)
  <2>1. PICK k \in 0 .. Len(global) : global' = SubSeq(global, k + 1, Len(global))
    BY <1>4 DEF Q!TakeOld
  <2>2. /\ SubSeq(global, 1, k) \in QBatches /\ SubSeq(global, k + 1, Len(global)) \in QBatches
        /\ global = SubSeq(global, 1, k) \o SubSeq(global, k + 1, Len(global))
    BY <1>1, QCut
  <2>3. Q!IsSuffix(SubSeq(global, k + 1, Len(global)), SubSeq(global, 1, k) \o SubSeq(global, k + 1, Len(global)))
    BY <2>2, QPrefix
  <2> QED  BY <2>1, <2>2, <2>3
<1>5. \/ UNCHANGED global
      \/ \E t \in Users : Q!Transfer(t) \/ Q!TakeOld(t)
  BY DEF Q!Next, Q!Dead, Q!vars, Q!Allocate, Q!Unpoison, Q!Publish, Q!SetQuarantineFlag, Q!Poison, Q!Put,
         Q!CommitBack, Q!TryRecycle, Q!UnlockRecycle, Q!GiveBack
<1> QED  BY <1>2, <1>3, <1>4, <1>5

(* What AsanChunks says of a chunk (asan_allocator2.cc, sanitizer_quarantine.h) *)
(* in every behaviour of it.                                                   *)
THEOREM QuarantineStaysSound == Q!Spec => QuarantineHolds
<1>1. QInv /\ [Q!Next]_(Q!vars)
        => [Q!IsPrefix(global, global') \/ Q!IsSuffix(global', global)]_(Q!vars)
  BY QFifo
<1>2. Q!Spec => []QInv
  BY QInitially, QStep, PTL DEF Q!Spec
<1>3. Q!Spec => [](Q!ChunksOnce /\ Q!FreedIsPoisoned /\ Q!SizeIsRight)
  BY <1>2, QSound, PTL
<1>4. Q!Spec => Q!OldestFirst
  BY <1>1, <1>2, PTL DEF Q!Spec, Q!OldestFirst
<1> QED  BY <1>3, <1>4, PTL DEF QuarantineHolds

-------------------------------------------------------------------------------
(* The run: each part is a behaviour of its module, or stays as it was.        *)
LEMMA Parts == MCSpec => Spec /\ L!Spec /\ C!Spec /\ H!Spec /\ Q!Spec
<1>1. MCInit => Init /\ L!Init /\ C!Init /\ H!Init /\ Q!Init
  BY DEF MCInit
<1>2. [MCNext]_mcvars => /\ [Next]_vars /\ [L!Next]_(L!vars) /\ [C!Next]_(C!vars)
                         /\ [H!Next]_(H!vars) /\ [Q!Next]_(Q!vars)
  <2>1. /\ UNCHANGED lfVars => UNCHANGED L!vars
        /\ UNCHANGED scVars => UNCHANGED C!vars
        /\ UNCHANGED ahVars => UNCHANGED H!vars
        /\ UNCHANGED acVars => UNCHANGED Q!vars
    BY DEF lfVars, L!vars, scVars, C!vars, C!region, ahVars, H!vars, acVars, Q!vars, Q!heap
  <2> QED  BY <2>1 DEF MCNext, mcvars
<1> QED  BY <1>1, <1>2, PTL DEF MCSpec, Spec, L!Spec, C!Spec, H!Spec, Q!Spec

(* LFStack's operations take effect at once (sanitizer_lfstack.h), although a  *)
(* node may come back between the load and the swap: the counter has moved.    *)
THEOREM RunStackIsAtomic == MCSpec => ImplementsAtomicStack
<1>1. L!Spec => L!ImplementsAtomicStack
  BY StackIsAtomic, PTL
<1> QED  BY <1>1, Parts, PTL DEF ImplementsAtomicStack

(* A chunk of the size class and a node of the lock-free stack are in one      *)
(* place, chunks lie in mapped memory, and no batch or cache overflows         *)
(* (sanitizer_allocator.h, sanitizer_lfstack.h).                               *)
THEOREM RunChunksOnce == MCSpec => []ChunksOnce
<1>1. C!ChunksOnce /\ C!MemoryIsThere /\ C!BatchesFit /\ L!Linked /\ L!NodesOnce => ChunksOnce
  BY DEF ChunksOnce
<1> QED  BY <1>1, Parts, ChunksAreOnce, StackIsAtomic, PTL

(* Handles of the address hash map (sanitizer_addrhashmap.h).                  *)
THEOREM RunHandlesHold == MCSpec => []HandlesHold
BY Parts, HandlesAlwaysHold, PTL DEF HandlesHold

(* Asan's chunks and their quarantine (asan_allocator2.cc,                     *)
(* sanitizer_quarantine.h).                                                    *)
THEOREM RunQuarantineHolds == MCSpec => QuarantineHolds
BY Parts, QuarantineStaysSound, PTL

(* The stack depot (sanitizer_stackdepotbase.h) on its allocator.              *)
THEOREM RunDepotIsSound == MCSpec => []DepotIsSound
BY Parts, DepotStaysSound, PTL
===============================================================================
