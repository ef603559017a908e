--------------------------- MODULE TsanThreadsProofs ---------------------------
(***************************************************************************)
(* Proofs about TsanThreads, for every number of threads and contexts,     *)
(* size of the quarantine and limit of reuse.                              *)
(*                                                                         *)
(* The registry comes first, by itself.  Its inductive invariant is the    *)
(* conjunction of its invariants: where a context is, what the counters    *)
(* count and which unique ids are taken need each other.                   *)
(*                                                                         *)
(* Then the interceptors, every step of which is a step of the registry or *)
(* leaves it alone.  What holds between their steps is who has a context:  *)
(* one thread, from ThreadCreate() until it has ended and ThreadJoin() or  *)
(* ThreadDetach() is done with it, whoever has its pthread_t by then.      *)
(***************************************************************************)
EXTENDS TsanThreads, FiniteSetTheorems, TLAPS

IInv == /\ RegistryTypeOK
        /\ CountersCount
        /\ EveryContextInPlace
        /\ FinishedIsJoinable
        /\ UniqueIdsDiffer

-------------------------------------------------------------------------------
(* The lists: what push_back() and pop_front() do to the elements.          *)
LEMMA Pushed ==
  ASSUME NEW S, NEW s \in Seq(S), NEW x \in S
  PROVE  /\ Append(s, x) \in Seq(S) /\ Append(s, x) # <<>>
         /\ Len(Append(s, x)) = Len(s) + 1
         /\ Elements(Append(s, x)) = Elements(s) \cup {x}
         /\ NoRepeats(s) /\ x \notin Elements(s) => NoRepeats(Append(s, x))
<1>1. /\ Append(s, x) \in Seq(S) /\ Append(s, x) # <<>>
      /\ Len(Append(s, x)) = Len(s) + 1 /\ Len(s) \in Nat
      /\ \A i \in 1 .. Len(s) : Append(s, x)[i] = s[i]
      /\ Append(s, x)[Len(s) + 1] = x
  OBVIOUS
<1>2. 1 .. Len(s) + 1 = (1 .. Len(s)) \cup {Len(s) + 1}
  BY <1>1
<1>3. Elements(Append(s, x)) = Elements(s) \cup {x}
  BY <1>1, <1>2 DEF Elements
<1>4. NoRepeats(s) /\ x \notin Elements(s) => NoRepeats(Append(s, x))
  BY <1>1, <1>2 DEF Elements, NoRepeats
<1> QED  BY <1>1, <1>3, <1>4

LEMMA Popped ==
  ASSUME NEW S, NEW s \in Seq(S), s # <<>>, NoRepeats(s)
  PROVE  /\ Tail(s) \in Seq(S) /\ Len(Tail(s)) = Len(s) - 1
         /\ Head(s) \in S /\ Head(s) \in Elements(s)
         /\ Elements(Tail(s)) = Elements(s) \ {Head(s)}
         /\ NoRepeats(Tail(s))
<1>1. /\ Tail(s) \in Seq(S) /\ Len(Tail(s)) = Len(s) - 1 /\ Len(s) \in Nat \ {0}
      /\ Head(s) = s[1] /\ Head(s) \in S
      /\ \A i \in 1 .. Len(s) - 1 : Tail(s)[i] = s[i + 1]
  OBVIOUS
<1>2. Head(s) \in Elements(s)
  BY <1>1 DEF Elements
<1>3. \A i \in 2 .. Len(s) : s[i] = Tail(s)[i - 1] /\ i - 1 \in 1 .. Len(s) - 1
  BY <1>1
<1>4. \A i \in 2 .. Len(s) : s[i] # s[1]
  BY <1>1 DEF NoRepeats
<1>5. ASSUME NEW x PROVE x \in Elements(Tail(s)) <=> x \in Elements(s) \ {Head(s)}
  <2>1. ASSUME x \in Elements(Tail(s)) PROVE x \in Elements(s) \ {Head(s)}
    <3>1. PICK i \in 1 .. Len(s) - 1 : x = s[i + 1]
      BY <1>1, <2>1 DEF Elements
    <3>2. i + 1 \in 2 .. Len(s) /\ i + 1 \in 1 .. Len(s)
      BY <1>1, <3>1
    <3> QED  BY <1>1, <1>4, <3>1, <3>2 DEF Elements
  <2>2. ASSUME x \in Elements(s) \ {Head(s)} PROVE x \in Elements(Tail(s))
    <3>1. PICK i \in 1 .. Len(s) : x = s[i]
      BY <2>2 DEF Elements
    <3>2. i \in 2 .. Len(s)
      BY <1>1, <2>2, <3>1
    <3> QED  BY <1>1, <1>3, <3>1, <3>2 DEF Elements
  <2> QED  BY <2>1, <2>2
<1>6. NoRepeats(Tail(s))
  <2>1. ASSUME NEW i \in 1 .. Len(s) - 1, NEW j \in 1 .. Len(s) - 1, Tail(s)[i] = Tail(s)[j]
        PROVE  i = j
    <3>1. /\ s[i + 1] = s[j + 1]
          /\ i + 1 \in 1 .. Len(s) /\ j + 1 \in 1 .. Len(s)
      BY <1>1, <2>1
    <3>2. i + 1 = j + 1
      BY <3>1 DEF NoRepeats
    <3> QED  BY <3>2
  <2> QED  BY <1>1, <2>1 DEF NoRepeats
<1> QED  BY <1>1, <1>2, <1>5, <1>6

-------------------------------------------------------------------------------
(* The counters: what one thread that enters or leaves a set of statuses    *)
(* does to the number of threads there.                                     *)
LEMMA TidsFinite == IsFiniteSet(Tids)
BY FS_Interval, RegistryAssumption DEF Tids

LEMMA Counted ==
  ASSUME NEW S, NEW t \in Tids,
         \A u \in Tids \ {t} : status'[u] \in S <=> status[u] \in S
  PROVE  /\ Cardinality(With(S)) \in Nat
         /\ Cardinality(With(S)') =
              IF status[t] \in S
              THEN IF status'[t] \in S THEN Cardinality(With(S)) ELSE Cardinality(With(S)) - 1
              ELSE IF status'[t] \in S THEN Cardinality(With(S)) + 1 ELSE Cardinality(With(S))
         /\ status[t] \in S => Cardinality(With(S)) > 0
<1>1. With(S) \in SUBSET Tids
  BY DEF With
<1>2. IsFiniteSet(With(S)) /\ Cardinality(With(S)) \in Nat
  BY <1>1, TidsFinite, FS_Subset, FS_CardinalityType
<1>3. /\ With(S)' = IF status'[t] \in S THEN With(S) \cup {t} ELSE With(S) \ {t}
      /\ t \in With(S) <=> status[t] \in S
  BY DEF With
<1>4. Cardinality(With(S) \cup {t}) =
        IF t \in With(S) THEN Cardinality(With(S)) ELSE Cardinality(With(S)) + 1
  BY <1>2, FS_AddElement
<1>5. Cardinality(With(S) \ {t}) =
        IF t \in With(S) THEN Cardinality(With(S)) - 1 ELSE Cardinality(With(S))
  BY <1>2, FS_RemoveElement
<1>6. t \in With(S) => Cardinality(With(S)) > 0
  <2>1. t \in With(S) => With(S) # {}
    OBVIOUS
  <2> QED  BY <1>2, <2>1, FS_EmptySet
<1>7. Cardinality(With(S)') = Cardinality(IF status'[t] \in S THEN With(S) \cup {t} ELSE With(S) \ {t})
  BY <1>3
<1>8. Cardinality(With(S))' = Cardinality(With(S)')
  OBVIOUS
<1> HIDE DEF With
<1> QED  BY <1>2, <1>3, <1>4, <1>5, <1>6, <1>7, <1>8

-------------------------------------------------------------------------------
LEMMA Initially == RegistryInit => IInv
<1> SUFFICES ASSUME RegistryInit PROVE IInv
  OBVIOUS
<1>1. \A S : "invalid" \notin S => With(S) = {}
  BY DEF RegistryInit, With
<1>2. CountersCount
  <2>1. With({"created", "running"}) = {} /\ With({"running"}) = {}
    BY <1>1
  <2>2. Cardinality({}) = 0
    BY FS_EmptySet
  <2>3. aliveThreads = 0 /\ runningThreads = 0 /\ maxAlive = 0
    BY DEF RegistryInit
  <2>4. Cardinality(With({"created", "running"})) = 0 /\ Cardinality(With({"running"})) = 0
    BY <2>1, <2>2
  <2> QED  BY <2>3, <2>4 DEF CountersCount
<1>3. Allocated = {}
  BY DEF RegistryInit, Allocated, Tids
<1>4. EveryContextInPlace
  <2>1. Elements(<<>>) = {} /\ NoRepeats(<<>>)
    BY DEF Elements, NoRepeats
  <2>2. With({"dead"}) = {}
    BY <1>1
  <2>3. deadThreads = <<>> /\ invalidThreads = <<>> /\ Len(<<>>) <= QuarantineSize
    BY RegistryAssumption DEF RegistryInit
  <2>4. \A t \in Tids \ Allocated : status[t] = "invalid"
    BY DEF RegistryInit
  <2> QED  BY <1>3, <2>1, <2>2, <2>3, <2>4 DEF EveryContextInPlace
<1>5. RegistryTypeOK
  BY RegistryAssumption DEF RegistryInit, RegistryTypeOK, Statuses
<1>6. FinishedIsJoinable /\ UniqueIdsDiffer
  BY <1>3 DEF RegistryInit, FinishedIsJoinable, UniqueIdsDiffer
<1> QED  BY <1>2, <1>4, <1>5, <1>6 DEF IInv

-------------------------------------------------------------------------------
(* A thread that goes through Die(): its context is in the quarantine, or   *)
(* ready, or retired, and so is the one it pushed out.                      *)
LEMMA DeathInPlace ==
  ASSUME RegistryTypeOK, EveryContextInPlace, NEW t \in Allocated,
         status[t] \notin {"invalid", "dead"}, Die(t), UNCHANGED nContexts
  PROVE  /\ status' \in [Tids -> Statuses] /\ userId' \in [Tids -> UserIds \cup {NoUser}]
         /\ reuseCount' \in [Tids -> Nat]
         /\ deadThreads' \in Seq(Tids) /\ invalidThreads' \in Seq(Tids)
         /\ EveryContextInPlace'
         /\ status'[t] \in {"dead", "invalid"}
         /\ \A u \in Tids \ {t} :
              \/ status'[u] = status[u]
              \/ status[u] = "dead" /\ status'[u] = "invalid"
<1> DEFINE all == Append(deadThreads, t)
           old == Head(all)
<1>1. t \in Tids /\ t < nContexts
  BY DEF Allocated
<1>2. /\ deadThreads \in Seq(Tids) /\ invalidThreads \in Seq(Tids)
      /\ status \in [Tids -> Statuses] /\ reuseCount \in [Tids -> Nat]
      /\ userId \in [Tids -> UserIds \cup {NoUser}]
  BY DEF RegistryTypeOK
<1>3. /\ Elements(deadThreads) = With({"dead"}) /\ NoRepeats(deadThreads)
      /\ Elements(invalidThreads) =
           {u \in Allocated : status[u] = "invalid" /\ ~Retired(u, reuseCount[u])}
      /\ NoRepeats(invalidThreads)
      /\ Len(deadThreads) \in Nat /\ Len(deadThreads) <= QuarantineSize
      /\ \A u \in Tids \ Allocated : status[u] = "invalid"
  BY <1>2 DEF EveryContextInPlace
<1>4. t \notin Elements(deadThreads)
  BY <1>3 DEF With
<1>5. /\ all \in Seq(Tids) /\ all # <<>> /\ Len(all) = Len(deadThreads) + 1
      /\ Elements(all) = Elements(deadThreads) \cup {t} /\ NoRepeats(all)
  BY <1>1, <1>2, <1>3, <1>4, Pushed
<1>6. /\ Tail(all) \in Seq(Tids) /\ Len(Tail(all)) = Len(deadThreads)
      /\ old \in Tids /\ old \in Elements(all)
      /\ Elements(Tail(all)) = Elements(all) \ {old} /\ NoRepeats(Tail(all))
  <2> HIDE DEF all
  <2> QED  BY <1>3, <1>5, Popped DEF old
<1>7. Allocated' = Allocated
  BY DEF Allocated
<1>8. userId' \in [Tids -> UserIds \cup {NoUser}]
  BY <1>1, <1>2 DEF Die
<1> HIDE DEF all, old
<1>9. CASE Len(all) <= QuarantineSize
  <2>1. /\ deadThreads' = all /\ status' = [status EXCEPT ![t] = "dead"]
        /\ reuseCount' = reuseCount /\ invalidThreads' = invalidThreads
    BY <1>9 DEF Die, QuarantinePush, all
  <2>2. With({"dead"})' = With({"dead"}) \cup {t}
    BY <1>1, <1>2, <2>1 DEF With
  <2>3. Elements(invalidThreads') =
          {u \in Allocated : status'[u] = "invalid" /\ ~Retired(u, reuseCount'[u])}
    BY <1>1, <1>2, <1>3, <2>1 DEF Allocated
  <2>4. \A u \in Tids \ Allocated : status'[u] = "invalid"
    BY <1>1, <1>2, <1>3, <2>1 DEF Allocated
  <2>5. EveryContextInPlace'
    BY <1>3, <1>5, <1>7, <1>9, <2>1, <2>2, <2>3, <2>4 DEF EveryContextInPlace
  <2>6. status' \in [Tids -> Statuses] /\ status'[t] = "dead"
        /\ \A u \in Tids \ {t} : status'[u] = status[u]
    BY <1>1, <1>2, <2>1 DEF Statuses
  <2> QED  BY <1>2, <1>5, <1>8, <2>1, <2>5, <2>6
<1>10. CASE ~(Len(all) <= QuarantineSize)
  <2>1. /\ deadThreads' = Tail(all)
        /\ status' = [status EXCEPT ![t] = "dead", ![old] = "invalid"]
        /\ reuseCount' = [reuseCount EXCEPT ![old] = @ + 1]
        /\ invalidThreads' = IF Retired(old, reuseCount'[old]) THEN invalidThreads
                             ELSE Append(invalidThreads, old)
    BY <1>10 DEF Die, QuarantinePush, all, old
  <2>2. status[old] # "invalid" /\ (old = t \/ status[old] = "dead")
    BY <1>3, <1>5, <1>6 DEF With
  <2>3. old \in Allocated /\ old \notin Elements(invalidThreads)
    BY <1>3, <1>6, <2>2
  <2>4. /\ status' \in [Tids -> Statuses] /\ reuseCount' \in [Tids -> Nat]
        /\ status'[old] = "invalid" /\ reuseCount'[old] \in Nat
        /\ t # old => status'[t] = "dead"
        /\ \A u \in Tids \ {t, old} : status'[u] = status[u]
        /\ \A u \in Tids \ {old} : reuseCount'[u] = reuseCount[u]
    <3>1. status' \in [Tids -> Statuses] /\ status'[old] = "invalid"
      BY <1>1, <1>2, <1>6, <2>1 DEF Statuses
    <3>2. /\ t # old => status'[t] = "dead"
          /\ \A u \in Tids \ {t, old} : status'[u] = status[u]
      BY <1>1, <1>2, <1>6, <2>1
    <3>3. reuseCount[old] \in Nat /\ reuseCount[old] + 1 \in Nat
      BY <1>2, <1>6
    <3>4. /\ reuseCount' \in [Tids -> Nat] /\ reuseCount'[old] \in Nat
          /\ \A u \in Tids \ {old} : reuseCount'[u] = reuseCount[u]
      BY <1>2, <1>6, <2>1, <3>3
    <3> QED  BY <3>1, <3>2, <3>4
  <2>5. With({"dead"})' = (With({"dead"}) \cup {t}) \ {old}
    BY <1>1, <1>6, <2>4 DEF With
  <2>6. /\ invalidThreads' \in Seq(Tids) /\ NoRepeats(invalidThreads')
        /\ Elements(invalidThreads') =
             IF Retired(old, reuseCount'[old]) THEN Elements(invalidThreads)
             ELSE Elements(invalidThreads) \cup {old}
    <3>1. /\ Append(invalidThreads, old) \in Seq(Tids)
          /\ NoRepeats(Append(invalidThreads, old))
          /\ Elements(Append(invalidThreads, old)) = Elements(invalidThreads) \cup {old}
      BY <1>2, <1>3, <1>6, <2>3, Pushed
    <3>2. CASE Retired(old, reuseCount'[old])
      BY <1>2, <1>3, <2>1, <3>2
    <3>3. CASE ~Retired(old, reuseCount'[old])
      <4>1. invalidThreads' = Append(invalidThreads, old)
        BY <2>1, <3>3
      <4> QED  BY <3>1, <3>3, <4>1
    <3> QED  BY <3>2, <3>3
  <2>7. Elements(invalidThreads') =
          {u \in Allocated : status'[u] = "invalid" /\ ~Retired(u, reuseCount'[u])}
    <3>1. ASSUME NEW u
          PROVE  u \in Elements(invalidThreads') <=>
                 u \in Allocated /\ status'[u] = "invalid" /\ ~Retired(u, reuseCount'[u])
      <4>1. CASE u = old
        BY <2>3, <2>4, <2>6, <4>1
      <4>2. CASE u = t /\ u # old
        BY <1>1, <1>3, <2>4, <2>6, <4>2
      <4>3. CASE u # t /\ u # old
        BY <1>3, <2>4, <2>6, <4>3 DEF Allocated
      <4> QED  BY <4>1, <4>2, <4>3
    <3> QED  BY <3>1
  <2>8. \A u \in Tids \ Allocated : status'[u] = "invalid"
    BY <1>3, <2>3, <2>4
  <2>9. Len(deadThreads') <= QuarantineSize
    BY <1>3, <1>6, <2>1
  <2>10. EveryContextInPlace'
    BY <1>3, <1>5, <1>6, <1>7, <2>1, <2>5, <2>6, <2>7, <2>8, <2>9 DEF EveryContextInPlace
  <2>11. status'[t] \in {"dead", "invalid"}
    BY <2>4
  <2>12. deadThreads' \in Seq(Tids)
    BY <1>6, <2>1
  <2>13. \A u \in Tids \ {t} :
           \/ status'[u] = status[u]
           \/ status[u] = "dead" /\ status'[u] = "invalid"
    BY <2>2, <2>4
  <2> QED  BY <1>8, <2>4, <2>6, <2>10, <2>11, <2>12, <2>13
<1> QED  BY <1>9, <1>10

(* The counters after a step that changes the status of t, and perhaps that *)
(* of a dead context to invalid.                                            *)
LEMMA CountersFollow ==
  ASSUME RegistryTypeOK, CountersCount, NEW t \in Tids,
         \A u \in Tids \ {t} : \/ status'[u] = status[u]
                               \/ status[u] = "dead" /\ status'[u] = "invalid",
         aliveThreads' = IF status[t] \in {"created", "running"}
                         THEN IF status'[t] \in {"created", "running"}
                              THEN aliveThreads ELSE aliveThreads - 1
                         ELSE IF status'[t] \in {"created", "running"}
                              THEN aliveThreads + 1 ELSE aliveThreads,
         runningThreads' = IF status[t] \in {"running"}
                           THEN IF status'[t] \in {"running"}
                                THEN runningThreads ELSE runningThreads - 1
                           ELSE IF status'[t] \in {"running"}
                                THEN runningThreads + 1 ELSE runningThreads,
         maxAlive' \in Nat, aliveThreads' <= maxAlive'
  PROVE  CountersCount' /\ aliveThreads' \in Nat /\ runningThreads' \in Nat
<1>1. \A u \in Tids \ {t} :
        status'[u] \in {"created", "running"} <=> status[u] \in {"created", "running"}
  OBVIOUS
<1>2. \A u \in Tids \ {t} : status'[u] \in {"running"} <=> status[u] \in {"running"}
  OBVIOUS
<1> DEFINE A == {"created", "running"}
           R == {"running"}
<1> HIDE DEF A, R
<1>3. /\ Cardinality(With(A)) \in Nat
      /\ Cardinality(With(A)') =
           IF status[t] \in A
           THEN IF status'[t] \in A THEN Cardinality(With(A)) ELSE Cardinality(With(A)) - 1
           ELSE IF status'[t] \in A THEN Cardinality(With(A)) + 1 ELSE Cardinality(With(A))
      /\ status[t] \in A => Cardinality(With(A)) > 0
  <2>1. \A u \in Tids \ {t} : status'[u] \in A <=> status[u] \in A
    BY <1>1 DEF A
  <2> QED  BY <2>1, Counted
<1>4. /\ Cardinality(With(R)) \in Nat
      /\ Cardinality(With(R)') =
           IF status[t] \in R
           THEN IF status'[t] \in R THEN Cardinality(With(R)) ELSE Cardinality(With(R)) - 1
           ELSE IF status'[t] \in R THEN Cardinality(With(R)) + 1 ELSE Cardinality(With(R))
      /\ status[t] \in R => Cardinality(With(R)) > 0
  <2>1. \A u \in Tids \ {t} : status'[u] \in R <=> status[u] \in R
    BY <1>2 DEF R
  <2> QED  BY <2>1, Counted
<1>5. aliveThreads = Cardinality(With(A)) /\ runningThreads = Cardinality(With(R))
  BY DEF CountersCount, A, R
<1>6. aliveThreads' = Cardinality(With(A)') /\ aliveThreads' \in Nat
  BY <1>3, <1>5 DEF A
<1>7. runningThreads' = Cardinality(With(R)') /\ runningThreads' \in Nat
  BY <1>4, <1>5 DEF R
<1> QED  BY <1>6, <1>7 DEF CountersCount, A, R

(* A thread that ends detached, or ended and is joined or detached.         *)
LEMMA DeathKeeps ==
  ASSUME IInv, NEW t \in Allocated, Die(t),
         \/ status[t] = "finished" /\ UNCHANGED <<aliveThreads, runningThreads>>
         \/ /\ status[t] = "running" /\ aliveThreads' = aliveThreads - 1
            /\ runningThreads' = runningThreads - 1,
         UNCHANGED <<detached, uniqueId, nContexts, totalThreads, maxAlive>>
  PROVE  IInv'
<1>1. t \in Tids
  BY DEF Allocated
<1>2. RegistryTypeOK /\ CountersCount /\ EveryContextInPlace
  BY DEF IInv
<1>3. /\ status' \in [Tids -> Statuses] /\ userId' \in [Tids -> UserIds \cup {NoUser}]
      /\ reuseCount' \in [Tids -> Nat]
      /\ deadThreads' \in Seq(Tids) /\ invalidThreads' \in Seq(Tids)
      /\ EveryContextInPlace'
      /\ status'[t] \in {"dead", "invalid"}
      /\ \A u \in Tids \ {t} : \/ status'[u] = status[u]
                               \/ status[u] = "dead" /\ status'[u] = "invalid"
  BY <1>2, DeathInPlace
<1>4. CountersCount' /\ aliveThreads' \in Nat /\ runningThreads' \in Nat
  <2>1. maxAlive' \in Nat /\ aliveThreads' <= maxAlive'
    BY <1>2 DEF RegistryTypeOK, CountersCount
  <2> QED  BY <1>1, <1>2, <1>3, <2>1, CountersFollow
<1>5. RegistryTypeOK'
  BY <1>2, <1>3, <1>4 DEF RegistryTypeOK
<1>6. FinishedIsJoinable'
  BY <1>3 DEF IInv, FinishedIsJoinable
<1>7. UniqueIdsDiffer'
  BY DEF IInv, UniqueIdsDiffer, Allocated
<1> QED  BY <1>3, <1>4, <1>5, <1>6, <1>7 DEF IInv

LEMMA CreateKeeps ==
  ASSUME IInv, NEW uid \in UserIds, NEW d \in BOOLEAN, CreateThread(uid, d)
  PROVE  IInv'
<1> DEFINE n == NextTid
<1>1. RegistryTypeOK /\ CountersCount /\ EveryContextInPlace
  BY DEF IInv
<1>2. /\ deadThreads \in Seq(Tids) /\ invalidThreads \in Seq(Tids)
      /\ status \in [Tids -> Statuses] /\ nContexts \in 0 .. MaxThreads
      /\ totalThreads \in Nat /\ aliveThreads \in Nat /\ maxAlive \in Nat
      /\ uniqueId \in [Tids -> Nat]
  BY <1>1 DEF RegistryTypeOK
<1>3. /\ Elements(deadThreads) = With({"dead"}) /\ NoRepeats(deadThreads)
      /\ Elements(invalidThreads) =
           {u \in Allocated : status[u] = "invalid" /\ ~Retired(u, reuseCount[u])}
      /\ NoRepeats(invalidThreads) /\ Len(deadThreads) <= QuarantineSize
      /\ \A u \in Tids \ Allocated : status[u] = "invalid"
  BY <1>1 DEF EveryContextInPlace
<1>4. /\ n \in Tids /\ status[n] = "invalid" /\ Allocated' = Allocated \cup {n}
      /\ nContexts' \in 0 .. MaxThreads
      /\ invalidThreads' \in Seq(Tids) /\ NoRepeats(invalidThreads')
      /\ Elements(invalidThreads') = Elements(invalidThreads) \ {n}
  <2>1. CASE invalidThreads # <<>>
    <3>1. n = Head(invalidThreads) /\ invalidThreads' = Tail(invalidThreads)
          /\ nContexts' = nContexts
      BY <2>1 DEF CreateThread, NextTid
    <3>2. /\ Tail(invalidThreads) \in Seq(Tids) /\ NoRepeats(Tail(invalidThreads))
          /\ Head(invalidThreads) \in Elements(invalidThreads)
          /\ Elements(Tail(invalidThreads)) = Elements(invalidThreads) \ {Head(invalidThreads)}
      BY <1>2, <1>3, <2>1, Popped
    <3>3. n \in Allocated /\ status[n] = "invalid"
      BY <1>3, <3>1, <3>2
    <3>4. Allocated' = Allocated
      BY <3>1 DEF Allocated
    <3> QED  BY <1>2, <3>1, <3>2, <3>3, <3>4 DEF Allocated
  <2>2. CASE invalidThreads = <<>>
    <3>1. /\ n = nContexts /\ nContexts < MaxThreads
          /\ invalidThreads' = invalidThreads /\ nContexts' = nContexts + 1
      BY <2>2 DEF CreateThread, NextTid
    <3>2. MaxThreads \in Nat
      BY RegistryAssumption
    <3>3. n \in Tids /\ n \notin Allocated /\ nContexts' \in 0 .. MaxThreads
      BY <1>2, <3>1, <3>2 DEF Tids, Allocated
    <3>4. Allocated' = Allocated \cup {n}
      BY <1>2, <3>1, <3>2 DEF Allocated, Tids
    <3>5. n \notin Elements(invalidThreads)
      BY <1>3, <3>3
    <3> QED  BY <1>2, <1>3, <3>1, <3>3, <3>4, <3>5
  <2> QED  BY <2>1, <2>2
<1>5. /\ status' = [status EXCEPT ![n] = "created"] /\ detached' = [detached EXCEPT ![n] = d]
      /\ userId' = [userId EXCEPT ![n] = uid]
      /\ uniqueId' = [uniqueId EXCEPT ![n] = totalThreads]
      /\ totalThreads' = totalThreads + 1 /\ aliveThreads' = aliveThreads + 1
      /\ maxAlive' = IF maxAlive < aliveThreads' THEN maxAlive + 1 ELSE maxAlive
      /\ UNCHANGED <<reuseCount, runningThreads, deadThreads>>
  BY DEF CreateThread
<1> HIDE DEF n
<1>6. /\ status' \in [Tids -> Statuses] /\ status'[n] = "created"
      /\ \A u \in Tids \ {n} : status'[u] = status[u]
  BY <1>2, <1>4, <1>5 DEF Statuses
<1>7. CountersCount' /\ aliveThreads' \in Nat /\ runningThreads' \in Nat
  <2>1. maxAlive' \in Nat /\ aliveThreads' <= maxAlive'
    BY <1>1, <1>2, <1>5 DEF CountersCount
  <2> QED  BY <1>1, <1>4, <1>5, <1>6, <2>1, CountersFollow
<1>8. EveryContextInPlace'
  <2>1. With({"dead"})' = With({"dead"})
    BY <1>4, <1>6 DEF With
  <2>2. Elements(invalidThreads') =
          {u \in Allocated' : status'[u] = "invalid" /\ ~Retired(u, reuseCount'[u])}
    <3>1. ASSUME NEW u
          PROVE  u \in Elements(invalidThreads') <=>
                 u \in Allocated' /\ status'[u] = "invalid" /\ ~Retired(u, reuseCount'[u])
      <4>1. CASE u = n
        BY <1>4, <1>6, <4>1
      <4>2. CASE u # n
        BY <1>3, <1>4, <1>5, <1>6, <4>2 DEF Allocated
      <4> QED  BY <4>1, <4>2
    <3> QED  BY <3>1
  <2>3. \A u \in Tids \ Allocated' : status'[u] = "invalid"
    BY <1>3, <1>4, <1>6
  <2> QED  BY <1>3, <1>4, <1>5, <2>1, <2>2, <2>3 DEF EveryContextInPlace
<1>9. RegistryTypeOK'
  <2>1. /\ detached' \in [Tids -> BOOLEAN] /\ userId' \in [Tids -> UserIds \cup {NoUser}]
        /\ uniqueId' \in [Tids -> Nat] /\ reuseCount' \in [Tids -> Nat]
        /\ totalThreads' \in Nat /\ deadThreads' \in Seq(Tids)
    BY <1>1, <1>4, <1>5 DEF RegistryTypeOK
  <2>2. maxAlive' \in Nat
    BY <1>2, <1>5
  <2> QED  BY <1>4, <1>6, <1>7, <2>1, <2>2 DEF RegistryTypeOK
<1>10. FinishedIsJoinable'
  BY <1>1, <1>4, <1>5, <1>6 DEF IInv, FinishedIsJoinable, RegistryTypeOK
<1>11. UniqueIdsDiffer'
  <2>1. /\ \A t \in Allocated : uniqueId[t] \in Nat /\ uniqueId[t] < totalThreads
        /\ \A t, u \in Allocated : uniqueId[t] = uniqueId[u] => t = u
    BY <1>2 DEF IInv, UniqueIdsDiffer, Allocated
  <2>2. /\ uniqueId'[n] = totalThreads
        /\ \A t \in Tids \ {n} : uniqueId'[t] = uniqueId[t]
    BY <1>2, <1>4, <1>5
  <2>3. \A t \in Allocated' : 
          \/ t = n
          \/ t \in Allocated /\ uniqueId'[t] = uniqueId[t]
    BY <1>4, <2>2 DEF Allocated
  <2> QED  BY <1>2, <1>5, <2>1, <2>2, <2>3 DEF UniqueIdsDiffer
<1> QED  BY <1>7, <1>8, <1>9, <1>10, <1>11 DEF IInv

(* A step that changes the status of one live thread and no list.           *)
LEMMA StatusKeeps ==
  ASSUME IInv, NEW t \in Allocated, NEW new \in {"running", "finished"},
         new = "finished" => ~detached[t],
         status' = [status EXCEPT ![t] = new],
         \/ /\ status[t] = "created" /\ new = "running"
            /\ aliveThreads' = aliveThreads /\ runningThreads' = runningThreads + 1
         \/ /\ status[t] = "running" /\ new = "finished"
            /\ aliveThreads' = aliveThreads - 1 /\ runningThreads' = runningThreads - 1,
         UNCHANGED <<detached, userId, uniqueId, reuseCount, nContexts, totalThreads,
                     maxAlive, lists>>
  PROVE  IInv'
<1>1. RegistryTypeOK /\ CountersCount /\ EveryContextInPlace /\ t \in Tids
  BY DEF IInv, Allocated
<1>2. /\ status' \in [Tids -> Statuses] /\ status'[t] = new
      /\ \A u \in Tids \ {t} : status'[u] = status[u]
  BY <1>1 DEF RegistryTypeOK, Statuses
<1>3. CountersCount' /\ aliveThreads' \in Nat /\ runningThreads' \in Nat
  <2>1. maxAlive' \in Nat /\ aliveThreads' <= maxAlive'
    BY <1>1 DEF RegistryTypeOK, CountersCount
  <2> QED  BY <1>1, <1>2, <2>1, CountersFollow
<1>4. EveryContextInPlace'
  <2>1. With({"dead"})' = With({"dead"})
    BY <1>1, <1>2 DEF With
  <2>2. Allocated' = Allocated /\ deadThreads' = deadThreads
        /\ invalidThreads' = invalidThreads /\ reuseCount' = reuseCount
    BY DEF Allocated, lists
  <2>3. {u \in Allocated : status'[u] = "invalid" /\ ~Retired(u, reuseCount[u])} =
        {u \in Allocated : status[u] = "invalid" /\ ~Retired(u, reuseCount[u])}
    BY <1>2 DEF Allocated
  <2>4. \A u \in Tids \ Allocated : status'[u] = "invalid"
    BY <1>1, <1>2 DEF EveryContextInPlace
  <2> QED  BY <1>1, <2>1, <2>2, <2>3, <2>4 DEF EveryContextInPlace
<1>5. RegistryTypeOK'
  BY <1>1, <1>2, <1>3 DEF RegistryTypeOK, lists
<1>6. FinishedIsJoinable' /\ UniqueIdsDiffer'
  BY <1>1, <1>2 DEF IInv, FinishedIsJoinable, UniqueIdsDiffer, Allocated
<1> QED  BY <1>3, <1>4, <1>5, <1>6 DEF IInv

(* A step that changes nothing the lists and counters depend on.            *)
LEMMA OthersKeep ==
  ASSUME IInv, detached' \in [Tids -> BOOLEAN], FinishedIsJoinable',
         userId' \in [Tids -> UserIds \cup {NoUser}],
         UNCHANGED <<status, uniqueId, reuseCount, counters, lists>>
  PROVE  IInv'
<1>1. Allocated' = Allocated /\ \A S : With(S)' = With(S)
  BY DEF Allocated, With, counters
<1>2. RegistryTypeOK'
  BY DEF IInv, RegistryTypeOK, counters, lists
<1>3. CountersCount'
  BY <1>1 DEF IInv, CountersCount, counters
<1>4. EveryContextInPlace'
  BY <1>1 DEF IInv, EveryContextInPlace, lists
<1>5. UniqueIdsDiffer'
  BY <1>1 DEF IInv, UniqueIdsDiffer, counters
<1> QED  BY <1>2, <1>3, <1>4, <1>5 DEF IInv

(* The operations of the registry, however many threads there are.          *)
RegistryStep ==
  \/ \E uid \in UserIds, d \in BOOLEAN : CreateThread(uid, d)
  \/ \E t \in Allocated :
       StartThread(t) \/ FinishThread(t) \/ JoinThread(t) \/ DetachThread(t)
  \/ \E uid \in UserIds : FindThreadByUid(uid)

LEMMA Inductive == IInv /\ [RegistryStep]_registryVars => IInv'
<1> SUFFICES ASSUME IInv, [RegistryStep]_registryVars PROVE IInv'
  OBVIOUS
<1>1. /\ detached \in [Tids -> BOOLEAN] /\ userId \in [Tids -> UserIds \cup {NoUser}]
      /\ FinishedIsJoinable
  BY DEF IInv, RegistryTypeOK
<1>2. CASE UNCHANGED registryVars
  BY <1>1, <1>2, OthersKeep DEF registryVars, context, FinishedIsJoinable
<1>3. ASSUME NEW uid \in UserIds, NEW d \in BOOLEAN, CreateThread(uid, d) PROVE IInv'
  BY <1>3, CreateKeeps
<1>4. ASSUME NEW t \in Allocated, StartThread(t) PROVE IInv'
  BY <1>4, StatusKeeps DEF StartThread
<1>5. ASSUME NEW t \in Allocated, FinishThread(t) PROVE IInv'
  <2>1. CASE detached[t]
    BY <1>5, <2>1, DeathKeeps DEF FinishThread
  <2>2. CASE ~detached[t]
    BY <1>5, <2>2, StatusKeeps DEF FinishThread
  <2> QED  BY <2>1, <2>2
<1>6. ASSUME NEW t \in Allocated, JoinThread(t) PROVE IInv'
  <2>1. CASE status[t] = "invalid"
    BY <1>2, <1>6, <2>1 DEF JoinThread
  <2>2. CASE status[t] # "invalid"
    BY <1>6, <2>2, DeathKeeps DEF JoinThread, counters
  <2> QED  BY <2>1, <2>2
<1>7. ASSUME NEW t \in Allocated, DetachThread(t) PROVE IInv'
  <2>1. CASE status[t] = "invalid"
    BY <1>2, <1>7, <2>1 DEF DetachThread
  <2>2. CASE status[t] = "finished"
    BY <1>7, <2>2, DeathKeeps DEF DetachThread, counters
  <2>3. CASE status[t] \notin {"invalid", "finished"}
    <3>1. /\ detached' = [detached EXCEPT ![t] = TRUE]
          /\ UNCHANGED <<status, userId, reuseCount, lists, uniqueId, counters>>
      BY <1>7, <2>3 DEF DetachThread
    <3>2. detached' \in [Tids -> BOOLEAN] /\ FinishedIsJoinable'
      BY <1>1, <2>3, <3>1 DEF FinishedIsJoinable
    <3> QED  BY <1>1, <3>1, <3>2, OthersKeep
  <2> QED  BY <2>1, <2>2, <2>3
<1>8. ASSUME NEW uid \in UserIds, FindThreadByUid(uid) PROVE IInv'
  <2>1. /\ userId' \in [Tids -> UserIds \cup {NoUser}]
        /\ UNCHANGED <<status, detached, uniqueId, reuseCount, counters, lists>>
    BY <1>1, <1>8 DEF FindThreadByUid
  <2>2. FinishedIsJoinable' /\ detached' \in [Tids -> BOOLEAN]
    BY <1>1, <2>1 DEF FinishedIsJoinable
  <2> QED  BY <2>1, <2>2, OthersKeep
<1> QED  BY <1>2, <1>3, <1>4, <1>5, <1>6, <1>7, <1>8 DEF RegistryStep

LEMMA RegistryInvariant == RegistrySpec => []IInv
<1>1. RegistryNext => RegistryStep
  BY DEF RegistryNext, RegistryStep
<1> QED  BY <1>1, Initially, Inductive, PTL DEF RegistrySpec

-------------------------------------------------------------------------------
(* The quarantine.  A list without repetitions is as long as the set of     *)
(* its elements is large.                                                   *)
LEMMA AsLongAsLarge ==
  ASSUME NEW S, NEW s \in Seq(S), NoRepeats(s)
  PROVE  Cardinality(Elements(s)) = Len(s)
<1> DEFINE D == 1 .. Len(s)
           f == [i \in D |-> s[i]]
<1>1. Len(s) \in Nat /\ \A i \in D : s[i] \in Elements(s)
  BY DEF Elements
<1>2. f \in [D -> Elements(s)] /\ \A a, b \in D : f[a] = f[b] => a = b
  BY <1>1 DEF NoRepeats
<1>3. \A e \in Elements(s) : \E i \in D : f[i] = e
  BY DEF Elements
<1>4. f \in Bijection(D, Elements(s))
  BY <1>2, <1>3 DEF Bijection, Injection, Surjection, IsInjective
<1>5. IsFiniteSet(D) /\ Cardinality(D) = Len(s)
  <2>1. Cardinality(D) = IF 1 > Len(s) THEN 0 ELSE Len(s) - 1 + 1
    BY <1>1, FS_Interval
  <2>2. IsFiniteSet(D)
    BY <1>1, FS_Interval
  <2> QED  BY <1>1, <2>1, <2>2
<1>6. ExistsBijection(D, Elements(s))
  BY <1>4 DEF ExistsBijection
<1> HIDE DEF D
<1>7. Cardinality(Elements(s)) = Cardinality(D)
  BY <1>5, <1>6, FS_Bijection
<1> QED  BY <1>5, <1>7

(* A death that makes a context invalid: the one that leaves is the oldest  *)
(* of a full quarantine, which is full again afterwards.                    *)
LEMMA DeathWaits ==
  ASSUME IInv, NEW t \in Allocated, status[t] \notin {"invalid", "dead"},
         Die(t), UNCHANGED nContexts
  PROVE  ReuseWaits
<1> DEFINE all == Append(deadThreads, t)
           old == Head(all)
<1>1. /\ RegistryTypeOK /\ EveryContextInPlace /\ t \in Tids
      /\ deadThreads \in Seq(Tids) /\ Len(deadThreads) \in Nat
      /\ Len(deadThreads) <= QuarantineSize /\ QuarantineSize \in Nat
  BY RegistryAssumption DEF IInv, RegistryTypeOK, EveryContextInPlace, Allocated
<1>2. EveryContextInPlace' /\ deadThreads' \in Seq(Tids)
  BY <1>1, DeathInPlace
<1>3. Cardinality(With({"dead"})') = Len(deadThreads')
  <2>1. NoRepeats(deadThreads') /\ Elements(deadThreads') = With({"dead"})'
    BY <1>2 DEF EveryContextInPlace
  <2>2. Cardinality(Elements(deadThreads')) = Len(deadThreads')
    BY <1>2, <2>1, AsLongAsLarge
  <2> QED  BY <2>1, <2>2
<1>4. /\ all \in Seq(Tids) /\ all # <<>> /\ Len(all) = Len(deadThreads) + 1
      /\ Len(Tail(all)) = Len(deadThreads)
      /\ old = IF Len(deadThreads) = 0 THEN t ELSE deadThreads[1]
  <2>1. all \in Seq(Tids) /\ all # <<>> /\ Len(all) = Len(deadThreads) + 1
    BY <1>1, Pushed
  <2>2. old = all[1] /\ Len(Tail(all)) = Len(all) - 1
    <3> HIDE DEF all
    <3> QED  BY <2>1
  <2>3. all[1] = IF Len(deadThreads) = 0 THEN t ELSE deadThreads[1]
    BY <1>1
  <2> QED  BY <1>1, <2>1, <2>2, <2>3
<1>5. old \in Tids /\ (Len(deadThreads) > 0 => status[old] = "dead")
  <2>1. Len(deadThreads) > 0 => deadThreads[1] \in With({"dead"})
    BY <1>1 DEF EveryContextInPlace, Elements
  <2> QED  BY <1>1, <1>4, <2>1 DEF With
<1>6. status \in [Tids -> Statuses]
  BY <1>1 DEF RegistryTypeOK
<1> HIDE DEF all, old
<1> SUFFICES ASSUME NEW u \in Tids, status[u] # "invalid", status'[u] = "invalid"
             PROVE  /\ QuarantineSize > 0 => status[u] = "dead"
                    /\ Cardinality(With({"dead"})') = QuarantineSize
  BY DEF ReuseWaits
<1>7. CASE Len(all) <= QuarantineSize
  <2>1. status' = [status EXCEPT ![t] = "dead"]
    BY <1>7 DEF Die, QuarantinePush, all
  <2> QED  BY <1>1, <1>6, <2>1
<1>8. CASE ~(Len(all) <= QuarantineSize)
  <2>1. /\ deadThreads' = Tail(all)
        /\ status' = [status EXCEPT ![t] = "dead", ![old] = "invalid"]
    BY <1>8 DEF Die, QuarantinePush, all, old
  <2>2. Len(deadThreads) = QuarantineSize
    BY <1>1, <1>4, <1>8
  <2>3. u = old
    BY <1>1, <1>5, <1>6, <2>1
  <2> QED  BY <1>1, <1>3, <1>4, <1>5, <2>1, <2>2, <2>3
<1> QED  BY <1>7, <1>8

LEMMA StepWaits == IInv /\ [RegistryStep]_registryVars => [ReuseWaits]_registryVars
<1> SUFFICES ASSUME IInv, RegistryStep PROVE ReuseWaits
  OBVIOUS
<1>1. status \in [Tids -> Statuses]
  BY DEF IInv, RegistryTypeOK
<1>2. ASSUME UNCHANGED status PROVE ReuseWaits
  BY <1>2 DEF ReuseWaits
<1>3. ASSUME NEW t, NEW new, new # "invalid", status' = [status EXCEPT ![t] = new]
      PROVE  ReuseWaits
  BY <1>1, <1>3 DEF ReuseWaits
<1>4. ASSUME NEW uid \in UserIds, NEW d \in BOOLEAN, CreateThread(uid, d) PROVE ReuseWaits
  <2>1. status' = [status EXCEPT ![NextTid] = "created"]
    BY <1>4 DEF CreateThread
  <2> QED  BY <1>3, <2>1
<1>5. ASSUME NEW t \in Allocated, StartThread(t) PROVE ReuseWaits
  BY <1>3, <1>5 DEF StartThread
<1>6. ASSUME NEW t \in Allocated, FinishThread(t) PROVE ReuseWaits
  <2>1. CASE detached[t]
    BY <1>6, <2>1, DeathWaits DEF FinishThread
  <2>2. CASE ~detached[t]
    BY <1>3, <1>6, <2>2 DEF FinishThread
  <2> QED  BY <2>1, <2>2
<1>7. ASSUME NEW t \in Allocated, JoinThread(t) PROVE ReuseWaits
  BY <1>2, <1>7, DeathWaits DEF JoinThread, registryVars, context, counters
<1>8. ASSUME NEW t \in Allocated, DetachThread(t) PROVE ReuseWaits
  BY <1>2, <1>8, DeathWaits DEF DetachThread, registryVars, context, counters
<1>9. ASSUME NEW uid \in UserIds, FindThreadByUid(uid) PROVE ReuseWaits
  BY <1>2, <1>9 DEF FindThreadByUid
<1> QED  BY <1>4, <1>5, <1>6, <1>7, <1>8, <1>9 DEF RegistryStep

-------------------------------------------------------------------------------
(* The variables of the registry have their types.                          *)
THEOREM TypeCorrect == RegistrySpec => []RegistryTypeOK
<1>1. IInv => RegistryTypeOK
  BY DEF IInv
<1> QED  BY <1>1, RegistryInvariant, PTL

(* The counters that GetNumberOfThreads() returns are the number of         *)
(* contexts with the status they stand for, whatever was created, ended,    *)
(* joined, detached and reused before.                                      *)
THEOREM CountersAreExact == RegistrySpec => []CountersCount
<1>1. IInv => CountersCount
  BY DEF IInv
<1> QED  BY <1>1, RegistryInvariant, PTL

(* Every context is in the quarantine when it is dead, on the list of       *)
(* contexts to use again when it is invalid and not retired, and on no list *)
(* otherwise: CreateThread() never gives one tid to two threads.            *)
THEOREM NoContextIsLost == RegistrySpec => []EveryContextInPlace
<1>1. IInv => EveryContextInPlace
  BY DEF IInv
<1> QED  BY <1>1, RegistryInvariant, PTL

(* A finished thread is never detached, so a join or a detach releases it.  *)
THEOREM FinishedThreadsAreJoinable == RegistrySpec => []FinishedIsJoinable
<1>1. IInv => FinishedIsJoinable
  BY DEF IInv
<1> QED  BY <1>1, RegistryInvariant, PTL

(* Unique ids stay unique while tids are used again.                        *)
THEOREM UniqueIdsAreUnique == RegistrySpec => []UniqueIdsDiffer
<1>1. IInv => UniqueIdsDiffer
  BY DEF IInv
<1> QED  BY <1>1, RegistryInvariant, PTL

(* A context is used again only when its thread has been in a full          *)
(* quarantine, which is full again when it leaves.                          *)
THEOREM ReuseIsSlow == RegistrySpec => ReuseIsDelayed
<1>1. RegistryNext => RegistryStep
  BY DEF RegistryNext, RegistryStep
<1> QED  BY <1>1, StepWaits, RegistryInvariant, PTL DEF RegistrySpec, ReuseIsDelayed

-------------------------------------------------------------------------------
(* The interceptors (TsanThreads).  The places of a thread's code.          *)
Born     == {"spin", "started"}
Making   == {"creating", "waiting"}
Claiming == {"joining", "joined", "detaching", "detached"}
Ended    == {"finalized", "gone"}

(* Some thread is joining or detaching j; the runtime has done with that.   *)
Claim(j)   == \E a \in Pthreads : pc[a] \in Claiming /\ target[a] = j
Settled(j) == j \in claimed /\ ~Claim(j)

(* The context of a thread is its own from ThreadCreate() on, until it has  *)
(* ended and is joined or detached, in either order.                        *)
Ctx(j) == IF pc[j] = "spin" THEN param[j] ELSE tidOf[j]
Holds(j) ==
  /\ pc[j] # "absent"
  /\ pc[j] = "spin" => param[j] # 0
  /\ pc[j] \in Ended => ~Settled(j)

(* A new thread has one creator, who waits until it has taken its tid.      *)
Makers ==
  /\ \A a, b \in Pthreads : pc[a] \in Making /\ pc[b] \in Making /\ target[a] = target[b] => a = b
  /\ \A a \in Pthreads : pc[a] \in Making => target[a] # a /\ pc[target[a]] # "absent"
  /\ \A a \in Pthreads : pc[a] = "creating" => pc[target[a]] = "spin" /\ param[target[a]] = 0
  /\ \A j \in Pthreads : pc[j] \in Born =>
       \E a \in Pthreads : target[a] = j /\ pc[a] = IF param[j] = 0 THEN "creating" ELSE "waiting"

(* Where the tid is that a thread was given.                                *)
TidsPassed ==
  /\ \A j \in Pthreads : pc[j] \notin Born => param[j] = 0
  /\ \A j \in Pthreads : pc[j] \in {"absent", "spin"} => tidOf[j] = UnknownTid
  /\ \A j \in Pthreads : pc[j] = "started" => param[j] # 0 /\ tidOf[j] = param[j]
  /\ pc[Main] \notin {"absent"} \cup Born \cup Ended

(* A thread is claimed once, by somebody who knows its tid.                 *)
Claims ==
  /\ \A a, b \in Pthreads :
       pc[a] \in Claiming /\ pc[b] \in Claiming /\ target[a] = target[b] => a = b
  /\ \A a \in Pthreads : pc[a] \in Claiming =>
       /\ target[a] \in claimed /\ pc[target[a]] \notin {"absent"} \cup Born
       /\ argTid[a] = tidOf[target[a]]
  /\ \A a \in Pthreads : pc[a] \in {"joining", "joined"} => target[a] # a
  /\ \A a \in Pthreads : pc[a] = "joined" => pc[target[a]] = "gone"
  /\ \A j \in claimed : pc[j] # "absent"

(* What the system knows of a thread: nobody may claim it, or it is         *)
(* detached; a pthread_t that is taken is taken once.                       *)
IsTaken(j) == /\ pc[j] # "absent"
              /\ real[j] = "joinable" \/ (real[j] = "detached" /\ pc[j] # "gone")
Handles ==
  /\ \A j \in Pthreads \ claimed : pc[j] # "absent" => real[j] = "joinable"
  /\ \A a \in Pthreads : pc[a] \in {"joining", "detaching"} => real[target[a]] = "joinable"
  /\ \A a \in Pthreads : pc[a] = "detached" => real[target[a]] = "detached"
  /\ \A j \in Pthreads : Settled(j) /\ pc[j] # "gone" => real[j] = "detached"
  /\ \A j \in Pthreads \ {Main} : pc[j] # "absent" => handle[j] \in UserIds
  /\ \A i, j \in Pthreads : IsTaken(i) /\ IsTaken(j) /\ handle[i] = handle[j] => i = j
  /\ Settled(Main)

(* Whoever holds a context holds it alone, and its status is where the      *)
(* thread is.                                                               *)
StatusOf(j) == IF pc[j] = "spin" THEN "created"
               ELSE IF pc[j] \in Ended THEN "finished" ELSE "running"
Contexts ==
  /\ \A j \in Pthreads : Holds(j) => Ctx(j) \in Tids /\ status[Ctx(j)] = StatusOf(j)
  /\ \A j \in Pthreads : Holds(j) => (detached[Ctx(j)] <=> Settled(j))
  /\ \A j \in Pthreads : Holds(j) => (Ctx(j) = 0 <=> j = Main)
  /\ \A i, j \in Pthreads : Holds(i) /\ Holds(j) /\ Ctx(i) = Ctx(j) => i = j

(* A user id is that of the holder, and is there until it is claimed.       *)
Users ==
  /\ \A j \in Pthreads \ claimed : Holds(j) => userId[Ctx(j)] = handle[j]
  /\ \A t \in Tids : userId[t] # NoUser =>
       \E j \in Pthreads : Holds(j) /\ ~Claim(j) /\ Ctx(j) = t /\ handle[j] = userId[t]

(* What a thread knows, and what it has left in its context.                *)
Clocks ==
  /\ \A k \in Pthreads : pc[k] \in {"started", "run", "waiting", "joining", "detaching", "detached"}
       => knows[k] = hb[k]
  /\ \A k \in Pthreads : pc[k] = "creating" =>
       hb[k] = knows[k] \cup {Creation(target[k])} /\ hb[target[k]] = hb[k]
  /\ \A k \in Pthreads : pc[k] = "joined" => hb[k] = knows[k] \cup hb[target[k]]

Published(j) == Holds(j) /\ pc[j] \in {"spin"} \cup Ended
Syncs ==
  /\ \A j \in Pthreads : Published(j) => sync[Ctx(j)] = hb[j]
  /\ \A t \in Tids : sync[t] # {} => \E j \in Pthreads : Published(j) /\ Ctx(j) = t

ThreadsInv == /\ TypeOK /\ Makers /\ TidsPassed /\ Claims /\ Handles
              /\ Contexts /\ Users /\ Clocks /\ Syncs

-------------------------------------------------------------------------------
LEMMA ThreadsInitially == Init => IInv /\ ThreadsInv
<1> SUFFICES ASSUME Init PROVE IInv /\ ThreadsInv
  OBVIOUS
<1>0. /\ 0 \in Tids /\ Main \in Pthreads /\ Main = 0 /\ UnknownTid \notin Tids
      /\ MaxThreads \in Nat /\ MaxThreads >= 1 /\ QuarantineSize \in Nat
  BY RegistryAssumption, ThreadsAssumption DEF Tids, Pthreads, Main, UnknownTid
<1>1. /\ status = [t \in Tids |-> IF t = 0 THEN "running" ELSE "invalid"]
      /\ nContexts = 1 /\ totalThreads = 1
      /\ aliveThreads = 1 /\ maxAlive = 1 /\ runningThreads = 1
      /\ deadThreads = <<>> /\ invalidThreads = <<>>
      /\ detached = [t \in Tids |-> t = 0] /\ userId = [t \in Tids |-> NoUser]
      /\ uniqueId = [t \in Tids |-> 0] /\ reuseCount = [t \in Tids |-> 0]
  BY DEF Init
<1>2. /\ pc = [k \in Pthreads |-> IF k = Main THEN "run" ELSE "absent"]
      /\ target = [k \in Pthreads |-> k] /\ argTid = [k \in Pthreads |-> UnknownTid]
      /\ param = [k \in Pthreads |-> 0]
      /\ tidOf = [k \in Pthreads |-> IF k = Main THEN 0 ELSE UnknownTid]
      /\ handle = [k \in Pthreads |-> NoUser] /\ real = [k \in Pthreads |-> "detached"]
      /\ claimed = {Main}
      /\ knows = [k \in Pthreads |-> {}] /\ sync = [t \in Tids |-> {}]
      /\ hb = [k \in Pthreads |-> {}]
  BY DEF Init
<1>3. RegistryTypeOK
  <2>1. /\ status \in [Tids -> Statuses] /\ detached \in [Tids -> BOOLEAN]
        /\ userId \in [Tids -> UserIds \cup {NoUser}]
        /\ uniqueId \in [Tids -> Nat] /\ reuseCount \in [Tids -> Nat]
    BY <1>1 DEF Statuses
  <2>2. <<>> \in Seq(Tids)
    OBVIOUS
  <2> QED  BY <1>0, <1>1, <2>1, <2>2 DEF RegistryTypeOK
<1>4. CountersCount
  <2>1. With({"created", "running"}) = {0} /\ With({"running"}) = {0}
    BY <1>0, <1>1 DEF With
  <2>2. Cardinality({0}) = 1
    BY FS_Singleton
  <2>3. Cardinality(With({"created", "running"})) = 1 /\ Cardinality(With({"running"})) = 1
    BY <2>1, <2>2
  <2> QED  BY <1>1, <2>3 DEF CountersCount
<1>5. Allocated = {0}
  BY <1>0, <1>1 DEF Allocated, Tids
<1>6. EveryContextInPlace
  <2>1. Elements(<<>>) = {} /\ NoRepeats(<<>>) /\ Len(<<>>) = 0
    BY DEF Elements, NoRepeats
  <2>2. With({"dead"}) = {}
    BY <1>1 DEF With
  <2>3. \A t \in Tids : status[t] = "invalid" <=> t \notin Allocated
    BY <1>1, <1>5
  <2> QED  BY <1>0, <1>1, <1>5, <2>1, <2>2, <2>3 DEF EveryContextInPlace
<1>7. FinishedIsJoinable /\ UniqueIdsDiffer
  BY <1>0, <1>1, <1>5 DEF FinishedIsJoinable, UniqueIdsDiffer
<1>8. TypeOK
  BY <1>0, <1>2 DEF TypeOK, PCs
<1>9. Makers /\ TidsPassed /\ Claims
  BY <1>0, <1>2 DEF Makers, TidsPassed, Claims, Making, Born, Claiming, Ended
<1>10. \A j \in Pthreads : ~Claim(j) /\ (Settled(j) <=> j = Main) /\ (Holds(j) <=> j = Main)
  BY <1>2 DEF Claim, Settled, Holds, Claiming, Ended
<1>11. Handles
  BY <1>0, <1>2, <1>10 DEF Handles, IsTaken
<1>12. Ctx(Main) = 0 /\ StatusOf(Main) = "running"
  BY <1>0, <1>2 DEF Ctx, StatusOf, Ended
<1>13. Contexts
  BY <1>0, <1>1, <1>10, <1>12 DEF Contexts
<1>14. Users /\ Clocks /\ Syncs
  BY <1>0, <1>1, <1>2, <1>10, <1>12 DEF Users, Clocks, Syncs, Published, Ended
<1> QED  BY <1>3, <1>4, <1>6, <1>7, <1>8, <1>9, <1>11, <1>13, <1>14 DEF IInv, ThreadsInv

-------------------------------------------------------------------------------
(* What a thread's context is for the registry.                             *)
LEMMA HolderHas ==
  ASSUME IInv, ThreadsInv, NEW j \in Pthreads, Holds(j)
  PROVE  Ctx(j) \in Allocated /\ Ctx(j) \in Tids /\ status[Ctx(j)] = StatusOf(j)
<1>1. Ctx(j) \in Tids /\ status[Ctx(j)] = StatusOf(j)
  BY DEF ThreadsInv, Contexts
<1>2. StatusOf(j) # "invalid"
  BY DEF StatusOf
<1> QED  BY <1>1, <1>2 DEF IInv, EveryContextInPlace

(* Whoever joins or detaches has the tid of the thread that is meant, which *)
(* still has its context.                                                   *)
LEMMA ClaimantHas ==
  ASSUME IInv, ThreadsInv, NEW a \in Pthreads, pc[a] \in Claiming
  PROVE  LET j == target[a] IN
         /\ j \in Pthreads /\ j \in claimed /\ Claim(j) /\ ~Settled(j) /\ Holds(j)
         /\ pc[j] \notin {"absent", "spin", "started"}
         /\ Ctx(j) = argTid[a] /\ tidOf[j] = argTid[a]
         /\ argTid[a] \in Allocated /\ argTid[a] \in Tids
         /\ status[argTid[a]] = StatusOf(j) /\ ~detached[argTid[a]]
         /\ argTid[a] # 0
         /\ j # Main
<1> DEFINE j == target[a]
<1>1. j \in Pthreads /\ j \in claimed /\ pc[j] \notin {"absent", "spin", "started"}
      /\ argTid[a] = tidOf[j]
  BY DEF ThreadsInv, TypeOK, Claims, Born
<1>2. Claim(j) /\ ~Settled(j)
  BY DEF Claim, Settled
<1>3. Holds(j) /\ Ctx(j) = tidOf[j]
  BY <1>1, <1>2 DEF Holds, Ctx
<1>4. Ctx(j) \in Allocated /\ Ctx(j) \in Tids /\ status[Ctx(j)] = StatusOf(j)
  BY <1>1, <1>3, HolderHas
<1>5. ~detached[Ctx(j)]
  BY <1>1, <1>2, <1>3 DEF ThreadsInv, Contexts
<1>6. j # Main
  BY <1>2 DEF ThreadsInv, Handles
<1>7. Ctx(j) # 0
  BY <1>1, <1>3, <1>6 DEF ThreadsInv, Contexts
<1> QED  BY <1>1, <1>2, <1>3, <1>4, <1>5, <1>6, <1>7

(* The thread that an unclaimed pthread_t belongs to is the one that        *)
(* ThreadTid() finds, although the value may have been another's before.    *)
LEMMA LookedUp ==
  ASSUME IInv, ThreadsInv, NEW j \in Named \ claimed
  PROVE  /\ j \in Pthreads /\ j # Main /\ handle[j] \in UserIds
         /\ pc[j] \notin {"absent", "spin", "started"}
         /\ Holds(j) /\ Ctx(j) = tidOf[j] /\ tidOf[j] \in Tids
         /\ HasUser(handle[j]) = {tidOf[j]} /\ Found(handle[j]) = tidOf[j]
<1>1. j \in Pthreads /\ pc[j] # "absent" /\ j \notin claimed
  BY DEF Named
<1>2. pc[j] \notin {"spin", "started"}
  BY <1>1 DEF Named, ThreadsInv, Makers, Born
<1>3. Holds(j) /\ Ctx(j) = tidOf[j]
  BY <1>1, <1>2 DEF Holds, Ctx, Settled
<1>4. j # Main
  BY <1>1 DEF ThreadsInv, Handles, Settled
<1>5. handle[j] \in UserIds /\ handle[j] # NoUser /\ IsTaken(j)
  BY <1>1, <1>4, RegistryAssumption DEF ThreadsInv, Handles, IsTaken
<1>6. Ctx(j) \in Allocated /\ Ctx(j) \in Tids /\ status[Ctx(j)] # "invalid"
  BY <1>1, <1>3, HolderHas DEF StatusOf
<1>7. userId[Ctx(j)] = handle[j]
  BY <1>1, <1>3 DEF ThreadsInv, Users
<1>8. ASSUME NEW t \in Allocated, userId[t] = handle[j] PROVE t = Ctx(j)
  <2>1. t \in Tids
    BY DEF Allocated
  <2>2. PICK i \in Pthreads : Holds(i) /\ ~Claim(i) /\ Ctx(i) = t /\ handle[i] = handle[j]
    BY <1>5, <1>8, <2>1 DEF ThreadsInv, Users
  <2>3. pc[i] # "absent"
    BY <2>2 DEF Holds
  <2>4. CASE i \notin claimed
    <3>1. real[i] = "joinable"
      BY <2>3, <2>4 DEF ThreadsInv, Handles
    <3> QED  BY <1>1, <1>5, <2>2, <2>3, <3>1 DEF ThreadsInv, Handles, IsTaken
  <2>5. CASE i \in claimed
    <3>1. Settled(i)
      BY <2>2, <2>5 DEF Settled
    <3>2. pc[i] # "gone"
      BY <2>2, <3>1 DEF Holds, Ended
    <3>3. real[i] = "detached"
      BY <3>1, <3>2 DEF ThreadsInv, Handles
    <3> QED  BY <1>1, <1>5, <2>2, <2>3, <3>2, <3>3 DEF ThreadsInv, Handles, IsTaken
  <2> QED  BY <2>4, <2>5
<1>9. HasUser(handle[j]) = {Ctx(j)}
  BY <1>6, <1>7, <1>8 DEF HasUser
<1>10. Found(handle[j]) = Ctx(j)
  <2>1. Ctx(j) \in Int
    BY <1>6, RegistryAssumption DEF Tids
  <2>2. {Ctx(j)} # {} /\ \A u \in {Ctx(j)} : Ctx(j) <= u
    BY <2>1
  <2> QED  BY <1>9, <2>2 DEF Found
<1> QED  BY <1>1, <1>2, <1>3, <1>4, <1>5, <1>6, <1>9, <1>10

(* The next thread's context is nobody's, and has nobody's clock.           *)
LEMMA NextIsFree ==
  ASSUME IInv, ThreadsInv, invalidThreads # <<>> \/ nContexts < MaxThreads
  PROVE  /\ NextTid \in Tids /\ status[NextTid] = "invalid" /\ NextTid # 0
         /\ sync[NextTid] = {} /\ userId[NextTid] = NoUser
         /\ \A j \in Pthreads : Holds(j) => Ctx(j) # NextTid
<1>1. NextTid \in Tids /\ status[NextTid] = "invalid"
  <2>1. /\ invalidThreads \in Seq(Tids) /\ nContexts \in 0 .. MaxThreads /\ MaxThreads \in Nat
        /\ Elements(invalidThreads) =
             {u \in Allocated : status[u] = "invalid" /\ ~Retired(u, reuseCount[u])}
        /\ NoRepeats(invalidThreads)
        /\ \A u \in Tids \ Allocated : status[u] = "invalid"
    BY RegistryAssumption DEF IInv, RegistryTypeOK, EveryContextInPlace
  <2>2. CASE invalidThreads # <<>>
    <3>1. Head(invalidThreads) \in Tids /\ Head(invalidThreads) \in Elements(invalidThreads)
      BY <2>1, <2>2, Popped
    <3> QED  BY <2>1, <2>2, <3>1 DEF NextTid
  <2>3. CASE invalidThreads = <<>>
    <3>1. NextTid = nContexts /\ nContexts < MaxThreads
      BY <2>3 DEF NextTid
    <3>2. nContexts \in Tids \ Allocated
      BY <2>1, <3>1 DEF Tids, Allocated
    <3> QED  BY <2>1, <3>1, <3>2
  <2> QED  BY <2>2, <2>3
<1>2. \A j \in Pthreads : Holds(j) => status[Ctx(j)] # "invalid"
  BY DEF ThreadsInv, Contexts, StatusOf
<1>3. \A j \in Pthreads : Holds(j) => Ctx(j) # NextTid
  BY <1>1, <1>2
<1>4. sync[NextTid] = {}
  BY <1>1, <1>3 DEF ThreadsInv, Syncs, Published
<1>5. userId[NextTid] = NoUser
  BY <1>1, <1>3 DEF ThreadsInv, Users
<1>6. NextTid # 0
  <2>1. Main \in Pthreads
    BY ThreadsAssumption, RegistryAssumption DEF Main, Pthreads
  <2>2. Holds(Main)
    BY <2>1 DEF ThreadsInv, TidsPassed, Holds, Born
  <2>3. Ctx(Main) = 0
    BY <2>1, <2>2 DEF ThreadsInv, Contexts
  <2> QED  BY <1>3, <2>1, <2>2, <2>3
<1> QED  BY <1>1, <1>3, <1>4, <1>5, <1>6

-------------------------------------------------------------------------------
(* Every interceptor takes a step of the registry at most, on contexts that *)
(* it may do that to: no CHECK fails and no tid is out of range.            *)
LEMMA StepsOfRegistry ==
  IInv /\ ThreadsInv /\ [Next]_vars => [RegistryStep]_registryVars
<1> SUFFICES ASSUME IInv, ThreadsInv, [Next]_vars PROVE RegistryStep \/ UNCHANGED registryVars
  OBVIOUS
<1>0. TypeOK
  BY DEF ThreadsInv
<1>1. CASE UNCHANGED vars
  BY <1>1 DEF vars
<1>2. ASSUME NEW a \in Pthreads, ThreadCreate(a) PROVE RegistryStep
  <2> DEFINE j == target[a]
             d == real[j] = "detached"
  <2>1. CreateThread(handle[j], d) /\ pc[a] = "creating"
    BY <1>2 DEF ThreadCreate, Move
  <2>2. j \in Pthreads /\ pc[j] = "spin"
    BY <1>0, <2>1 DEF ThreadsInv, TypeOK, Makers
  <2>3. handle[j] \in UserIds
    BY <2>2 DEF ThreadsInv, Handles, TidsPassed, Born
  <2>4. d \in BOOLEAN
    OBVIOUS
  <2> HIDE DEF d
  <2> QED  BY <2>1, <2>3, <2>4 DEF RegistryStep
<1>3. ASSUME NEW j \in Pthreads, ThreadStart(j) PROVE RegistryStep
  <2>1. pc[j] = "spin" /\ param[j] # 0 /\ StartThread(param[j])
    BY <1>3 DEF ThreadStart, Move
  <2>2. Holds(j) /\ Ctx(j) = param[j]
    BY <2>1 DEF Holds, Ctx, Ended
  <2>3. param[j] \in Allocated
    BY <2>2, HolderHas
  <2> QED  BY <2>1, <2>3 DEF RegistryStep
<1>4. ASSUME NEW k \in Pthreads, ThreadFinish(k) PROVE RegistryStep
  <2>1. pc[k] = "run" /\ FinishThread(tidOf[k])
    BY <1>4 DEF ThreadFinish, Move
  <2>2. Holds(k) /\ Ctx(k) = tidOf[k]
    BY <2>1 DEF Holds, Ctx, Ended
  <2>3. tidOf[k] \in Allocated
    BY <2>2, HolderHas
  <2> QED  BY <2>1, <2>3 DEF RegistryStep
<1>5. ASSUME NEW a \in Pthreads, NEW j \in Pthreads, NEW next, ThreadTid(a, j, next)
      PROVE  RegistryStep
  <2>1. j \in Named \ claimed /\ FindThreadByUid(handle[j])
    BY <1>5 DEF ThreadTid
  <2>2. handle[j] \in UserIds
    BY <2>1, LookedUp
  <2> QED  BY <2>1, <2>2 DEF RegistryStep
<1>6. ASSUME NEW a \in Pthreads, ThreadJoin(a) PROVE RegistryStep
  <2>1. pc[a] \in Claiming /\ JoinThread(argTid[a])
    BY <1>6 DEF ThreadJoin, Move, Claiming
  <2>2. argTid[a] \in Allocated
    BY <2>1, ClaimantHas
  <2> QED  BY <2>1, <2>2 DEF RegistryStep
<1>7. ASSUME NEW a \in Pthreads, ThreadDetach(a) PROVE RegistryStep
  <2>1. pc[a] \in Claiming /\ DetachThread(argTid[a])
    BY <1>7 DEF ThreadDetach, Move, Claiming
  <2>2. argTid[a] \in Allocated
    BY <2>1, ClaimantHas
  <2> QED  BY <2>1, <2>2 DEF RegistryStep
<1>8. ASSUME NEW k \in Pthreads,
             Handoff(k) \/ CreateReturns(k) \/ Exit(k) \/ RealJoin(k) \/ RealDetach(k)
      PROVE  UNCHANGED registryVars
  BY <1>8 DEF Handoff, CreateReturns, Exit, RealJoin, RealDetach
<1>9. ASSUME NEW a \in Pthreads, NEW j \in Pthreads, NEW h \in UserIds, NEW e \in BOOLEAN,
             Create(a, j, h, e)
      PROVE  UNCHANGED registryVars
  BY <1>9 DEF Create
<1>10. CASE Next
  <2>1. CASE AllEnded
    BY <2>1 DEF AllEnded, vars
  <2>2. ASSUME NEW a \in Pthreads, NEW j \in Pthreads, Join(a, j) \/ Detach(a, j)
        PROVE  RegistryStep
    BY <1>5, <2>2 DEF Join, Detach
  <2>3. ASSUME NEW k \in Pthreads, Runtime(k) \/ ThreadFinish(k)
        PROVE  RegistryStep \/ UNCHANGED registryVars
    BY <1>2, <1>3, <1>4, <1>6, <1>7, <1>8, <2>3 DEF Runtime
  <2> QED  BY <1>9, <1>10, <2>1, <2>2, <2>3 DEF Next
<1> QED  BY <1>1, <1>10

-------------------------------------------------------------------------------
(* A step that leaves every context as it is and with whom it is.           *)
LEMMA ContextsKeep ==
  ASSUME ThreadsInv, UNCHANGED <<registryVars, sync>>, claimed \subseteq claimed',
         \A j \in Pthreads :
           /\ Holds(j)' <=> Holds(j)
           /\ Published(j)' <=> Published(j)
           /\ Holds(j) => /\ Ctx(j)' = Ctx(j) /\ StatusOf(j)' = StatusOf(j)
                          /\ Settled(j)' <=> Settled(j)
                          /\ Claim(j)' <=> Claim(j)
                          /\ handle'[j] = handle[j]
           /\ Published(j) => hb'[j] = hb[j]
  PROVE  Contexts' /\ Users' /\ Syncs'
<1>1. UNCHANGED <<status, detached, userId, sync>>
  BY DEF registryVars, context
<1>2. \A j \in Pthreads : Published(j) => Holds(j)
  BY DEF Published
<1>3. Contexts'
  <2>1. \A j \in Pthreads : Holds(j) => Ctx(j) \in Tids /\ status[Ctx(j)] = StatusOf(j)
    BY DEF ThreadsInv, Contexts
  <2>2. \A j \in Pthreads : Holds(j) => (detached[Ctx(j)] <=> Settled(j))
    BY DEF ThreadsInv, Contexts
  <2>3. \A j \in Pthreads : Holds(j) => (Ctx(j) = 0 <=> j = Main)
    BY DEF ThreadsInv, Contexts
  <2>4. \A i, j \in Pthreads : Holds(i) /\ Holds(j) /\ Ctx(i) = Ctx(j) => i = j
    BY DEF ThreadsInv, Contexts
  <2>5. \A j \in Pthreads : Holds(j)' => Ctx(j)' \in Tids /\ status'[Ctx(j)'] = StatusOf(j)'
    BY <1>1, <2>1
  <2>6. \A j \in Pthreads : Holds(j)' => (detached'[Ctx(j)'] <=> Settled(j)')
    BY <1>1, <2>2
  <2>7. \A j \in Pthreads : Holds(j)' => (Ctx(j)' = 0 <=> j = Main)
    BY <2>3
  <2>8. \A i, j \in Pthreads : Holds(i)' /\ Holds(j)' /\ Ctx(i)' = Ctx(j)' => i = j
    BY <2>4
  <2> QED  BY <2>5, <2>6, <2>7, <2>8 DEF Contexts
<1>4. Users'
  <2>1. \A j \in Pthreads \ claimed' : Holds(j)' => userId'[Ctx(j)'] = handle'[j]
    BY <1>1 DEF ThreadsInv, Users
  <2>2. ASSUME NEW t \in Tids, userId'[t] # NoUser
        PROVE  \E j \in Pthreads : Holds(j)' /\ ~Claim(j)' /\ Ctx(j)' = t /\ handle'[j] = userId'[t]
    <3>1. PICK j \in Pthreads : Holds(j) /\ ~Claim(j) /\ Ctx(j) = t /\ handle[j] = userId[t]
      BY <1>1, <2>2 DEF ThreadsInv, Users
    <3> QED  BY <1>1, <3>1
  <2> QED  BY <2>1, <2>2 DEF Users
<1>5. Syncs'
  <2>1. \A j \in Pthreads : Published(j)' => sync'[Ctx(j)'] = hb'[j]
    BY <1>1, <1>2 DEF ThreadsInv, Syncs
  <2>2. ASSUME NEW t \in Tids, sync'[t] # {}
        PROVE  \E j \in Pthreads : Published(j)' /\ Ctx(j)' = t
    <3>1. PICK j \in Pthreads : Published(j) /\ Ctx(j) = t
      BY <1>1, <2>2 DEF ThreadsInv, Syncs
    <3> QED  BY <1>2, <3>1
  <2> QED  BY <2>1, <2>2 DEF Syncs
<1> QED  BY <1>3, <1>4, <1>5

LEMMA MainIs == Main \in Pthreads /\ 0 \in Tids /\ UnknownTid \notin Tids
BY RegistryAssumption, ThreadsAssumption DEF Main, Pthreads, Tids, UnknownTid

LEMMA CreateKeepsThreads ==
  ASSUME ThreadsInv, NEW a \in Pthreads, NEW j \in Pthreads, NEW h \in UserIds,
         NEW detach \in BOOLEAN, pc[j] = "absent", Create(a, j, h, detach)
  PROVE  ThreadsInv'
<1>0. /\ pc \in [Pthreads -> PCs] /\ target \in [Pthreads -> Pthreads]
      /\ handle \in [Pthreads -> UserIds \cup {NoUser}]
      /\ real \in [Pthreads -> {"joinable", "detached", "joined"}]
      /\ claimed \subseteq Pthreads /\ hb \in [Pthreads -> SUBSET Moments]
  BY DEF ThreadsInv, TypeOK
<1>1. /\ pc[a] = "run" /\ pc[j] = "absent" /\ a # j
      /\ pc' = [pc EXCEPT ![a] = "creating", ![j] = "spin"]
      /\ target' = [target EXCEPT ![a] = j] /\ handle' = [handle EXCEPT ![j] = h]
      /\ real' = [real EXCEPT ![j] = IF detach THEN "detached" ELSE "joinable"]
      /\ claimed' = (IF detach THEN claimed \cup {j} ELSE claimed)
      /\ hb' = [hb EXCEPT ![a] = @ \cup {Creation(j)}, ![j] = hb[a] \cup {Creation(j)}]
      /\ UNCHANGED <<registryVars, argTid, param, tidOf, knows, sync>>
  BY DEF Create
<1>2. /\ pc'[a] = "creating" /\ pc'[j] = "spin" /\ target'[a] = j /\ handle'[j] = h
      /\ real'[j] = (IF detach THEN "detached" ELSE "joinable")
      /\ hb'[a] = hb[a] \cup {Creation(j)} /\ hb'[j] = hb[a] \cup {Creation(j)}
      /\ \A k \in Pthreads \ {a, j} : pc'[k] = pc[k] /\ hb'[k] = hb[k]
      /\ \A k \in Pthreads \ {a} : target'[k] = target[k]
      /\ \A k \in Pthreads \ {j} : handle'[k] = handle[k] /\ real'[k] = real[k]
  BY <1>0, <1>1
<1>3. /\ param[j] = 0 /\ tidOf[j] = UnknownTid /\ j # Main /\ j \notin claimed
  BY <1>1, MainIs DEF ThreadsInv, TidsPassed, Claims, Born
<1>4. \A k \in Pthreads : pc[k] \in Making \cup Claiming => target[k] # j
  BY <1>1 DEF ThreadsInv, Makers, Claims
<1>5. \A k \in Pthreads : Claim(k)' <=> Claim(k)
  BY <1>1, <1>2 DEF Claim, Claiming
<1>6. ~Claim(j)
  BY <1>4 DEF Claim
<1>7. \A k \in Pthreads \ {j} : Settled(k)' <=> Settled(k)
  BY <1>1, <1>5 DEF Settled
<1>8. \A k \in Pthreads :
        /\ Holds(k)' <=> Holds(k)
        /\ Published(k)' <=> Published(k)
        /\ Holds(k) => k # j /\ Ctx(k)' = Ctx(k) /\ StatusOf(k)' = StatusOf(k)
        /\ Published(k) => k # a /\ k # j
  <2> TAKE k \in Pthreads
  <2>1. CASE k = j
    BY <1>1, <1>2, <1>3, <2>1 DEF Holds, Published
  <2>2. CASE k # j
    BY <1>1, <1>2, <1>7, <2>2 DEF Holds, Published, Ctx, StatusOf, Ended
  <2> QED  BY <2>1, <2>2
<1>9. Contexts' /\ Users' /\ Syncs'
  <2>1. \A k \in Pthreads :
          /\ Holds(k) => /\ Settled(k)' <=> Settled(k)
                         /\ handle'[k] = handle[k]
          /\ Published(k) => hb'[k] = hb[k]
    BY <1>2, <1>7, <1>8
  <2>2. claimed \subseteq claimed'
    BY <1>1
  <2> QED  BY <1>1, <1>5, <1>8, <2>1, <2>2, ContextsKeep
<1>10. TypeOK'
  <2>1. Creation(j) \in Moments
    BY DEF Moments
  <2>2. hb' \in [Pthreads -> SUBSET Moments]
    BY <1>0, <1>1, <2>1
  <2>3. pc' \in [Pthreads -> PCs]
    BY <1>0, <1>1 DEF PCs
  <2> QED  BY <1>0, <1>1, <2>2, <2>3 DEF ThreadsInv, TypeOK
<1>11. Makers'
  <2>1. \A k \in Pthreads : pc'[k] \in Making <=> (k = a \/ pc[k] \in Making)
    BY <1>1, <1>2 DEF Making
  <2>2. \A b, c \in Pthreads :
          pc'[b] \in Making /\ pc'[c] \in Making /\ target'[b] = target'[c] => b = c
    BY <1>2, <1>4, <2>1 DEF ThreadsInv, Makers
  <2>3. \A b \in Pthreads : pc'[b] \in Making => target'[b] # b /\ pc'[target'[b]] # "absent"
    BY <1>0, <1>1, <1>2, <2>1 DEF ThreadsInv, Makers
  <2>4. \A b \in Pthreads : pc'[b] = "creating" =>
          pc'[target'[b]] = "spin" /\ param'[target'[b]] = 0
    <3>1. \A b \in Pthreads : pc[b] = "creating" =>
            pc[target[b]] = "spin" /\ param[target[b]] = 0
      BY DEF ThreadsInv, Makers
    <3> QED  BY <1>0, <1>1, <1>2, <1>3, <3>1
  <2>5. ASSUME NEW k \in Pthreads, pc'[k] \in Born
        PROVE  \E b \in Pthreads :
                 target'[b] = k /\ pc'[b] = IF param'[k] = 0 THEN "creating" ELSE "waiting"
    <3>1. CASE k = j
      BY <1>1, <1>2, <1>3, <3>1
    <3>2. CASE k # j
      <4>1. pc[k] \in Born
        BY <1>1, <1>2, <2>5, <3>2 DEF Born
      <4>2. PICK b \in Pthreads :
              target[b] = k /\ pc[b] = IF param[k] = 0 THEN "creating" ELSE "waiting"
        BY <4>1 DEF ThreadsInv, Makers
      <4>3. b # a /\ b # j
        BY <1>1, <4>2
      <4> QED  BY <1>1, <1>2, <4>2, <4>3
    <3> QED  BY <3>1, <3>2
  <2> QED  BY <2>2, <2>3, <2>4, <2>5 DEF Makers
<1>12. TidsPassed'
  BY <1>1, <1>2, <1>3, MainIs DEF ThreadsInv, TidsPassed, Born, Ended
<1>13. Claims'
  <2>1. \A k \in Pthreads : pc'[k] \in Claiming =>
          k # a /\ k # j /\ pc[k] \in Claiming /\ pc'[k] = pc[k] /\ target'[k] = target[k]
    BY <1>2 DEF Claiming
  <2>2. \A b, c \in Pthreads :
          pc'[b] \in Claiming /\ pc'[c] \in Claiming /\ target'[b] = target'[c] => b = c
    BY <2>1 DEF ThreadsInv, Claims
  <2>3. \A b \in Pthreads : pc'[b] \in Claiming =>
          /\ target'[b] \in claimed' /\ pc'[target'[b]] \notin {"absent"} \cup Born
          /\ argTid'[b] = tidOf'[target'[b]]
    BY <1>0, <1>1, <1>2, <1>4, <2>1 DEF ThreadsInv, Claims, Born
  <2>4. \A b \in Pthreads : pc'[b] \in {"joining", "joined"} => target'[b] # b
    BY <2>1 DEF ThreadsInv, Claims, Claiming
  <2>5. \A b \in Pthreads : pc'[b] = "joined" => pc'[target'[b]] = "gone"
    <3>1. \A b \in Pthreads : pc[b] = "joined" => pc[target[b]] = "gone" /\ target[b] \in Pthreads
      BY <1>0 DEF ThreadsInv, Claims
    <3> SUFFICES ASSUME NEW b \in Pthreads, pc'[b] = "joined" PROVE pc'[target'[b]] = "gone"
      OBVIOUS
    <3>2. b # a /\ b # j /\ pc[b] = "joined" /\ target'[b] = target[b]
      BY <1>2
    <3>3. pc[target[b]] = "gone" /\ target[b] \in Pthreads
      BY <3>1, <3>2
    <3>4. target[b] # a /\ target[b] # j
      BY <1>1, <3>3
    <3> QED  BY <1>2, <3>2, <3>3, <3>4
  <2>6. \A k \in claimed' : pc'[k] # "absent"
    BY <1>0, <1>1, <1>2 DEF ThreadsInv, Claims
  <2> QED  BY <2>2, <2>3, <2>4, <2>5, <2>6 DEF Claims
<1>14. Handles'
  <2>1. \A k \in Pthreads \ claimed' : pc'[k] # "absent" => real'[k] = "joinable"
    BY <1>1, <1>2 DEF ThreadsInv, Handles
  <2>2. \A b \in Pthreads : pc'[b] \in {"joining", "detaching"} => real'[target'[b]] = "joinable"
    BY <1>0, <1>2, <1>4 DEF ThreadsInv, Handles, Claiming
  <2>3. \A b \in Pthreads : pc'[b] = "detached" => real'[target'[b]] = "detached"
    BY <1>0, <1>2, <1>4 DEF ThreadsInv, Handles, Claiming
  <2>4. \A k \in Pthreads : Settled(k)' /\ pc'[k] # "gone" => real'[k] = "detached"
    <3>1. Settled(j)' => detach
      BY <1>1, <1>3 DEF Settled
    <3> QED  BY <1>1, <1>2, <1>7, <3>1 DEF ThreadsInv, Handles
  <2>5. \A k \in Pthreads \ {Main} : pc'[k] # "absent" => handle'[k] \in UserIds
    BY <1>1, <1>2 DEF ThreadsInv, Handles
  <2>6. \A i, k \in Pthreads : IsTaken(i)' /\ IsTaken(k)' /\ handle'[i] = handle'[k] => i = k
    <3>1. \A k \in Pthreads \ {j} : IsTaken(k)' <=> IsTaken(k)
      BY <1>1, <1>2 DEF IsTaken
    <3>2. \A k \in Pthreads : IsTaken(k) => handle[k] # h
      BY DEF Create, Taken, IsTaken
    <3> QED  BY <1>2, <3>1, <3>2 DEF ThreadsInv, Handles
  <2>7. Settled(Main)'
    BY <1>3, <1>7, MainIs DEF ThreadsInv, Handles
  <2> QED  BY <2>1, <2>2, <2>3, <2>4, <2>5, <2>6, <2>7 DEF Handles
<1>15. Clocks'
  <2>1. \A k \in Pthreads :
          pc'[k] \in {"started", "run", "waiting", "joining", "detaching", "detached"}
            => knows'[k] = hb'[k]
    BY <1>1, <1>2 DEF ThreadsInv, Clocks
  <2>2. ASSUME NEW k \in Pthreads, pc'[k] = "creating"
        PROVE  hb'[k] = knows'[k] \cup {Creation(target'[k])} /\ hb'[target'[k]] = hb'[k]
    <3>1. CASE k = a
      BY <1>1, <1>2, <3>1 DEF ThreadsInv, Clocks
    <3>2. CASE k # a
      <4>1. k # j /\ pc[k] = "creating"
        BY <1>2, <2>2, <3>2
      <4>2. pc[target[k]] = "spin" /\ target[k] \in Pthreads
        BY <1>0, <4>1 DEF ThreadsInv, Makers
      <4>3. hb[k] = knows[k] \cup {Creation(target[k])} /\ hb[target[k]] = hb[k]
        BY <4>1 DEF ThreadsInv, Clocks
      <4>4. target[k] # a /\ target[k] # j
        BY <1>1, <4>2
      <4>5. /\ hb'[k] = hb[k] /\ target'[k] = target[k] /\ knows' = knows
            /\ hb'[target[k]] = hb[target[k]]
        BY <1>1, <1>2, <3>2, <4>1, <4>2, <4>4
      <4> QED  BY <4>3, <4>5
    <3> QED  BY <3>1, <3>2
  <2>3. ASSUME NEW k \in Pthreads, pc'[k] = "joined"
        PROVE  hb'[k] = knows'[k] \cup hb'[target'[k]]
    <3>1. k # a /\ k # j /\ pc[k] = "joined"
      BY <1>2, <2>3
    <3>2. pc[target[k]] = "gone" /\ target[k] \in Pthreads
      BY <1>0, <3>1 DEF ThreadsInv, Claims
    <3>3. hb[k] = knows[k] \cup hb[target[k]]
      BY <3>1 DEF ThreadsInv, Clocks
    <3>4. target[k] # a /\ target[k] # j
      BY <1>1, <3>2
    <3>5. /\ hb'[k] = hb[k] /\ target'[k] = target[k] /\ knows' = knows
          /\ hb'[target[k]] = hb[target[k]]
      BY <1>1, <1>2, <3>1, <3>2, <3>4
    <3> QED  BY <3>3, <3>5
  <2> QED  BY <2>1, <2>2, <2>3 DEF Clocks
<1> QED  BY <1>9, <1>10, <1>11, <1>12, <1>13, <1>14, <1>15 DEF ThreadsInv

-------------------------------------------------------------------------------
(* All other actions move one thread.  A thread that is neither new nor     *)
(* creating another does not disturb those that are.                        *)
LEMMA MakersKeep ==
  ASSUME ThreadsInv, NEW m \in Pthreads, NEW to \in PCs,
         pc[m] \notin {"absent"} \cup Born \cup Making,
         to \notin {"absent"} \cup Born \cup Making,
         to \in Ended => m # Main,
         pc' = [pc EXCEPT ![m] = to],
         target' \in [Pthreads -> Pthreads],
         \A k \in Pthreads \ {m} : target'[k] = target[k],
         UNCHANGED <<param, tidOf>>
  PROVE  Makers' /\ TidsPassed'
<1>0. pc \in [Pthreads -> PCs] /\ target \in [Pthreads -> Pthreads]
  BY DEF ThreadsInv, TypeOK
<1>1. pc'[m] = to /\ \A k \in Pthreads \ {m} : pc'[k] = pc[k]
  BY <1>0
<1>2. \A k \in Pthreads : pc'[k] \in Making \cup Born \/ pc[k] \in Making \cup Born =>
        k # m /\ pc'[k] = pc[k] /\ target'[k] = target[k]
  BY <1>1
<1>3. \A k \in Pthreads : pc[k] # "absent" => pc'[k] # "absent"
  BY <1>1
<1>4. Makers'
  <2>1. \A a, b \in Pthreads :
          pc'[a] \in Making /\ pc'[b] \in Making /\ target'[a] = target'[b] => a = b
    BY <1>2 DEF ThreadsInv, Makers
  <2>2. \A a \in Pthreads : pc'[a] \in Making => target'[a] # a /\ pc'[target'[a]] # "absent"
    BY <1>0, <1>2, <1>3 DEF ThreadsInv, Makers
  <2>3. \A a \in Pthreads : pc'[a] = "creating" =>
          pc'[target'[a]] = "spin" /\ param'[target'[a]] = 0
    <3> SUFFICES ASSUME NEW a \in Pthreads, pc'[a] = "creating"
                 PROVE  pc'[target'[a]] = "spin" /\ param'[target'[a]] = 0
      OBVIOUS
    <3>1. pc[a] = "creating" /\ target'[a] = target[a]
      BY <1>2 DEF Making
    <3>2. pc[target[a]] = "spin" /\ param[target[a]] = 0
      BY <3>1 DEF ThreadsInv, Makers
    <3>3. pc'[target[a]] = "spin"
      BY <1>0, <1>2, <3>2 DEF Born
    <3> QED  BY <3>1, <3>2, <3>3
  <2>4. ASSUME NEW j \in Pthreads, pc'[j] \in Born
        PROVE  \E a \in Pthreads :
                 target'[a] = j /\ pc'[a] = IF param'[j] = 0 THEN "creating" ELSE "waiting"
    <3>1. PICK a \in Pthreads :
            target[a] = j /\ pc[a] = IF param[j] = 0 THEN "creating" ELSE "waiting"
      BY <1>2, <2>4 DEF ThreadsInv, Makers
    <3>2. pc'[a] = pc[a] /\ target'[a] = target[a]
      BY <1>2, <3>1 DEF Making
    <3> QED  BY <3>1, <3>2
  <2> QED  BY <2>1, <2>2, <2>3, <2>4 DEF Makers
<1>5. TidsPassed'
  <2>1. \A j \in Pthreads : pc'[j] \notin Born => param'[j] = 0
    BY <1>2 DEF ThreadsInv, TidsPassed
  <2>2. \A j \in Pthreads : pc'[j] \in {"absent", "spin"} => tidOf'[j] = UnknownTid
    BY <1>1 DEF ThreadsInv, TidsPassed, Born
  <2>3. \A j \in Pthreads : pc'[j] = "started" => param'[j] # 0 /\ tidOf'[j] = param'[j]
    BY <1>1 DEF ThreadsInv, TidsPassed, Born
  <2>4. pc'[Main] \notin {"absent"} \cup Born \cup Ended
    BY <1>1, MainIs DEF ThreadsInv, TidsPassed
  <2> QED  BY <2>1, <2>2, <2>3, <2>4 DEF TidsPassed
<1> QED  BY <1>4, <1>5

(* Claims are as they were, or one is done.                                 *)
LEMMA ClaimsKeep ==
  ASSUME ThreadsInv, UNCHANGED <<claimed, target, argTid>>,
         \A k \in Pthreads : pc'[k] \in Claiming => pc[k] \in Claiming,
         \A k \in Pthreads : pc'[k] \in {"joining", "joined"} => pc[k] \in {"joining", "joined"},
         \A k \in Pthreads : pc'[k] = "joined" => pc[k] = "joined" \/ pc[target[k]] = "gone",
         \A k \in Pthreads : pc[k] = "gone" => pc'[k] = "gone",
         \A k \in Pthreads : pc[k] # "absent" => pc'[k] # "absent",
         \A k \in Pthreads : pc[k] \notin {"absent"} \cup Born =>
                               pc'[k] \notin {"absent"} \cup Born /\ tidOf'[k] = tidOf[k]
  PROVE  Claims'
<1>0. target \in [Pthreads -> Pthreads] /\ claimed \subseteq Pthreads
  BY DEF ThreadsInv, TypeOK
<1>1. \A a, b \in Pthreads :
        pc'[a] \in Claiming /\ pc'[b] \in Claiming /\ target'[a] = target'[b] => a = b
  BY DEF ThreadsInv, Claims
<1>2. \A a \in Pthreads : pc'[a] \in Claiming =>
        /\ target'[a] \in claimed' /\ pc'[target'[a]] \notin {"absent"} \cup Born
        /\ argTid'[a] = tidOf'[target'[a]]
  BY <1>0 DEF ThreadsInv, Claims
<1>3. \A a \in Pthreads : pc'[a] \in {"joining", "joined"} => target'[a] # a
  BY DEF ThreadsInv, Claims
<1>4. \A a \in Pthreads : pc'[a] = "joined" => pc'[target'[a]] = "gone"
  BY <1>0 DEF ThreadsInv, Claims
<1>5. \A j \in claimed' : pc'[j] # "absent"
  BY <1>0 DEF ThreadsInv, Claims
<1> QED  BY <1>1, <1>2, <1>3, <1>4, <1>5 DEF Claims

(* No call to the system.                                                   *)
LEMMA HandlesKeep ==
  ASSUME ThreadsInv, UNCHANGED <<real, handle, claimed, target>>,
         \A k \in Pthreads : pc'[k] \in {"joining", "detaching", "detached"} => pc'[k] = pc[k],
         \A k \in Pthreads : pc'[k] = "absent" <=> pc[k] = "absent",
         \A k \in Pthreads : pc[k] = "gone" => pc'[k] = "gone",
         \A k \in Pthreads : Settled(k)' =>
                               Settled(k) \/ pc[k] = "gone" \/ real[k] = "detached",
         Settled(Main)'
  PROVE  Handles'
<1>1. \A j \in Pthreads \ claimed' : pc'[j] # "absent" => real'[j] = "joinable"
  BY DEF ThreadsInv, Handles
<1>2. \A a \in Pthreads : pc'[a] \in {"joining", "detaching"} => real'[target'[a]] = "joinable"
  BY DEF ThreadsInv, Handles
<1>3. \A a \in Pthreads : pc'[a] = "detached" => real'[target'[a]] = "detached"
  BY DEF ThreadsInv, Handles
<1>4. \A j \in Pthreads : Settled(j)' /\ pc'[j] # "gone" => real'[j] = "detached"
  BY DEF ThreadsInv, Handles
<1>5. \A j \in Pthreads \ {Main} : pc'[j] # "absent" => handle'[j] \in UserIds
  BY DEF ThreadsInv, Handles
<1>6. \A i, j \in Pthreads : IsTaken(i)' /\ IsTaken(j)' /\ handle'[i] = handle'[j] => i = j
  <2>1. \A j \in Pthreads : IsTaken(j)' => IsTaken(j)
    BY DEF IsTaken
  <2> QED  BY <2>1 DEF ThreadsInv, Handles
<1> QED  BY <1>1, <1>2, <1>3, <1>4, <1>5, <1>6 DEF Handles

(* The clocks of all threads but one are as they were, and those of one     *)
(* that others look at.                                                     *)
LEMMA ClocksKeep ==
  ASSUME ThreadsInv, NEW m \in Pthreads,
         \A k \in Pthreads \ {m} : /\ pc'[k] = pc[k] /\ knows'[k] = knows[k]
                                   /\ hb'[k] = hb[k] /\ target'[k] = target[k],
         pc[m] \in {"spin", "gone"} => hb'[m] = hb[m],
         pc'[m] \in {"started", "run", "waiting", "joining", "detaching", "detached"}
           => knows'[m] = hb'[m],
         pc'[m] # "creating",
         pc'[m] = "joined" => hb'[m] = knows'[m] \cup hb'[target'[m]]
  PROVE  Clocks'
<1>0. target \in [Pthreads -> Pthreads]
  BY DEF ThreadsInv, TypeOK
<1>1. \A k \in Pthreads : pc[k] \in {"spin", "gone"} => hb'[k] = hb[k]
  OBVIOUS
<1>2. \A k \in Pthreads :
        pc'[k] \in {"started", "run", "waiting", "joining", "detaching", "detached"}
          => knows'[k] = hb'[k]
  BY DEF ThreadsInv, Clocks
<1>3. ASSUME NEW k \in Pthreads, pc'[k] = "creating"
      PROVE  hb'[k] = knows'[k] \cup {Creation(target'[k])} /\ hb'[target'[k]] = hb'[k]
  <2>1. pc[k] = "creating" /\ hb'[k] = hb[k] /\ knows'[k] = knows[k] /\ target'[k] = target[k]
    BY <1>3
  <2>2. hb[k] = knows[k] \cup {Creation(target[k])} /\ hb[target[k]] = hb[k]
    BY <2>1 DEF ThreadsInv, Clocks
  <2>3. pc[target[k]] = "spin" /\ target[k] \in Pthreads
    BY <1>0, <2>1 DEF ThreadsInv, Makers
  <2>4. hb'[target[k]] = hb[target[k]]
    BY <1>1, <2>3
  <2> QED  BY <2>1, <2>2, <2>4
<1>4. ASSUME NEW k \in Pthreads, pc'[k] = "joined"
      PROVE  hb'[k] = knows'[k] \cup hb'[target'[k]]
  <2>1. CASE k = m
    BY <1>4, <2>1
  <2>2. CASE k # m
    <3>1. pc[k] = "joined" /\ hb'[k] = hb[k] /\ knows'[k] = knows[k] /\ target'[k] = target[k]
      BY <1>4, <2>2
    <3>2. hb[k] = knows[k] \cup hb[target[k]]
      BY <3>1 DEF ThreadsInv, Clocks
    <3>3. pc[target[k]] = "gone" /\ target[k] \in Pthreads
      BY <1>0, <3>1 DEF ThreadsInv, Claims
    <3>4. hb'[target[k]] = hb[target[k]]
      BY <1>1, <3>3
    <3> QED  BY <3>1, <3>2, <3>4
  <2> QED  BY <2>1, <2>2
<1> QED  BY <1>2, <1>3, <1>4 DEF Clocks

(* A step that changes one context, which is nobody's or that of j, and     *)
(* perhaps a dead one.                                                      *)
LEMMA OneContextKeeps ==
  ASSUME ThreadsInv, NEW j \in Pthreads, NEW t \in Tids,
         claimed \subseteq claimed',
         \A k \in Pthreads \ {j} :
           /\ Holds(k)' <=> Holds(k)
           /\ Published(k)' <=> Published(k)
           /\ Holds(k) => /\ Ctx(k) # t /\ Ctx(k)' = Ctx(k) /\ StatusOf(k)' = StatusOf(k)
                          /\ Settled(k)' <=> Settled(k)
                          /\ Claim(k)' <=> Claim(k)
                          /\ handle'[k] = handle[k]
           /\ Published(k) => hb'[k] = hb[k],
         Holds(j) => Ctx(j) = t,
         \A u \in Tids \ {t} : /\ status'[u] = status[u] \/ status[u] = "dead"
                               /\ detached'[u] = detached[u] /\ userId'[u] = userId[u]
                               /\ sync'[u] = sync[u],
         Holds(j)' => /\ Ctx(j)' = t /\ status'[t] = StatusOf(j)'
                      /\ detached'[t] <=> Settled(j)'
                      /\ t = 0 <=> j = Main
                      /\ j \notin claimed' => userId'[t] = handle'[j],
         userId'[t] # NoUser => Holds(j)' /\ ~Claim(j)' /\ handle'[j] = userId'[t],
         Published(j)' => sync'[t] = hb'[j],
         sync'[t] # {} => Published(j)'
  PROVE  Contexts' /\ Users' /\ Syncs'
<1>1. \A k \in Pthreads : Holds(k) => Ctx(k) \in Tids /\ status[Ctx(k)] = StatusOf(k)
  BY DEF ThreadsInv, Contexts
<1>2. \A k \in Pthreads : StatusOf(k) # "dead"
  BY DEF StatusOf
<1>3. \A k \in Pthreads \ {j} : Holds(k)' =>
        /\ Holds(k) /\ Ctx(k)' = Ctx(k) /\ Ctx(k) \in Tids \ {t}
        /\ status'[Ctx(k)] = status[Ctx(k)] /\ StatusOf(k)' = StatusOf(k)
  BY <1>1, <1>2
<1>4. \A k \in Pthreads : (Published(k) => Holds(k)) /\ (Published(k)' => Holds(k)')
  BY DEF Published
<1>5. Contexts'
  <2>1. \A k \in Pthreads : Holds(k)' => Ctx(k)' \in Tids /\ status'[Ctx(k)'] = StatusOf(k)'
    BY <1>1, <1>3
  <2>2. \A k \in Pthreads : Holds(k)' => (detached'[Ctx(k)'] <=> Settled(k)')
    <3>1. \A k \in Pthreads : Holds(k) => (detached[Ctx(k)] <=> Settled(k))
      BY DEF ThreadsInv, Contexts
    <3>2. \A k \in Pthreads \ {j} : Holds(k)' => (detached'[Ctx(k)'] <=> Settled(k)')
      BY <1>3, <3>1
    <3> QED  BY <3>2
  <2>3. \A k \in Pthreads : Holds(k)' => (Ctx(k)' = 0 <=> k = Main)
    <3>1. \A k \in Pthreads : Holds(k) => (Ctx(k) = 0 <=> k = Main)
      BY DEF ThreadsInv, Contexts
    <3> QED  BY <1>3, <3>1
  <2>4. \A i, k \in Pthreads : Holds(i)' /\ Holds(k)' /\ Ctx(i)' = Ctx(k)' => i = k
    <3>1. \A i, k \in Pthreads : Holds(i) /\ Holds(k) /\ Ctx(i) = Ctx(k) => i = k
      BY DEF ThreadsInv, Contexts
    <3> QED  BY <1>3, <3>1
  <2> QED  BY <2>1, <2>2, <2>3, <2>4 DEF Contexts
<1>6. Users'
  <2>1. \A k \in Pthreads \ claimed' : Holds(k)' => userId'[Ctx(k)'] = handle'[k]
    <3>1. \A k \in Pthreads \ claimed : Holds(k) => userId[Ctx(k)] = handle[k]
      BY DEF ThreadsInv, Users
    <3> QED  BY <1>3, <3>1
  <2>2. ASSUME NEW u \in Tids, userId'[u] # NoUser
        PROVE  \E k \in Pthreads : Holds(k)' /\ ~Claim(k)' /\ Ctx(k)' = u /\ handle'[k] = userId'[u]
    <3>1. CASE u = t
      BY <2>2, <3>1
    <3>2. CASE u # t
      <4>1. PICK k \in Pthreads : Holds(k) /\ ~Claim(k) /\ Ctx(k) = u /\ handle[k] = userId[u]
        BY <2>2, <3>2 DEF ThreadsInv, Users
      <4>2. k # j
        BY <3>2, <4>1
      <4> QED  BY <3>2, <4>1, <4>2
    <3> QED  BY <3>1, <3>2
  <2> QED  BY <2>1, <2>2 DEF Users
<1>7. Syncs'
  <2>1. \A k \in Pthreads : Published(k)' => sync'[Ctx(k)'] = hb'[k]
    <3>1. \A k \in Pthreads : Published(k) => sync[Ctx(k)] = hb[k]
      BY DEF ThreadsInv, Syncs
    <3> QED  BY <1>3, <1>4, <3>1
  <2>2. ASSUME NEW u \in Tids, sync'[u] # {}
        PROVE  \E k \in Pthreads : Published(k)' /\ Ctx(k)' = u
    <3>1. CASE u = t
      BY <1>4, <2>2, <3>1
    <3>2. CASE u # t
      <4>1. PICK k \in Pthreads : Published(k) /\ Ctx(k) = u
        BY <2>2, <3>2 DEF ThreadsInv, Syncs
      <4>2. k # j
        BY <1>4, <3>2, <4>1
      <4> QED  BY <1>4, <3>2, <4>1, <4>2
    <3> QED  BY <3>1, <3>2
  <2> QED  BY <2>1, <2>2 DEF Syncs
<1> QED  BY <1>5, <1>6, <1>7

-------------------------------------------------------------------------------
LEMMA HandoffKeepsThreads ==
  ASSUME ThreadsInv, NEW j \in Pthreads, Handoff(j)
  PROVE  ThreadsInv'
<1>0. /\ pc \in [Pthreads -> PCs] /\ param \in [Pthreads -> Tids]
      /\ target \in [Pthreads -> Pthreads]
  BY DEF ThreadsInv, TypeOK
<1>1. /\ pc[j] = "started" /\ pc' = [pc EXCEPT ![j] = "run"] /\ param' = [param EXCEPT ![j] = 0]
      /\ UNCHANGED <<registryVars, target, argTid, tidOf, handle, real, claimed, knows, sync, hb>>
  BY DEF Handoff, Move, clockVars
<1>2. /\ pc'[j] = "run" /\ param'[j] = 0
      /\ \A k \in Pthreads \ {j} : pc'[k] = pc[k] /\ param'[k] = param[k]
  BY <1>0, <1>1
<1>3. \A k \in Pthreads : Claim(k)' <=> Claim(k)
  BY <1>1, <1>2 DEF Claim, Claiming
<1>4. \A k \in Pthreads : Settled(k)' <=> Settled(k)
  BY <1>1, <1>3 DEF Settled
<1>5. Contexts' /\ Users' /\ Syncs'
  <2>1. \A k \in Pthreads :
          /\ Holds(k)' <=> Holds(k)
          /\ Published(k)' <=> Published(k)
          /\ Ctx(k)' = Ctx(k) /\ StatusOf(k)' = StatusOf(k)
    <3> TAKE k \in Pthreads
    <3>1. CASE k = j
      BY <1>1, <1>2, <3>1 DEF Holds, Published, Ctx, StatusOf, Ended
    <3>2. CASE k # j
      BY <1>1, <1>2, <1>4, <3>2 DEF Holds, Published, Ctx, StatusOf
    <3> QED  BY <3>1, <3>2
  <2> QED  BY <1>1, <1>3, <1>4, <2>1, ContextsKeep
<1>6. TypeOK'
  BY <1>0, <1>1, MainIs DEF ThreadsInv, TypeOK, PCs
<1>7. Makers'
  <2>1. \A k \in Pthreads : pc'[k] \in Making <=> pc[k] \in Making
    BY <1>1, <1>2 DEF Making
  <2>2. \A a, b \in Pthreads :
          pc'[a] \in Making /\ pc'[b] \in Making /\ target'[a] = target'[b] => a = b
    BY <1>1, <2>1 DEF ThreadsInv, Makers
  <2>3. \A a \in Pthreads : pc'[a] \in Making => target'[a] # a /\ pc'[target'[a]] # "absent"
    BY <1>0, <1>1, <1>2, <2>1 DEF ThreadsInv, Makers
  <2>4. \A a \in Pthreads : pc'[a] = "creating" =>
          pc'[target'[a]] = "spin" /\ param'[target'[a]] = 0
    BY <1>0, <1>1, <1>2 DEF ThreadsInv, Makers
  <2>5. ASSUME NEW k \in Pthreads, pc'[k] \in Born
        PROVE  \E a \in Pthreads :
                 target'[a] = k /\ pc'[a] = IF param'[k] = 0 THEN "creating" ELSE "waiting"
    <3>1. k # j /\ pc[k] \in Born /\ param'[k] = param[k]
      BY <1>2, <2>5 DEF Born
    <3>2. PICK a \in Pthreads :
            target[a] = k /\ pc[a] = IF param[k] = 0 THEN "creating" ELSE "waiting"
      BY <3>1 DEF ThreadsInv, Makers
    <3>3. a # j
      BY <1>1, <3>2
    <3> QED  BY <1>1, <1>2, <3>1, <3>2, <3>3
  <2> QED  BY <2>2, <2>3, <2>4, <2>5 DEF Makers
<1>8. TidsPassed'
  BY <1>1, <1>2 DEF ThreadsInv, TidsPassed, Born, Ended
<1>9. Claims'
  BY <1>1, <1>2, ClaimsKeep DEF Claiming, Born
<1>10. Handles'
  <2>1. Settled(Main)'
    BY <1>4, MainIs DEF ThreadsInv, Handles
  <2> QED  BY <1>1, <1>2, <1>4, <2>1, HandlesKeep
<1>11. Clocks'
  <2>1. knows[j] = hb[j]
    BY <1>1 DEF ThreadsInv, Clocks
  <2> QED  BY <1>1, <1>2, <2>1, ClocksKeep
<1> QED  BY <1>5, <1>6, <1>7, <1>8, <1>9, <1>10, <1>11 DEF ThreadsInv

LEMMA CreateReturnsKeepsThreads ==
  ASSUME ThreadsInv, NEW a \in Pthreads, CreateReturns(a)
  PROVE  ThreadsInv'
<1>0. pc \in [Pthreads -> PCs] /\ target \in [Pthreads -> Pthreads]
  BY DEF ThreadsInv, TypeOK
<1>1. /\ pc[a] = "waiting" /\ pc' = [pc EXCEPT ![a] = "run"] /\ param[target[a]] = 0
      /\ UNCHANGED <<registryVars, target, argTid, param, tidOf, handle, real, claimed,
                     knows, sync, hb>>
  BY DEF CreateReturns, Move, clockVars
<1>2. pc'[a] = "run" /\ \A k \in Pthreads \ {a} : pc'[k] = pc[k]
  BY <1>0, <1>1
<1>3. \A k \in Pthreads : Claim(k)' <=> Claim(k)
  BY <1>1, <1>2 DEF Claim, Claiming
<1>4. \A k \in Pthreads : Settled(k)' <=> Settled(k)
  BY <1>1, <1>3 DEF Settled
<1>5. Contexts' /\ Users' /\ Syncs'
  <2>1. \A k \in Pthreads :
          /\ Holds(k)' <=> Holds(k)
          /\ Published(k)' <=> Published(k)
          /\ Ctx(k)' = Ctx(k) /\ StatusOf(k)' = StatusOf(k)
    BY <1>1, <1>2, <1>4 DEF Holds, Published, Ctx, StatusOf, Ended
  <2> QED  BY <1>1, <1>3, <1>4, <2>1, ContextsKeep
<1>6. TypeOK'
  BY <1>0, <1>1 DEF ThreadsInv, TypeOK, PCs
<1>7. Makers'
  <2>1. \A k \in Pthreads : pc'[k] \in Making => k # a /\ pc'[k] = pc[k]
    BY <1>2 DEF Making
  <2>2. \A b, c \in Pthreads :
          pc'[b] \in Making /\ pc'[c] \in Making /\ target'[b] = target'[c] => b = c
    BY <1>1, <2>1 DEF ThreadsInv, Makers
  <2>3. \A b \in Pthreads : pc'[b] \in Making => target'[b] # b /\ pc'[target'[b]] # "absent"
    BY <1>0, <1>1, <1>2, <2>1 DEF ThreadsInv, Makers
  <2>4. \A b \in Pthreads : pc'[b] = "creating" =>
          pc'[target'[b]] = "spin" /\ param'[target'[b]] = 0
    BY <1>0, <1>1, <1>2 DEF ThreadsInv, Makers
  <2>5. ASSUME NEW k \in Pthreads, pc'[k] \in Born
        PROVE  \E b \in Pthreads :
                 target'[b] = k /\ pc'[b] = IF param'[k] = 0 THEN "creating" ELSE "waiting"
    <3>1. k # a /\ pc[k] \in Born
      BY <1>2, <2>5 DEF Born
    <3>2. PICK b \in Pthreads :
            target[b] = k /\ pc[b] = IF param[k] = 0 THEN "creating" ELSE "waiting"
      BY <3>1 DEF ThreadsInv, Makers
    <3>3. b # a
      BY <1>1, <3>2
    <3> QED  BY <1>1, <1>2, <3>2, <3>3
  <2> QED  BY <2>2, <2>3, <2>4, <2>5 DEF Makers
<1>8. TidsPassed'
  BY <1>1, <1>2 DEF ThreadsInv, TidsPassed, Born, Ended
<1>9. Claims'
  BY <1>1, <1>2, ClaimsKeep DEF Claiming, Born
<1>10. Handles'
  <2>1. Settled(Main)'
    BY <1>4, MainIs DEF ThreadsInv, Handles
  <2> QED  BY <1>1, <1>2, <1>4, <2>1, HandlesKeep
<1>11. Clocks'
  <2>1. knows[a] = hb[a]
    BY <1>1 DEF ThreadsInv, Clocks
  <2> QED  BY <1>1, <1>2, <2>1, ClocksKeep
<1> QED  BY <1>5, <1>6, <1>7, <1>8, <1>9, <1>10, <1>11 DEF ThreadsInv

LEMMA ExitKeepsThreads ==
  ASSUME ThreadsInv, NEW m \in Pthreads, Exit(m)
  PROVE  ThreadsInv'
<1>0. pc \in [Pthreads -> PCs] /\ target \in [Pthreads -> Pthreads]
  BY DEF ThreadsInv, TypeOK
<1>1. /\ pc[m] = "finalized" /\ pc' = [pc EXCEPT ![m] = "gone"]
      /\ UNCHANGED <<registryVars, target, argTid, param, tidOf, handle, real, claimed,
                     knows, sync, hb>>
  BY DEF Exit, Move, clockVars
<1>2. pc'[m] = "gone" /\ \A k \in Pthreads \ {m} : pc'[k] = pc[k]
  BY <1>0, <1>1
<1>3. \A k \in Pthreads : Claim(k)' <=> Claim(k)
  BY <1>1, <1>2 DEF Claim, Claiming
<1>4. \A k \in Pthreads : Settled(k)' <=> Settled(k)
  BY <1>1, <1>3 DEF Settled
<1>5. Contexts' /\ Users' /\ Syncs'
  <2>1. \A k \in Pthreads :
          /\ Holds(k)' <=> Holds(k)
          /\ Published(k)' <=> Published(k)
          /\ Ctx(k)' = Ctx(k) /\ StatusOf(k)' = StatusOf(k)
    BY <1>1, <1>2, <1>4 DEF Holds, Published, Ctx, StatusOf, Ended
  <2> QED  BY <1>1, <1>3, <1>4, <2>1, ContextsKeep
<1>6. TypeOK'
  BY <1>0, <1>1 DEF ThreadsInv, TypeOK, PCs
<1>7. Makers' /\ TidsPassed'
  <2>1. m # Main
    BY <1>1 DEF ThreadsInv, TidsPassed, Ended
  <2>2. "gone" \in PCs /\ "gone" \notin {"absent"} \cup Born \cup Making
        /\ pc[m] \notin {"absent"} \cup Born \cup Making
    BY <1>1 DEF PCs, Born, Making
  <2> QED  BY <1>0, <1>1, <2>1, <2>2, MakersKeep
<1>8. Claims'
  BY <1>1, <1>2, ClaimsKeep DEF Claiming, Born
<1>9. Handles'
  <2>1. Settled(Main)'
    BY <1>4, MainIs DEF ThreadsInv, Handles
  <2> QED  BY <1>1, <1>2, <1>4, <2>1, HandlesKeep
<1>10. Clocks'
  BY <1>1, <1>2, ClocksKeep
<1> QED  BY <1>5, <1>6, <1>7, <1>8, <1>9, <1>10 DEF ThreadsInv

(* The system's part of a join or a detach changes what real says of the    *)
(* thread that is claimed.                                                  *)
LEMMA RealHandles ==
  ASSUME ThreadsInv, NEW a \in Pthreads, NEW new \in {"joined", "detached"},
         pc[a] \in {"joining", "detaching"},
         new = "joined" => pc[target[a]] = "gone",
         pc' = [pc EXCEPT ![a] = new], real' = [real EXCEPT ![target[a]] = new],
         UNCHANGED <<handle, claimed, target>>
  PROVE  Handles'
<1> DEFINE j == target[a]
<1>0. /\ pc \in [Pthreads -> PCs] /\ target \in [Pthreads -> Pthreads] /\ j \in Pthreads
      /\ real \in [Pthreads -> {"joinable", "detached", "joined"}]
  BY DEF ThreadsInv, TypeOK
<1>1. /\ pc'[a] = new /\ \A k \in Pthreads \ {a} : pc'[k] = pc[k]
      /\ real'[j] = new /\ \A k \in Pthreads \ {j} : real'[k] = real[k]
  BY <1>0
<1>2. /\ j \in claimed /\ Claim(j) /\ real[j] = "joinable" /\ pc[j] # "absent"
      /\ \A b \in Pthreads \ {a} : pc[b] \in Claiming => target[b] # j
  <2>1. pc[a] \in Claiming
    BY DEF Claiming
  <2> QED  BY <1>0, <2>1 DEF ThreadsInv, Claims, Handles, Claim
<1>3. \A k \in Pthreads : Settled(k)' <=> Settled(k)
  BY <1>0, <1>1 DEF Settled, Claim, Claiming
<1>4. ~Settled(j)
  BY <1>2 DEF Settled
<1> HIDE DEF j
<1>5. \A k \in Pthreads \ claimed' : pc'[k] # "absent" => real'[k] = "joinable"
  BY <1>0, <1>1, <1>2 DEF ThreadsInv, Handles
<1>6. \A b \in Pthreads : pc'[b] \in {"joining", "detaching"} => real'[target'[b]] = "joinable"
  <2>1. \A b \in Pthreads : pc'[b] \in {"joining", "detaching"} =>
          pc[b] \in {"joining", "detaching"} /\ target[b] # j /\ target[b] \in Pthreads
    BY <1>0, <1>1, <1>2 DEF Claiming
  <2> QED  BY <1>1, <2>1 DEF ThreadsInv, Handles
<1>7. \A b \in Pthreads : pc'[b] = "detached" => real'[target'[b]] = "detached"
  <2>1. \A b \in Pthreads \ {a} : pc'[b] = "detached" =>
          pc[b] = "detached" /\ target[b] # j /\ target[b] \in Pthreads
    BY <1>0, <1>1, <1>2 DEF Claiming
  <2>2. \A b \in Pthreads \ {a} : pc'[b] = "detached" => real'[target'[b]] = "detached"
    BY <1>1, <2>1 DEF ThreadsInv, Handles
  <2>3. pc'[a] = "detached" => real'[target'[a]] = "detached"
    BY <1>1 DEF j
  <2> QED  BY <2>2, <2>3
<1>8. \A k \in Pthreads : Settled(k)' /\ pc'[k] # "gone" => real'[k] = "detached"
  BY <1>1, <1>3, <1>4 DEF ThreadsInv, Handles
<1>9. \A k \in Pthreads \ {Main} : pc'[k] # "absent" => handle'[k] \in UserIds
  BY <1>0, <1>1 DEF ThreadsInv, Handles
<1>10. \A i, k \in Pthreads : IsTaken(i)' /\ IsTaken(k)' /\ handle'[i] = handle'[k] => i = k
  <2>1. \A k \in Pthreads : IsTaken(k)' => IsTaken(k)
    BY <1>0, <1>1, <1>2 DEF IsTaken
  <2> QED  BY <2>1 DEF ThreadsInv, Handles
<1>11. Settled(Main)'
  BY <1>3, MainIs DEF ThreadsInv, Handles
<1> QED  BY <1>5, <1>6, <1>7, <1>8, <1>9, <1>10, <1>11 DEF Handles

LEMMA RealJoinKeepsThreads ==
  ASSUME ThreadsInv, NEW a \in Pthreads, RealJoin(a)
  PROVE  ThreadsInv'
<1> DEFINE j == target[a]
<1>0. /\ pc \in [Pthreads -> PCs] /\ target \in [Pthreads -> Pthreads] /\ j \in Pthreads
      /\ real \in [Pthreads -> {"joinable", "detached", "joined"}]
      /\ hb \in [Pthreads -> SUBSET Moments]
  BY DEF ThreadsInv, TypeOK
<1>1. /\ pc[a] = "joining" /\ pc[j] = "gone" /\ pc' = [pc EXCEPT ![a] = "joined"]
      /\ real' = [real EXCEPT ![j] = "joined"] /\ hb' = [hb EXCEPT ![a] = @ \cup hb[j]]
      /\ UNCHANGED <<registryVars, target, argTid, param, tidOf, handle, claimed, knows, sync>>
  BY DEF RealJoin, Move
<1>2. /\ pc'[a] = "joined" /\ hb'[a] = hb[a] \cup hb[j]
      /\ \A k \in Pthreads \ {a} : pc'[k] = pc[k] /\ hb'[k] = hb[k]
  BY <1>0, <1>1
<1>3. \A k \in Pthreads : Claim(k)' <=> Claim(k)
  BY <1>1, <1>2 DEF Claim, Claiming
<1>4. \A k \in Pthreads : Settled(k)' <=> Settled(k)
  BY <1>1, <1>3 DEF Settled
<1>5. Contexts' /\ Users' /\ Syncs'
  <2>1. \A k \in Pthreads :
          /\ Holds(k)' <=> Holds(k)
          /\ Published(k)' <=> Published(k)
          /\ Ctx(k)' = Ctx(k) /\ StatusOf(k)' = StatusOf(k)
          /\ Published(k) => hb'[k] = hb[k]
    BY <1>1, <1>2, <1>4 DEF Holds, Published, Ctx, StatusOf, Ended
  <2> QED  BY <1>1, <1>3, <1>4, <2>1, ContextsKeep
<1>6. TypeOK'
  BY <1>0, <1>1 DEF ThreadsInv, TypeOK, PCs
<1>7. Makers' /\ TidsPassed'
  <2>1. "joined" \in PCs /\ "joined" \notin {"absent"} \cup Born \cup Making \cup Ended
        /\ pc[a] \notin {"absent"} \cup Born \cup Making
    BY <1>1 DEF PCs, Born, Making, Ended
  <2> QED  BY <1>0, <1>1, <2>1, MakersKeep
<1>8. Claims'
  BY <1>1, <1>2, ClaimsKeep DEF Claiming, Born
<1>9. Handles'
  BY <1>1, RealHandles
<1>10. Clocks'
  <2>1. j # a /\ knows[a] = hb[a]
    BY <1>1 DEF ThreadsInv, Clocks
  <2>2. hb'[a] = knows'[a] \cup hb'[target'[a]]
    BY <1>0, <1>1, <1>2, <2>1
  <2> QED  BY <1>1, <1>2, <2>2, ClocksKeep
<1> QED  BY <1>5, <1>6, <1>7, <1>8, <1>9, <1>10 DEF ThreadsInv

LEMMA RealDetachKeepsThreads ==
  ASSUME ThreadsInv, NEW a \in Pthreads, RealDetach(a)
  PROVE  ThreadsInv'
<1>0. /\ pc \in [Pthreads -> PCs] /\ target \in [Pthreads -> Pthreads]
      /\ real \in [Pthreads -> {"joinable", "detached", "joined"}]
  BY DEF ThreadsInv, TypeOK
<1>1. /\ pc[a] = "detaching" /\ pc' = [pc EXCEPT ![a] = "detached"]
      /\ real' = [real EXCEPT ![target[a]] = "detached"]
      /\ UNCHANGED <<registryVars, target, argTid, param, tidOf, handle, claimed,
                     knows, sync, hb>>
  BY DEF RealDetach, Move, clockVars
<1>2. pc'[a] = "detached" /\ \A k \in Pthreads \ {a} : pc'[k] = pc[k]
  BY <1>0, <1>1
<1>3. \A k \in Pthreads : Claim(k)' <=> Claim(k)
  BY <1>1, <1>2 DEF Claim, Claiming
<1>4. \A k \in Pthreads : Settled(k)' <=> Settled(k)
  BY <1>1, <1>3 DEF Settled
<1>5. Contexts' /\ Users' /\ Syncs'
  <2>1. \A k \in Pthreads :
          /\ Holds(k)' <=> Holds(k)
          /\ Published(k)' <=> Published(k)
          /\ Ctx(k)' = Ctx(k) /\ StatusOf(k)' = StatusOf(k)
    BY <1>1, <1>2, <1>4 DEF Holds, Published, Ctx, StatusOf, Ended
  <2> QED  BY <1>1, <1>3, <1>4, <2>1, ContextsKeep
<1>6. TypeOK'
  BY <1>0, <1>1 DEF ThreadsInv, TypeOK, PCs
<1>7. Makers' /\ TidsPassed'
  <2>1. "detached" \in PCs /\ "detached" \notin {"absent"} \cup Born \cup Making \cup Ended
        /\ pc[a] \notin {"absent"} \cup Born \cup Making
    BY <1>1 DEF PCs, Born, Making, Ended
  <2> QED  BY <1>0, <1>1, <2>1, MakersKeep
<1>8. Claims'
  BY <1>1, <1>2, ClaimsKeep DEF Claiming, Born
<1>9. Handles'
  BY <1>1, RealHandles
<1>10. Clocks'
  <2>1. knows[a] = hb[a]
    BY <1>1 DEF ThreadsInv, Clocks
  <2> QED  BY <1>1, <1>2, <2>1, ClocksKeep
<1> QED  BY <1>5, <1>6, <1>7, <1>8, <1>9, <1>10 DEF ThreadsInv

LEMMA ThreadTidKeepsThreads ==
  ASSUME IInv, ThreadsInv, NEW a \in Pthreads, NEW j \in Pthreads,
         NEW next \in {"joining", "detaching"}, next = "joining" => a # j,
         ThreadTid(a, j, next)
  PROVE  ThreadsInv'
<1>0. /\ pc \in [Pthreads -> PCs] /\ target \in [Pthreads -> Pthreads]
      /\ argTid \in [Pthreads -> Tids \cup {UnknownTid}]
      /\ userId \in [Tids -> UserIds \cup {NoUser}] /\ claimed \subseteq Pthreads
  BY DEF IInv, RegistryTypeOK, ThreadsInv, TypeOK
<1>1. /\ j \in Named \ claimed /\ pc[a] = "run" /\ pc' = [pc EXCEPT ![a] = next]
      /\ FindThreadByUid(handle[j])
      /\ argTid' = [argTid EXCEPT ![a] = Found(handle[j])]
      /\ target' = [target EXCEPT ![a] = j] /\ claimed' = claimed \cup {j}
      /\ UNCHANGED <<param, tidOf, handle, real, knows, sync, hb>>
  BY DEF ThreadTid, Move, clockVars
<1> DEFINE t == tidOf[j]
<1>2. /\ j # Main /\ j \notin claimed /\ pc[j] \notin {"absent", "spin", "started"}
      /\ Holds(j) /\ Ctx(j) = t /\ t \in Tids
      /\ HasUser(handle[j]) # {} /\ Found(handle[j]) = t
  BY <1>1, LookedUp
<1>3. /\ userId' = [userId EXCEPT ![t] = NoUser]
      /\ UNCHANGED <<status, detached>>
  BY <1>1, <1>2 DEF FindThreadByUid
<1>4. /\ pc'[a] = next /\ target'[a] = j /\ argTid'[a] = t
      /\ \A k \in Pthreads \ {a} : pc'[k] = pc[k] /\ target'[k] = target[k] /\ argTid'[k] = argTid[k]
      /\ userId'[t] = NoUser /\ \A u \in Tids \ {t} : userId'[u] = userId[u]
  BY <1>0, <1>1, <1>2, <1>3
<1>5. \A b \in Pthreads : pc[b] \in Claiming => b # a /\ target[b] # j
  BY <1>1, <1>2 DEF ThreadsInv, Claims, Claiming
<1>6. Claim(j)' /\ ~Claim(j) /\ \A k \in Pthreads \ {j} : Claim(k)' <=> Claim(k)
  <2>1. \A b \in Pthreads : pc'[b] \in Claiming <=> (b = a \/ pc[b] \in Claiming)
    BY <1>4 DEF Claiming
  <2> QED  BY <1>4, <1>5, <2>1 DEF Claim
<1>7. \A k \in Pthreads : Settled(k)' <=> Settled(k)
  BY <1>1, <1>2, <1>6 DEF Settled
<1>8. \A k \in Pthreads :
        /\ Holds(k)' <=> Holds(k)
        /\ Published(k)' <=> Published(k)
        /\ Ctx(k)' = Ctx(k) /\ StatusOf(k)' = StatusOf(k)
  BY <1>1, <1>4, <1>7 DEF Holds, Published, Ctx, StatusOf, Ended
<1>9. Contexts' /\ Users' /\ Syncs'
  <2>1. \A k \in Pthreads \ {j} : Holds(k) => Ctx(k) # t
    BY <1>2 DEF ThreadsInv, Contexts
  <2>2. /\ status[t] = StatusOf(j) /\ (detached[t] <=> Settled(j)) /\ (t = 0 <=> j = Main)
    BY <1>2 DEF ThreadsInv, Contexts
  <2>3. /\ Published(j) => sync[t] = hb[j]
        /\ sync[t] # {} => Published(j)
    <3>1. \A k \in Pthreads : Published(k) => Holds(k)
      BY DEF Published
    <3>2. Published(j) => sync[t] = hb[j]
      BY <1>2 DEF ThreadsInv, Syncs
    <3>3. sync[t] # {} => Published(j)
      BY <1>2, <2>1, <3>1 DEF ThreadsInv, Syncs
    <3> QED  BY <3>2, <3>3
  <2> QED  BY <1>1, <1>2, <1>3, <1>4, <1>6, <1>7, <1>8, <2>1, <2>2, <2>3, OneContextKeeps
<1>10. TypeOK'
  BY <1>0, <1>1, <1>2 DEF ThreadsInv, TypeOK, PCs
<1>11. Makers' /\ TidsPassed'
  <2>1. next \in PCs /\ next \notin {"absent"} \cup Born \cup Making \cup Ended
        /\ pc[a] \notin {"absent"} \cup Born \cup Making
    BY <1>1 DEF PCs, Born, Making, Ended
  <2>2. target' \in [Pthreads -> Pthreads]
    BY <1>0, <1>1
  <2> QED  BY <1>1, <1>4, <2>1, <2>2, MakersKeep
<1>12. Claims'
  <2>1. \A b \in Pthreads : pc'[b] \in Claiming =>
          b = a \/ (pc[b] \in Claiming /\ target'[b] = target[b] /\ target[b] # j)
    BY <1>4, <1>5
  <2>2. \A b, c \in Pthreads :
          pc'[b] \in Claiming /\ pc'[c] \in Claiming /\ target'[b] = target'[c] => b = c
    BY <1>4, <2>1 DEF ThreadsInv, Claims
  <2>3. \A k \in Pthreads : pc[k] \notin {"absent"} \cup Born => pc'[k] \notin {"absent"} \cup Born
    BY <1>4 DEF Born
  <2>4. \A b \in Pthreads : pc'[b] \in Claiming =>
          /\ target'[b] \in claimed' /\ pc'[target'[b]] \notin {"absent"} \cup Born
          /\ argTid'[b] = tidOf'[target'[b]]
    <3> SUFFICES ASSUME NEW b \in Pthreads, pc'[b] \in Claiming
                 PROVE  /\ target'[b] \in claimed' /\ pc'[target'[b]] \notin {"absent"} \cup Born
                        /\ argTid'[b] = tidOf'[target'[b]]
      OBVIOUS
    <3>1. CASE b = a
      <4>1. pc[j] \notin {"absent"} \cup Born
        BY <1>2 DEF Born
      <4> QED  BY <1>1, <1>4, <2>3, <3>1, <4>1
    <3>2. CASE b # a
      BY <1>0, <1>1, <1>4, <2>1, <2>3, <3>2 DEF ThreadsInv, Claims
    <3> QED  BY <3>1, <3>2
  <2>5. \A b \in Pthreads : pc'[b] \in {"joining", "joined"} => target'[b] # b
    BY <1>4 DEF ThreadsInv, Claims
  <2>6. \A b \in Pthreads : pc'[b] = "joined" => pc'[target'[b]] = "gone"
    <3> SUFFICES ASSUME NEW b \in Pthreads, pc'[b] = "joined" PROVE pc'[target'[b]] = "gone"
      OBVIOUS
    <3>1. b # a /\ pc[b] = "joined" /\ target'[b] = target[b]
      BY <1>4
    <3>2. pc[target[b]] = "gone" /\ target[b] \in Pthreads
      BY <1>0, <3>1 DEF ThreadsInv, Claims
    <3>3. pc'[target[b]] = "gone"
      BY <1>1, <1>4, <3>2
    <3> QED  BY <3>1, <3>3
  <2>7. \A k \in claimed' : pc'[k] # "absent"
    BY <1>0, <1>1, <1>2, <1>4 DEF ThreadsInv, Claims
  <2> QED  BY <2>2, <2>4, <2>5, <2>6, <2>7 DEF Claims
<1>13. Handles'
  <2>1. real[j] = "joinable"
    BY <1>2 DEF ThreadsInv, Handles
  <2>2. \A k \in Pthreads \ claimed' : pc'[k] # "absent" => real'[k] = "joinable"
    BY <1>1, <1>4 DEF ThreadsInv, Handles
  <2>3. \A b \in Pthreads : pc'[b] \in {"joining", "detaching"} => real'[target'[b]] = "joinable"
    BY <1>1, <1>4, <2>1 DEF ThreadsInv, Handles
  <2>4. \A b \in Pthreads : pc'[b] = "detached" => real'[target'[b]] = "detached"
    BY <1>1, <1>4 DEF ThreadsInv, Handles
  <2>5. \A k \in Pthreads : Settled(k)' /\ pc'[k] # "gone" => real'[k] = "detached"
    BY <1>1, <1>4, <1>7 DEF ThreadsInv, Handles
  <2>6. \A k \in Pthreads \ {Main} : pc'[k] # "absent" => handle'[k] \in UserIds
    BY <1>1, <1>4 DEF ThreadsInv, Handles
  <2>7. \A i, k \in Pthreads : IsTaken(i)' /\ IsTaken(k)' /\ handle'[i] = handle'[k] => i = k
    <3>1. \A k \in Pthreads : IsTaken(k)' => IsTaken(k)
      BY <1>1, <1>4 DEF IsTaken
    <3> QED  BY <1>1, <3>1 DEF ThreadsInv, Handles
  <2>8. Settled(Main)'
    BY <1>7, MainIs DEF ThreadsInv, Handles
  <2> QED  BY <2>2, <2>3, <2>4, <2>5, <2>6, <2>7, <2>8 DEF Handles
<1>14. Clocks'
  <2>1. knows[a] = hb[a]
    BY <1>1 DEF ThreadsInv, Clocks
  <2>2. \A k \in Pthreads \ {a} : /\ pc'[k] = pc[k] /\ knows'[k] = knows[k]
                                  /\ hb'[k] = hb[k] /\ target'[k] = target[k]
    BY <1>1, <1>4
  <2> QED  BY <1>1, <1>4, <2>1, <2>2, ClocksKeep
<1> QED  BY <1>9, <1>10, <1>11, <1>12, <1>13, <1>14 DEF ThreadsInv

LEMMA ThreadCreateKeepsThreads ==
  ASSUME IInv, ThreadsInv, NEW a \in Pthreads, ThreadCreate(a)
  PROVE  ThreadsInv'
<1>p. target[a] \in Pthreads
  BY DEF ThreadsInv, TypeOK
<1>q. PICK j \in Pthreads : j = target[a]
  BY <1>p
<1>r. PICK t : t = NextTid
  OBVIOUS
<1>0. /\ pc \in [Pthreads -> PCs] /\ target \in [Pthreads -> Pthreads]
      /\ param \in [Pthreads -> Tids] /\ knows \in [Pthreads -> SUBSET Moments]
      /\ sync \in [Tids -> SUBSET Moments]
      /\ status \in [Tids -> Statuses] /\ detached \in [Tids -> BOOLEAN]
      /\ userId \in [Tids -> UserIds \cup {NoUser}]
  BY DEF IInv, RegistryTypeOK, ThreadsInv, TypeOK
<1>1. /\ pc[a] = "creating" /\ pc' = [pc EXCEPT ![a] = "waiting"]
      /\ CreateThread(handle[j], real[j] = "detached")
      /\ knows' = [knows EXCEPT ![a] = @ \cup {Creation(j)}]
      /\ sync' = [sync EXCEPT ![t] = @ \cup knows'[a]]
      /\ param' = [param EXCEPT ![j] = t]
      /\ UNCHANGED <<target, argTid, tidOf, handle, real, claimed, hb>>
  BY <1>q, <1>r DEF ThreadCreate, Move
<1>2. /\ t \in Tids /\ t # 0 /\ sync[t] = {}
      /\ \A k \in Pthreads : Holds(k) => Ctx(k) # t
  <2>1. invalidThreads # <<>> \/ nContexts < MaxThreads
    BY <1>1 DEF CreateThread
  <2> QED  BY <1>r, <2>1, NextIsFree
<1>3. /\ status' = [status EXCEPT ![t] = "created"]
      /\ detached' = [detached EXCEPT ![t] = (real[j] = "detached")]
      /\ userId' = [userId EXCEPT ![t] = handle[j]]
  BY <1>1, <1>r DEF CreateThread
<1>4. /\ a # j /\ pc[j] = "spin" /\ param[j] = 0
      /\ hb[a] = knows[a] \cup {Creation(j)} /\ hb[j] = hb[a]
  BY <1>1, <1>q DEF ThreadsInv, Makers, Clocks
<1>5. /\ pc'[a] = "waiting" /\ param'[j] = t /\ knows'[a] = hb[a] /\ sync'[t] = hb[j]
      /\ \A k \in Pthreads \ {a} : pc'[k] = pc[k] /\ knows'[k] = knows[k]
      /\ \A k \in Pthreads \ {j} : param'[k] = param[k]
      /\ \A u \in Tids \ {t} : sync'[u] = sync[u]
  <2>1. knows'[a] = hb[a]
    BY <1>0, <1>1, <1>4
  <2>2. sync'[t] = sync[t] \cup knows'[a]
    BY <1>0, <1>1, <1>2
  <2>3. sync'[t] = hb[j]
    BY <1>2, <1>4, <2>1, <2>2
  <2> QED  BY <1>0, <1>1, <1>2, <2>1, <2>3
<1>6. /\ status'[t] = "created" /\ (detached'[t] <=> real[j] = "detached")
      /\ userId'[t] = handle[j]
      /\ \A u \in Tids \ {t} : /\ status'[u] = status[u] /\ detached'[u] = detached[u]
                               /\ userId'[u] = userId[u]
  BY <1>0, <1>2, <1>3
<1>7. \A k \in Pthreads : Claim(k)' <=> Claim(k)
  BY <1>1, <1>5 DEF Claim, Claiming
<1>8. \A k \in Pthreads : Settled(k)' <=> Settled(k)
  BY <1>1, <1>7 DEF Settled
<1>9. /\ ~Holds(j) /\ Holds(j)' /\ Published(j)' /\ Ctx(j)' = t /\ StatusOf(j)' = "created"
      /\ ~Claim(j) /\ j # Main /\ (real[j] = "detached" <=> Settled(j))
  <2>1. ~Holds(j) /\ Holds(j)' /\ Published(j)' /\ Ctx(j)' = t /\ StatusOf(j)' = "created"
    BY <1>2, <1>4, <1>5 DEF Holds, Published, Ctx, StatusOf, Ended
  <2>2. ~Claim(j)
    BY <1>4 DEF ThreadsInv, Claims, Claim, Born
  <2>3. j # Main
    BY <1>4 DEF ThreadsInv, TidsPassed, Born
  <2>4. real[j] = "detached" <=> Settled(j)
    BY <1>4, <2>2 DEF ThreadsInv, Handles, Settled
  <2> QED  BY <2>1, <2>2, <2>3, <2>4
<1>10. \A k \in Pthreads \ {j} :
         /\ Holds(k)' <=> Holds(k)
         /\ Published(k)' <=> Published(k)
         /\ Ctx(k)' = Ctx(k) /\ StatusOf(k)' = StatusOf(k)
  BY <1>1, <1>5, <1>8 DEF Holds, Published, Ctx, StatusOf, Ended
<1>11. Contexts' /\ Users' /\ Syncs'
  <2>1. detached'[t] <=> Settled(j)'
    BY <1>6, <1>8, <1>9
  <2>2. ~Claim(j)'
    BY <1>7, <1>9
  <2>3. \A k \in Pthreads \ {j} :
          /\ Holds(k)' <=> Holds(k)
          /\ Published(k)' <=> Published(k)
          /\ Holds(k) => /\ Ctx(k) # t /\ Ctx(k)' = Ctx(k) /\ StatusOf(k)' = StatusOf(k)
                         /\ Settled(k)' <=> Settled(k)
                         /\ Claim(k)' <=> Claim(k)
                         /\ handle'[k] = handle[k]
          /\ Published(k) => hb'[k] = hb[k]
    BY <1>1, <1>2, <1>7, <1>8, <1>10
  <2>4. \A u \in Tids \ {t} : /\ status'[u] = status[u] \/ status[u] = "dead"
                              /\ detached'[u] = detached[u] /\ userId'[u] = userId[u]
                              /\ sync'[u] = sync[u]
    BY <1>5, <1>6
  <2>5. /\ Ctx(j)' = t /\ status'[t] = StatusOf(j)' /\ (t = 0 <=> j = Main)
        /\ userId'[t] = handle'[j] /\ sync'[t] = hb'[j] /\ claimed \subseteq claimed'
    BY <1>1, <1>2, <1>5, <1>6, <1>9
  <2> QED  BY <1>2, <1>9, <2>1, <2>2, <2>3, <2>4, <2>5, OneContextKeeps
<1>12. TypeOK'
  <2>1. Creation(j) \in Moments
    BY <1>0 DEF Moments
  <2>2. knows' \in [Pthreads -> SUBSET Moments]
    BY <1>0, <1>1, <2>1
  <2>3. sync' \in [Tids -> SUBSET Moments]
    BY <1>0, <1>1, <2>2
  <2>4. pc' \in [Pthreads -> PCs] /\ param' \in [Pthreads -> Tids]
    BY <1>0, <1>1, <1>2 DEF PCs
  <2> QED  BY <1>1, <2>2, <2>3, <2>4 DEF ThreadsInv, TypeOK
<1>13. Makers'
  <2>1. \A b, c \in Pthreads :
          pc'[b] \in Making /\ pc'[c] \in Making /\ target'[b] = target'[c] => b = c
    BY <1>1, <1>5 DEF ThreadsInv, Makers, Making
  <2>2. \A b \in Pthreads : pc'[b] \in Making => target'[b] # b /\ pc'[target'[b]] # "absent"
    BY <1>0, <1>1, <1>5 DEF ThreadsInv, Makers, Making
  <2>3. \A b \in Pthreads : pc'[b] = "creating" =>
          pc'[target'[b]] = "spin" /\ param'[target'[b]] = 0
    <3> SUFFICES ASSUME NEW b \in Pthreads, pc'[b] = "creating"
                 PROVE  pc'[target'[b]] = "spin" /\ param'[target'[b]] = 0
      OBVIOUS
    <3>1. b # a /\ pc[b] = "creating" /\ target'[b] = target[b]
      BY <1>1, <1>5
    <3>2. target[b] # j
      BY <1>1, <1>q, <3>1 DEF ThreadsInv, Makers, Making
    <3>3. pc[target[b]] = "spin" /\ param[target[b]] = 0 /\ target[b] \in Pthreads
      BY <1>0, <3>1 DEF ThreadsInv, Makers
    <3> QED  BY <1>1, <1>5, <3>1, <3>2, <3>3
  <2>4. ASSUME NEW k \in Pthreads, pc'[k] \in Born
        PROVE  \E b \in Pthreads :
                 target'[b] = k /\ pc'[b] = IF param'[k] = 0 THEN "creating" ELSE "waiting"
    <3>1. CASE k = j
      <4>1. target'[a] = k /\ pc'[a] = "waiting" /\ param'[k] # 0
        BY <1>1, <1>2, <1>5, <1>q, <3>1
      <4> QED  BY <4>1
    <3>2. CASE k # j
      <4>1. pc[k] \in Born /\ param'[k] = param[k]
        BY <1>1, <1>5, <2>4, <3>2 DEF Born
      <4>2. PICK b \in Pthreads :
              target[b] = k /\ pc[b] = IF param[k] = 0 THEN "creating" ELSE "waiting"
        BY <4>1 DEF ThreadsInv, Makers
      <4>3. b # a
        BY <1>q, <3>2, <4>2
      <4> QED  BY <1>1, <1>5, <4>1, <4>2, <4>3
    <3> QED  BY <3>1, <3>2
  <2> QED  BY <2>1, <2>2, <2>3, <2>4 DEF Makers
<1>14. TidsPassed'
  <2>1. \A k \in Pthreads : pc'[k] \notin Born => param'[k] = 0
    BY <1>1, <1>4, <1>5 DEF ThreadsInv, TidsPassed, Born
  <2>2. \A k \in Pthreads : pc'[k] \in {"absent", "spin"} => tidOf'[k] = UnknownTid
    BY <1>1, <1>5 DEF ThreadsInv, TidsPassed
  <2>3. \A k \in Pthreads : pc'[k] = "started" => param'[k] # 0 /\ tidOf'[k] = param'[k]
    BY <1>1, <1>4, <1>5 DEF ThreadsInv, TidsPassed
  <2>4. pc'[Main] \notin {"absent"} \cup Born \cup Ended
    BY <1>1, <1>5, MainIs DEF ThreadsInv, TidsPassed, Born, Ended
  <2> QED  BY <2>1, <2>2, <2>3, <2>4 DEF TidsPassed
<1>15. Claims'
  BY <1>1, <1>5, ClaimsKeep DEF Claiming, Born
<1>16. Handles'
  <2>1. Settled(Main)'
    BY <1>8, MainIs DEF ThreadsInv, Handles
  <2> QED  BY <1>1, <1>5, <1>8, <2>1, HandlesKeep
<1>17. Clocks'
  BY <1>1, <1>5, ClocksKeep
<1> QED  BY <1>11, <1>12, <1>13, <1>14, <1>15, <1>16, <1>17 DEF ThreadsInv

LEMMA ThreadStartKeepsThreads ==
  ASSUME IInv, ThreadsInv, NEW j \in Pthreads, ThreadStart(j)
  PROVE  ThreadsInv'
<1> DEFINE t == param[j]
<1>0. /\ pc \in [Pthreads -> PCs] /\ target \in [Pthreads -> Pthreads]
      /\ param \in [Pthreads -> Tids] /\ knows \in [Pthreads -> SUBSET Moments]
      /\ tidOf \in [Pthreads -> Tids \cup {UnknownTid}]
      /\ sync \in [Tids -> SUBSET Moments] /\ t \in Tids
      /\ status \in [Tids -> Statuses]
  BY DEF IInv, RegistryTypeOK, ThreadsInv, TypeOK
<1>1. /\ t # 0 /\ pc[j] = "spin" /\ pc' = [pc EXCEPT ![j] = "started"]
      /\ status' = [status EXCEPT ![t] = "running"] /\ UNCHANGED <<detached, userId>>
      /\ tidOf' = [tidOf EXCEPT ![j] = t]
      /\ knows' = [knows EXCEPT ![j] = sync[t]]
      /\ sync' = [sync EXCEPT ![t] = {}]
      /\ UNCHANGED <<target, argTid, param, handle, real, claimed, hb>>
  BY DEF ThreadStart, StartThread, Move
<1>2. /\ pc'[j] = "started" /\ tidOf'[j] = t /\ knows'[j] = sync[t] /\ sync'[t] = {}
      /\ status'[t] = "running"
      /\ \A k \in Pthreads \ {j} : pc'[k] = pc[k] /\ tidOf'[k] = tidOf[k] /\ knows'[k] = knows[k]
      /\ \A u \in Tids \ {t} : sync'[u] = sync[u] /\ status'[u] = status[u]
  BY <1>0, <1>1
<1>3. /\ Holds(j) /\ Ctx(j) = t /\ Published(j)
      /\ Holds(j)' /\ Ctx(j)' = t /\ ~Published(j)' /\ StatusOf(j)' = "running"
  BY <1>1, <1>2 DEF Holds, Ctx, Published, StatusOf, Ended
<1>4. \A k \in Pthreads : Claim(k)' <=> Claim(k)
  BY <1>1, <1>2 DEF Claim, Claiming
<1>5. \A k \in Pthreads : Settled(k)' <=> Settled(k)
  BY <1>1, <1>4 DEF Settled
<1>6. \A k \in Pthreads \ {j} :
        /\ Holds(k)' <=> Holds(k)
        /\ Published(k)' <=> Published(k)
        /\ Ctx(k)' = Ctx(k) /\ StatusOf(k)' = StatusOf(k)
  BY <1>1, <1>2, <1>5 DEF Holds, Published, Ctx, StatusOf, Ended
<1>7. sync[t] = hb[j]
  BY <1>3 DEF ThreadsInv, Syncs
<1>8. Contexts' /\ Users' /\ Syncs'
  <2>1. \A k \in Pthreads \ {j} : Holds(k) => Ctx(k) # t
    BY <1>3 DEF ThreadsInv, Contexts
  <2>2. (detached[t] <=> Settled(j)) /\ (t = 0 <=> j = Main)
    BY <1>3 DEF ThreadsInv, Contexts
  <2>3. j \notin claimed => userId[t] = handle[j]
    BY <1>3 DEF ThreadsInv, Users
  <2>4. userId[t] # NoUser => ~Claim(j) /\ handle[j] = userId[t]
    BY <1>0, <1>3, <2>1 DEF ThreadsInv, Users
  <2> QED  BY <1>0, <1>1, <1>2, <1>3, <1>4, <1>5, <1>6, <2>1, <2>2, <2>3, <2>4, OneContextKeeps
<1>9. TypeOK'
  BY <1>0, <1>1 DEF ThreadsInv, TypeOK, PCs
<1>10. Makers'
  <2>1. \A k \in Pthreads : /\ pc'[k] \in Making <=> pc[k] \in Making
                            /\ pc'[k] \in Born <=> pc[k] \in Born
    BY <1>1, <1>2 DEF Making, Born
  <2>2. \A a, b \in Pthreads :
          pc'[a] \in Making /\ pc'[b] \in Making /\ target'[a] = target'[b] => a = b
    BY <1>1, <2>1 DEF ThreadsInv, Makers
  <2>3. \A a \in Pthreads : pc'[a] \in Making => target'[a] # a /\ pc'[target'[a]] # "absent"
    BY <1>0, <1>1, <1>2, <2>1 DEF ThreadsInv, Makers
  <2>4. \A a \in Pthreads : pc'[a] = "creating" =>
          pc'[target'[a]] = "spin" /\ param'[target'[a]] = 0
    <3> SUFFICES ASSUME NEW a \in Pthreads, pc'[a] = "creating"
                 PROVE  pc'[target'[a]] = "spin" /\ param'[target'[a]] = 0
      OBVIOUS
    <3>1. pc[a] = "creating"
      BY <1>2
    <3>2. pc[target[a]] = "spin" /\ param[target[a]] = 0 /\ target[a] \in Pthreads
      BY <1>0, <3>1 DEF ThreadsInv, Makers
    <3>3. target[a] # j
      BY <1>1, <3>2
    <3> QED  BY <1>1, <1>2, <3>2, <3>3
  <2>5. ASSUME NEW k \in Pthreads, pc'[k] \in Born
        PROVE  \E a \in Pthreads :
                 target'[a] = k /\ pc'[a] = IF param'[k] = 0 THEN "creating" ELSE "waiting"
    <3>1. PICK a \in Pthreads :
            target[a] = k /\ pc[a] = IF param[k] = 0 THEN "creating" ELSE "waiting"
      BY <2>1, <2>5 DEF ThreadsInv, Makers
    <3>2. a # j
      BY <1>1, <3>1
    <3> QED  BY <1>1, <1>2, <3>1, <3>2
  <2> QED  BY <2>2, <2>3, <2>4, <2>5 DEF Makers
<1>11. TidsPassed'
  <2>1. \A k \in Pthreads : pc'[k] \notin Born => param'[k] = 0
    BY <1>1, <1>2 DEF ThreadsInv, TidsPassed, Born
  <2>2. \A k \in Pthreads : pc'[k] \in {"absent", "spin"} => tidOf'[k] = UnknownTid
    BY <1>1, <1>2 DEF ThreadsInv, TidsPassed
  <2>3. \A k \in Pthreads : pc'[k] = "started" => param'[k] # 0 /\ tidOf'[k] = param'[k]
    BY <1>1, <1>2 DEF ThreadsInv, TidsPassed
  <2>4. pc'[Main] \notin {"absent"} \cup Born \cup Ended
    BY <1>1, <1>2, MainIs DEF ThreadsInv, TidsPassed, Born
  <2> QED  BY <2>1, <2>2, <2>3, <2>4 DEF TidsPassed
<1>12. Claims'
  BY <1>1, <1>2, ClaimsKeep DEF Claiming, Born
<1>13. Handles'
  <2>1. Settled(Main)'
    BY <1>5, MainIs DEF ThreadsInv, Handles
  <2> QED  BY <1>1, <1>2, <1>5, <2>1, HandlesKeep
<1>14. Clocks'
  BY <1>1, <1>2, <1>7, ClocksKeep
<1> QED  BY <1>8, <1>9, <1>10, <1>11, <1>12, <1>13, <1>14 DEF ThreadsInv

LEMMA DeathTells ==
  ASSUME IInv, NEW t \in Allocated, status[t] \notin {"invalid", "dead"},
         Die(t), UNCHANGED nContexts
  PROVE  /\ userId'[t] = NoUser
         /\ \A u \in Tids \ {t} : /\ status'[u] = status[u] \/ status[u] = "dead"
                                  /\ userId'[u] = userId[u]
<1>1. /\ RegistryTypeOK /\ EveryContextInPlace /\ t \in Tids
      /\ userId \in [Tids -> UserIds \cup {NoUser}]
  BY DEF IInv, RegistryTypeOK, Allocated
<1>2. \A u \in Tids \ {t} : status'[u] = status[u] \/ status[u] = "dead"
  BY <1>1, DeathInPlace
<1>3. userId' = [userId EXCEPT ![t] = NoUser]
  BY DEF Die
<1> QED  BY <1>1, <1>2, <1>3

LEMMA ThreadFinishKeepsThreads ==
  ASSUME IInv, ThreadsInv, NEW m \in Pthreads, ThreadFinish(m)
  PROVE  ThreadsInv'
<1>p. PICK t : t = tidOf[m]
  OBVIOUS
<1>0. /\ pc \in [Pthreads -> PCs] /\ target \in [Pthreads -> Pthreads]
      /\ knows \in [Pthreads -> SUBSET Moments] /\ hb \in [Pthreads -> SUBSET Moments]
      /\ sync \in [Tids -> SUBSET Moments]
      /\ status \in [Tids -> Statuses] /\ userId \in [Tids -> UserIds \cup {NoUser}]
      /\ End(m) \in Moments
  BY DEF IInv, RegistryTypeOK, ThreadsInv, TypeOK, Moments
<1>1. /\ m # Main /\ pc[m] = "run" /\ pc' = [pc EXCEPT ![m] = "finalized"]
      /\ FinishThread(t) /\ hb' = [hb EXCEPT ![m] = @ \cup {End(m)}]
      /\ IF detached[t] THEN UNCHANGED <<knows, sync>>
         ELSE /\ knows' = [knows EXCEPT ![m] = @ \cup {End(m)}]
              /\ sync' = [sync EXCEPT ![t] = @ \cup knows'[m]]
      /\ UNCHANGED <<target, argTid, param, tidOf, handle, real, claimed>>
  BY <1>p DEF ThreadFinish, Move
<1>2. /\ pc'[m] = "finalized" /\ hb'[m] = hb[m] \cup {End(m)}
      /\ \A k \in Pthreads \ {m} : pc'[k] = pc[k] /\ hb'[k] = hb[k]
  BY <1>0, <1>1
<1>3. \A k \in Pthreads : Claim(k)' <=> Claim(k)
  BY <1>1, <1>2 DEF Claim, Claiming
<1>4. \A k \in Pthreads : Settled(k)' <=> Settled(k)
  BY <1>1, <1>3 DEF Settled
<1>5. /\ Holds(m) /\ Ctx(m) = t /\ ~Published(m) /\ StatusOf(m) = "running"
      /\ Holds(m)' <=> ~Settled(m)
      /\ Published(m)' <=> ~Settled(m)
      /\ Ctx(m)' = t /\ StatusOf(m)' = "finished"
  BY <1>p, <1>1, <1>2, <1>4 DEF Holds, Ctx, Published, StatusOf, Ended
<1>6. \A k \in Pthreads \ {m} :
        /\ Holds(k)' <=> Holds(k)
        /\ Published(k)' <=> Published(k)
        /\ Ctx(k)' = Ctx(k) /\ StatusOf(k)' = StatusOf(k)
  BY <1>1, <1>2, <1>4 DEF Holds, Published, Ctx, StatusOf, Ended
<1>7. t \in Allocated /\ t \in Tids /\ status[t] = "running"
  BY <1>5, HolderHas
<1>8. /\ \A k \in Pthreads \ {m} : Holds(k) => Ctx(k) # t
      /\ (detached[t] <=> Settled(m)) /\ (t = 0 <=> m = Main)
      /\ m \notin claimed => userId[t] = handle[m]
  BY <1>5 DEF ThreadsInv, Contexts, Users
<1>9. userId[t] # NoUser => ~Claim(m) /\ handle[m] = userId[t]
  BY <1>7, <1>8 DEF ThreadsInv, Users
<1>10. sync[t] = {} /\ knows[m] = hb[m]
  <2>1. \A k \in Pthreads : Published(k) => Holds(k)
    BY DEF Published
  <2> QED  BY <1>1, <1>5, <1>7, <1>8, <2>1 DEF ThreadsInv, Syncs, Clocks
<1>11. \A k \in Pthreads \ {m} :
         /\ Holds(k)' <=> Holds(k)
         /\ Published(k)' <=> Published(k)
         /\ Holds(k) => /\ Ctx(k) # t /\ Ctx(k)' = Ctx(k) /\ StatusOf(k)' = StatusOf(k)
                        /\ Settled(k)' <=> Settled(k)
                        /\ Claim(k)' <=> Claim(k)
                        /\ handle'[k] = handle[k]
         /\ Published(k) => hb'[k] = hb[k]
  BY <1>1, <1>2, <1>3, <1>4, <1>6, <1>8
<1>12. detached' = detached /\ nContexts' = nContexts /\ claimed \subseteq claimed'
  BY <1>1 DEF FinishThread
<1>13. ASSUME detached[t]
       PROVE  /\ Contexts' /\ Users' /\ Syncs'
              /\ knows' \in [Pthreads -> SUBSET Moments] /\ sync' \in [Tids -> SUBSET Moments]
              /\ \A k \in Pthreads \ {m} : knows'[k] = knows[k]
  <2>1. Die(t) /\ UNCHANGED <<knows, sync>>
    BY <1>1, <1>13 DEF FinishThread
  <2>2. /\ userId'[t] = NoUser
        /\ \A u \in Tids \ {t} : /\ status'[u] = status[u] \/ status[u] = "dead"
                                 /\ userId'[u] = userId[u]
    BY <1>7, <1>12, <2>1, DeathTells
  <2>3. ~Holds(m)' /\ ~Published(m)'
    BY <1>5, <1>8, <1>13
  <2>4. \A u \in Tids \ {t} : /\ status'[u] = status[u] \/ status[u] = "dead"
                              /\ detached'[u] = detached[u] /\ userId'[u] = userId[u]
                              /\ sync'[u] = sync[u]
    BY <1>12, <2>1, <2>2
  <2>5. sync'[t] = {}
    BY <1>10, <2>1
  <2>6. Contexts' /\ Users' /\ Syncs'
    BY <1>5, <1>7, <1>11, <1>12, <2>2, <2>3, <2>4, <2>5, OneContextKeeps
  <2>7. knows' \in [Pthreads -> SUBSET Moments] /\ sync' \in [Tids -> SUBSET Moments]
    BY <1>0, <2>1
  <2>8. \A k \in Pthreads \ {m} : knows'[k] = knows[k]
    BY <2>1
  <2> QED  BY <2>6, <2>7, <2>8
<1>14. ASSUME ~detached[t]
       PROVE  /\ Contexts' /\ Users' /\ Syncs'
              /\ knows' \in [Pthreads -> SUBSET Moments] /\ sync' \in [Tids -> SUBSET Moments]
              /\ \A k \in Pthreads \ {m} : knows'[k] = knows[k]
  <2>1. /\ status' = [status EXCEPT ![t] = "finished"] /\ UNCHANGED userId
        /\ knows' = [knows EXCEPT ![m] = @ \cup {End(m)}]
        /\ sync' = [sync EXCEPT ![t] = @ \cup knows'[m]]
    BY <1>1, <1>14 DEF FinishThread
  <2>2. ~Settled(m) /\ ~Settled(m)' /\ Holds(m)' /\ Published(m)'
    BY <1>4, <1>5, <1>8, <1>14
  <2>3. /\ status'[t] = "finished"
        /\ \A u \in Tids \ {t} : /\ status'[u] = status[u] \/ status[u] = "dead"
                                 /\ detached'[u] = detached[u] /\ userId'[u] = userId[u]
                                 /\ sync'[u] = sync[u]
    BY <1>0, <1>7, <1>12, <2>1
  <2>4. knows'[m] = hb'[m] /\ \A k \in Pthreads \ {m} : knows'[k] = knows[k]
    BY <1>0, <1>2, <1>10, <2>1
  <2>5. sync'[t] = hb'[m]
    <3>1. sync'[t] = sync[t] \cup knows'[m]
      BY <1>0, <1>7, <2>1
    <3> QED  BY <1>10, <2>4, <3>1
  <2>6. /\ userId'[t] = userId[t] /\ handle'[m] = handle[m] /\ claimed' = claimed
        /\ detached'[t] <=> Settled(m)'
        /\ ~Claim(m)' <=> ~Claim(m)
    BY <1>1, <1>3, <1>12, <1>14, <2>1, <2>2
  <2>7. /\ Ctx(m)' = t /\ status'[t] = StatusOf(m)' /\ (t = 0 <=> m = Main)
        /\ m \notin claimed' => userId'[t] = handle'[m]
        /\ userId'[t] # NoUser => ~Claim(m)' /\ handle'[m] = userId'[t]
    BY <1>5, <1>8, <1>9, <2>3, <2>6
  <2>8. Contexts' /\ Users' /\ Syncs'
    BY <1>5, <1>7, <1>11, <1>12, <2>2, <2>3, <2>5, <2>6, <2>7, OneContextKeeps
  <2>9. knows' \in [Pthreads -> SUBSET Moments]
    BY <1>0, <2>1
  <2>10. sync' \in [Tids -> SUBSET Moments]
    BY <1>0, <2>1, <2>9
  <2> QED  BY <2>4, <2>8, <2>9, <2>10
<1>15. /\ Contexts' /\ Users' /\ Syncs'
       /\ knows' \in [Pthreads -> SUBSET Moments] /\ sync' \in [Tids -> SUBSET Moments]
       /\ \A k \in Pthreads \ {m} : knows'[k] = knows[k]
  BY <1>13, <1>14
<1>16. TypeOK'
  <2>1. pc' \in [Pthreads -> PCs] /\ hb' \in [Pthreads -> SUBSET Moments]
    BY <1>0, <1>1 DEF PCs
  <2> QED  BY <1>1, <1>15, <2>1 DEF ThreadsInv, TypeOK
<1>17. Makers' /\ TidsPassed'
  <2>1. "finalized" \in PCs /\ "finalized" \notin {"absent"} \cup Born \cup Making
        /\ pc[m] \notin {"absent"} \cup Born \cup Making
    BY <1>1 DEF PCs, Born, Making
  <2> QED  BY <1>0, <1>1, <2>1, MakersKeep
<1>18. Claims'
  BY <1>1, <1>2, ClaimsKeep DEF Claiming, Born
<1>19. Handles'
  <2>1. Settled(Main)'
    BY <1>4, MainIs DEF ThreadsInv, Handles
  <2> QED  BY <1>1, <1>2, <1>4, <2>1, HandlesKeep
<1>20. Clocks'
  BY <1>1, <1>2, <1>15, ClocksKeep
<1> QED  BY <1>15, <1>16, <1>17, <1>18, <1>19, <1>20 DEF ThreadsInv

(* The last step of a join or a detach: the thread is claimed no more.      *)
LEMMA ClaimEnds ==
  ASSUME ThreadsInv, NEW a \in Pthreads, NEW j \in Pthreads, j = target[a],
         pc[a] \in {"joined", "detached"}, pc' = [pc EXCEPT ![a] = "run"],
         UNCHANGED <<target, param, tidOf, claimed>>
  PROVE  /\ pc'[a] = "run" /\ \A k \in Pthreads \ {a} : pc'[k] = pc[k]
         /\ ~Claim(j)' /\ Settled(j)'
         /\ \A k \in Pthreads \ {j} : /\ Claim(k)' <=> Claim(k)
                                      /\ Settled(k)' <=> Settled(k)
         /\ \A k \in Pthreads \ {j} : /\ Holds(k)' <=> Holds(k)
                                      /\ Published(k)' <=> Published(k)
         /\ \A k \in Pthreads : Ctx(k)' = Ctx(k) /\ StatusOf(k)' = StatusOf(k)
<1>1. pc \in [Pthreads -> PCs]
  BY DEF ThreadsInv, TypeOK
<1>2. pc'[a] = "run" /\ \A k \in Pthreads \ {a} : pc'[k] = pc[k]
  BY <1>1
<1>3. /\ j \in claimed
      /\ \A b \in Pthreads : pc[b] \in Claiming /\ target[b] = j => b = a
  BY DEF ThreadsInv, Claims, Claiming
<1>4. ~Claim(j)' /\ \A k \in Pthreads \ {j} : Claim(k)' <=> Claim(k)
  <2>1. \A b \in Pthreads : pc'[b] \in Claiming <=> (b # a /\ pc[b] \in Claiming)
    BY <1>2 DEF Claiming
  <2> QED  BY <1>3, <2>1 DEF Claim
<1>5. Settled(j)' /\ \A k \in Pthreads \ {j} : Settled(k)' <=> Settled(k)
  BY <1>3, <1>4 DEF Settled
<1>6. \A k \in Pthreads \ {j} : /\ Holds(k)' <=> Holds(k)
                                /\ Published(k)' <=> Published(k)
  BY <1>2, <1>5 DEF Holds, Published, Ended
<1>7. \A k \in Pthreads : Ctx(k)' = Ctx(k) /\ StatusOf(k)' = StatusOf(k)
  BY <1>2 DEF Ctx, StatusOf, Ended
<1> QED  BY <1>2, <1>4, <1>5, <1>6, <1>7

LEMMA ThreadJoinKeepsThreads ==
  ASSUME IInv, ThreadsInv, NEW a \in Pthreads, ThreadJoin(a)
  PROVE  ThreadsInv'
<1>p. PICK t : t = argTid[a]
  OBVIOUS
<1>0. /\ pc \in [Pthreads -> PCs] /\ target \in [Pthreads -> Pthreads]
      /\ knows \in [Pthreads -> SUBSET Moments] /\ sync \in [Tids -> SUBSET Moments]
  BY DEF ThreadsInv, TypeOK
<1>q. PICK j \in Pthreads : j = target[a]
  BY <1>0
<1>1. /\ pc[a] = "joined" /\ pc' = [pc EXCEPT ![a] = "run"] /\ JoinThread(t)
      /\ IF status[t] = "invalid" THEN UNCHANGED <<knows, sync>>
         ELSE /\ knows' = [knows EXCEPT ![a] = @ \cup sync[t]]
              /\ sync' = [sync EXCEPT ![t] = {}]
      /\ UNCHANGED <<target, argTid, param, tidOf, handle, real, claimed, hb>>
  BY <1>p DEF ThreadJoin, Move
<1>2. /\ j \in claimed /\ Holds(j) /\ Ctx(j) = t /\ t \in Allocated /\ t \in Tids
      /\ status[t] = StatusOf(j) /\ t # 0 /\ j # Main
  BY <1>p, <1>q, <1>1, ClaimantHas DEF Claiming
<1>3. pc[j] = "gone" /\ a # j /\ hb[a] = knows[a] \cup hb[j]
  BY <1>q, <1>1 DEF ThreadsInv, Claims, Clocks
<1>4. status[t] = "finished" /\ Published(j)
  BY <1>2, <1>3 DEF StatusOf, Published, Ended
<1>5. /\ Die(t) /\ detached' = detached /\ nContexts' = nContexts
      /\ knows' = [knows EXCEPT ![a] = @ \cup sync[t]] /\ sync' = [sync EXCEPT ![t] = {}]
  BY <1>1, <1>4 DEF JoinThread, counters
<1>6. /\ userId'[t] = NoUser
      /\ \A u \in Tids \ {t} : /\ status'[u] = status[u] \/ status[u] = "dead"
                               /\ userId'[u] = userId[u]
  BY <1>2, <1>4, <1>5, DeathTells
<1>7. /\ pc'[a] = "run" /\ \A k \in Pthreads \ {a} : pc'[k] = pc[k]
      /\ ~Claim(j)' /\ Settled(j)'
      /\ \A k \in Pthreads \ {j} : /\ Claim(k)' <=> Claim(k)
                                   /\ Settled(k)' <=> Settled(k)
      /\ \A k \in Pthreads \ {j} : /\ Holds(k)' <=> Holds(k)
                                   /\ Published(k)' <=> Published(k)
      /\ \A k \in Pthreads : Ctx(k)' = Ctx(k) /\ StatusOf(k)' = StatusOf(k)
  BY <1>q, <1>1, ClaimEnds
<1>8. ~Holds(j)' /\ ~Published(j)'
  BY <1>3, <1>7 DEF Holds, Published, Ended
<1>9. sync[t] = hb[j]
  BY <1>2, <1>4 DEF ThreadsInv, Syncs
<1>10. /\ knows'[a] = hb[a] /\ \A k \in Pthreads \ {a} : knows'[k] = knows[k]
       /\ sync'[t] = {} /\ \A u \in Tids \ {t} : sync'[u] = sync[u]
  BY <1>0, <1>2, <1>3, <1>5, <1>9
<1>11. Contexts' /\ Users' /\ Syncs'
  <2>1. \A k \in Pthreads \ {j} :
          /\ Holds(k)' <=> Holds(k)
          /\ Published(k)' <=> Published(k)
          /\ Holds(k) => /\ Ctx(k) # t /\ Ctx(k)' = Ctx(k) /\ StatusOf(k)' = StatusOf(k)
                         /\ Settled(k)' <=> Settled(k)
                         /\ Claim(k)' <=> Claim(k)
                         /\ handle'[k] = handle[k]
          /\ Published(k) => hb'[k] = hb[k]
    <3>1. \A k \in Pthreads \ {j} : Holds(k) => Ctx(k) # t
      BY <1>2 DEF ThreadsInv, Contexts
    <3> QED  BY <1>1, <1>7, <3>1
  <2>2. \A u \in Tids \ {t} : /\ status'[u] = status[u] \/ status[u] = "dead"
                              /\ detached'[u] = detached[u] /\ userId'[u] = userId[u]
                              /\ sync'[u] = sync[u]
    BY <1>5, <1>6, <1>10
  <2>3. claimed \subseteq claimed'
    BY <1>1
  <2> QED  BY <1>2, <1>6, <1>8, <1>10, <2>1, <2>2, <2>3, OneContextKeeps
<1>12. TypeOK'
  <2>1. knows' \in [Pthreads -> SUBSET Moments] /\ sync' \in [Tids -> SUBSET Moments]
    BY <1>0, <1>2, <1>5
  <2>2. pc' \in [Pthreads -> PCs]
    BY <1>0, <1>1 DEF PCs
  <2> QED  BY <1>1, <2>1, <2>2 DEF ThreadsInv, TypeOK
<1>13. Makers' /\ TidsPassed'
  <2>1. "run" \in PCs /\ "run" \notin {"absent"} \cup Born \cup Making \cup Ended
        /\ pc[a] \notin {"absent"} \cup Born \cup Making
    BY <1>1 DEF PCs, Born, Making, Ended
  <2> QED  BY <1>0, <1>1, <2>1, MakersKeep
<1>14. Claims'
  BY <1>1, <1>7, ClaimsKeep DEF Claiming, Born
<1>15. Handles'
  <2>1. Settled(Main)'
    BY <1>2, <1>7, MainIs DEF ThreadsInv, Handles
  <2> QED  BY <1>1, <1>3, <1>7, <2>1, HandlesKeep
<1>16. Clocks'
  BY <1>1, <1>7, <1>10, ClocksKeep
<1> QED  BY <1>11, <1>12, <1>13, <1>14, <1>15, <1>16 DEF ThreadsInv

LEMMA ThreadDetachKeepsThreads ==
  ASSUME IInv, ThreadsInv, NEW a \in Pthreads, ThreadDetach(a)
  PROVE  ThreadsInv'
<1>p. PICK t : t = argTid[a]
  OBVIOUS
<1>0. /\ pc \in [Pthreads -> PCs] /\ target \in [Pthreads -> Pthreads]
      /\ sync \in [Tids -> SUBSET Moments] /\ detached \in [Tids -> BOOLEAN]
  BY DEF IInv, RegistryTypeOK, ThreadsInv, TypeOK
<1>q. PICK j \in Pthreads : j = target[a]
  BY <1>0
<1>1. /\ pc[a] = "detached" /\ pc' = [pc EXCEPT ![a] = "run"] /\ DetachThread(t)
      /\ sync' = (IF status[t] = "invalid" THEN sync ELSE [sync EXCEPT ![t] = {}])
      /\ UNCHANGED <<target, argTid, param, tidOf, handle, real, claimed, knows, hb>>
  BY <1>p DEF ThreadDetach, Move
<1>2. /\ j \in claimed /\ Holds(j) /\ Ctx(j) = t /\ t \in Allocated /\ t \in Tids
      /\ status[t] = StatusOf(j) /\ t # 0 /\ j # Main
      /\ pc[j] \notin {"absent", "spin", "started"} /\ ~Settled(j)
  BY <1>p, <1>q, <1>1, ClaimantHas DEF Claiming
<1>3. real[j] = "detached"
  BY <1>q, <1>1 DEF ThreadsInv, Handles
<1>4. /\ pc'[a] = "run" /\ \A k \in Pthreads \ {a} : pc'[k] = pc[k]
      /\ ~Claim(j)' /\ Settled(j)'
      /\ \A k \in Pthreads \ {j} : /\ Claim(k)' <=> Claim(k)
                                   /\ Settled(k)' <=> Settled(k)
      /\ \A k \in Pthreads \ {j} : /\ Holds(k)' <=> Holds(k)
                                   /\ Published(k)' <=> Published(k)
      /\ \A k \in Pthreads : Ctx(k)' = Ctx(k) /\ StatusOf(k)' = StatusOf(k)
  BY <1>q, <1>1, ClaimEnds
<1>5. \A k \in Pthreads \ {j} : Holds(k) => Ctx(k) # t
  BY <1>2 DEF ThreadsInv, Contexts
<1>6. /\ status[t] \in {"running", "finished"} /\ (status[t] = "finished" <=> pc[j] \in Ended)
      /\ sync' = [sync EXCEPT ![t] = {}]
  BY <1>1, <1>2 DEF StatusOf
<1>7. sync'[t] = {} /\ \A u \in Tids \ {t} : sync'[u] = sync[u]
  BY <1>0, <1>2, <1>6
<1>8. pc'[j] \notin {"absent", "spin"} /\ ~Published(j)'
  <2>1. pc'[j] \notin {"absent", "spin"}
    BY <1>2, <1>4
  <2> QED  BY <1>4, <2>1 DEF Published, Holds, Ended
<1>9. \A k \in Pthreads \ {j} :
        /\ Holds(k)' <=> Holds(k)
        /\ Published(k)' <=> Published(k)
        /\ Holds(k) => /\ Ctx(k) # t /\ Ctx(k)' = Ctx(k) /\ StatusOf(k)' = StatusOf(k)
                       /\ Settled(k)' <=> Settled(k)
                       /\ Claim(k)' <=> Claim(k)
                       /\ handle'[k] = handle[k]
        /\ Published(k) => hb'[k] = hb[k]
  BY <1>1, <1>4, <1>5
<1>10. claimed \subseteq claimed'
  BY <1>1
<1>11. Contexts' /\ Users' /\ Syncs'
  <2>1. CASE status[t] = "finished"
    <3>1. Die(t) /\ detached' = detached /\ nContexts' = nContexts
      BY <1>1, <2>1 DEF DetachThread, counters
    <3>2. /\ userId'[t] = NoUser
          /\ \A u \in Tids \ {t} : /\ status'[u] = status[u] \/ status[u] = "dead"
                                   /\ userId'[u] = userId[u]
      BY <1>2, <2>1, <3>1, DeathTells
    <3>3. ~Holds(j)'
      <4>1. pc[j] \in Ended /\ pc'[j] = pc[j]
        BY <1>1, <1>4, <1>6, <2>1 DEF Ended
      <4> QED  BY <1>4, <4>1 DEF Holds
    <3>4. \A u \in Tids \ {t} : /\ status'[u] = status[u] \/ status[u] = "dead"
                                /\ detached'[u] = detached[u] /\ userId'[u] = userId[u]
                                /\ sync'[u] = sync[u]
      BY <1>7, <3>1, <3>2
    <3> QED  BY <1>2, <1>7, <1>8, <1>9, <1>10, <3>2, <3>3, <3>4, OneContextKeeps
  <2>2. CASE status[t] = "running"
    <3>1. /\ detached' = [detached EXCEPT ![t] = TRUE]
          /\ UNCHANGED <<status, userId>>
      BY <1>1, <2>2 DEF DetachThread
    <3>2. /\ detached'[t] = TRUE
          /\ \A u \in Tids \ {t} : /\ status'[u] = status[u] \/ status[u] = "dead"
                                   /\ detached'[u] = detached[u] /\ userId'[u] = userId[u]
                                   /\ sync'[u] = sync[u]
      BY <1>0, <1>2, <1>7, <3>1
    <3>3. userId'[t] = NoUser
      <4>1. Claim(j)
        BY <1>2 DEF Settled
      <4> QED  BY <1>2, <1>5, <3>1, <4>1 DEF ThreadsInv, Users
    <3>4. Ctx(j)' = t /\ status'[t] = StatusOf(j)' /\ (t = 0 <=> j = Main) /\ j \in claimed'
      BY <1>1, <1>2, <1>4, <3>1
    <3>5. detached'[t] <=> Settled(j)'
      BY <1>4, <3>2
    <3> QED  BY <1>2, <1>7, <1>8, <1>9, <1>10, <3>2, <3>3, <3>4, <3>5, OneContextKeeps
  <2> QED  BY <1>6, <2>1, <2>2
<1>12. TypeOK'
  <2>1. sync' \in [Tids -> SUBSET Moments]
    BY <1>0, <1>2, <1>6
  <2>2. pc' \in [Pthreads -> PCs]
    BY <1>0, <1>1 DEF PCs
  <2> QED  BY <1>1, <2>1, <2>2 DEF ThreadsInv, TypeOK
<1>13. Makers' /\ TidsPassed'
  <2>1. "run" \in PCs /\ "run" \notin {"absent"} \cup Born \cup Making \cup Ended
        /\ pc[a] \notin {"absent"} \cup Born \cup Making
    BY <1>1 DEF PCs, Born, Making, Ended
  <2> QED  BY <1>0, <1>1, <2>1, MakersKeep
<1>14. Claims'
  BY <1>1, <1>4, ClaimsKeep DEF Claiming, Born
<1>15. Handles'
  <2>1. Settled(Main)'
    BY <1>2, <1>4, MainIs DEF ThreadsInv, Handles
  <2> QED  BY <1>1, <1>3, <1>4, <2>1, HandlesKeep
<1>16. Clocks'
  <2>1. knows[a] = hb[a]
    BY <1>1 DEF ThreadsInv, Clocks
  <2> QED  BY <1>1, <1>4, <2>1, ClocksKeep
<1> QED  BY <1>11, <1>12, <1>13, <1>14, <1>15, <1>16 DEF ThreadsInv

-------------------------------------------------------------------------------
LEMMA ThreadsInductive == IInv /\ ThreadsInv /\ [Next]_vars => ThreadsInv'
<1> SUFFICES ASSUME IInv, ThreadsInv, [Next]_vars PROVE ThreadsInv'
  OBVIOUS
<1>1. CASE UNCHANGED vars
  <2>1. UNCHANGED <<status, detached, userId, pc, target, argTid, param, tidOf, handle, real,
                    claimed, knows, sync, hb>>
    BY <1>1 DEF vars, registryVars, context, threadVars, clockVars
  <2>2. \A k \in Pthreads : /\ Claim(k)' <=> Claim(k)
                            /\ Settled(k)' <=> Settled(k)
                            /\ Holds(k)' <=> Holds(k)
                            /\ Published(k)' <=> Published(k)
                            /\ Ctx(k)' = Ctx(k) /\ StatusOf(k)' = StatusOf(k)
    BY <2>1 DEF Claim, Settled, Holds, Published, Ctx, StatusOf
  <2>3. Contexts' /\ Users' /\ Syncs'
    <3>1. UNCHANGED registryVars
      BY <1>1 DEF vars
    <3> QED  BY <2>1, <2>2, <3>1, ContextsKeep
  <2>4. Claims'
    BY <2>1, ClaimsKeep
  <2>5. Handles'
    <3>1. Settled(Main)'
      BY <2>2, MainIs DEF ThreadsInv, Handles
    <3> QED  BY <2>1, <2>2, <3>1, HandlesKeep
  <2>6. TypeOK' /\ Makers' /\ TidsPassed' /\ Clocks'
    BY <2>1 DEF ThreadsInv, TypeOK, Makers, TidsPassed, Clocks
  <2> QED  BY <2>3, <2>4, <2>5, <2>6 DEF ThreadsInv
<1>2. CASE Next
  <2>1. CASE AllEnded
    BY <1>1, <2>1 DEF AllEnded
  <2>2. ASSUME NEW a \in Pthreads, NEW j \in Pthreads, NEW h \in UserIds, NEW detach \in BOOLEAN,
               pc[j] = "absent", Create(a, j, h, detach)
        PROVE  ThreadsInv'
    BY <2>2, CreateKeepsThreads
  <2>3. ASSUME NEW a \in Pthreads, NEW j \in Pthreads, Join(a, j) PROVE ThreadsInv'
    <3>1. a # j
      BY <2>3 DEF Join, Pthreads
    <3> QED  BY <2>3, <3>1, ThreadTidKeepsThreads DEF Join
  <2>4. ASSUME NEW a \in Pthreads, NEW j \in Pthreads, Detach(a, j) PROVE ThreadsInv'
    BY <2>4, ThreadTidKeepsThreads DEF Detach
  <2>5. ASSUME NEW k \in Pthreads, Runtime(k) \/ ThreadFinish(k) PROVE ThreadsInv'
    BY <2>5, ThreadCreateKeepsThreads, ThreadStartKeepsThreads, HandoffKeepsThreads,
       CreateReturnsKeepsThreads, ExitKeepsThreads, RealJoinKeepsThreads,
       ThreadJoinKeepsThreads, RealDetachKeepsThreads, ThreadDetachKeepsThreads,
       ThreadFinishKeepsThreads DEF Runtime
  <2> QED  BY <1>2, <2>1, <2>2, <2>3, <2>4, <2>5 DEF Next
<1> QED  BY <1>1, <1>2

LEMMA Invariant == Spec => [](IInv /\ ThreadsInv)
<1>1. Init => IInv /\ ThreadsInv
  BY ThreadsInitially
<1>2. IInv /\ ThreadsInv /\ [Next]_vars => IInv' /\ ThreadsInv'
  BY StepsOfRegistry, Inductive, ThreadsInductive
<1> QED  BY <1>1, <1>2, PTL DEF Spec

(* Every variable has its type, those of the registry and those of the      *)
(* interceptors.                                                            *)
THEOREM ThreadsAreTyped == FairSpec => [](RegistryTypeOK /\ TypeOK)
<1>1. IInv /\ ThreadsInv => RegistryTypeOK /\ TypeOK
  BY DEF IInv, ThreadsInv
<1> QED  BY <1>1, Invariant, PTL DEF FairSpec

(* The program's threads, in any interleaving of the interceptors, lose no  *)
(* context and are never given the same one.                                *)
THEOREM RunKeepsContexts == FairSpec => []EveryContextInPlace
<1>1. IInv /\ ThreadsInv => EveryContextInPlace
  BY DEF IInv
<1> QED  BY <1>1, Invariant, PTL DEF FairSpec

(* The tid that was looked up before the real call is still that of the     *)
(* thread that is meant after it, the clocks of threads in user code are    *)
(* exactly the program's happens-before, and tids are reused late.          *)
THEOREM RunKnowsThreads == FairSpec => ThreadsAreKnown
<1>1. ASSUME IInv, ThreadsInv PROVE RightContext
  <2> SUFFICES ASSUME NEW k \in Pthreads, pc[k] \in {"joining", "joined", "detaching", "detached"}
               PROVE  /\ tidOf[target[k]] = argTid[k]
                      /\ \A j \in Pthreads \ {target[k]} :
                           tidOf[j] = argTid[k] => pc[j] \in {"finalized", "gone"}
    BY DEF RightContext
  <2>1. /\ tidOf[target[k]] = argTid[k] /\ argTid[k] \in Tids /\ target[k] \in Pthreads
        /\ Holds(target[k]) /\ Ctx(target[k]) = argTid[k]
    BY <1>1, ClaimantHas DEF Claiming
  <2>2. ASSUME NEW j \in Pthreads \ {target[k]}, tidOf[j] = argTid[k], pc[j] \notin Ended
        PROVE  FALSE
    <3>1. pc[j] \notin {"absent", "spin"}
      BY <1>1, <2>1, <2>2, MainIs DEF ThreadsInv, TidsPassed
    <3>2. Holds(j) /\ Ctx(j) = argTid[k]
      BY <2>2, <3>1 DEF Holds, Ctx
    <3> QED  BY <1>1, <2>1, <2>2, <3>2 DEF ThreadsInv, Contexts
  <2> QED  BY <2>1, <2>2 DEF Ended
<1>2. IInv /\ ThreadsInv => RightContext /\ ClocksAreHappensBefore
  <2>1. ThreadsInv => ClocksAreHappensBefore
    BY DEF ThreadsInv, Clocks, ClocksAreHappensBefore
  <2> QED  BY <1>1, <2>1
<1>3. IInv /\ ThreadsInv /\ [Next]_vars => [ReuseWaits]_registryVars
  BY StepsOfRegistry, StepWaits
<1> QED  BY <1>2, <1>3, Invariant, PTL DEF FairSpec, Spec, ThreadsAreKnown, ReuseIsDelayed
===============================================================================
