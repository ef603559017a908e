----------------------------- MODULE VectorClock -----------------------------
(***************************************************************************)
(* The naive model that tsan_clock.cc states in its header comment: thread *)
(* clocks and sync clocks are plain vectors, acquire and release take      *)
(* pointwise maxima, release-store copies.  Nothing here is fast.          *)
(***************************************************************************)
EXTENDS Naturals

CONSTANTS Tids, Syncs,
          Epochs    (* the times a thread may have *)

VARIABLES
  tclk,   (* tclk[t][i]: what thread t knows of thread i *)
  sclk    (* sclk[s][i]: what sync variable s carries about thread i *)

vars == <<tclk, sclk>>

Zero == [i \in Tids |-> 0]

Join(v, w) == [i \in Tids |-> IF v[i] >= w[i] THEN v[i] ELSE w[i]]

(* Thread t's own time moves to e before it touches a sync variable.        *)
Now(t, e) == [tclk[t] EXCEPT ![t] = e]

Init ==
  /\ tclk = [t \in Tids |-> Zero]
  /\ sclk = [s \in Syncs |-> Zero]

Acquire(t, s, e) ==
  /\ tclk' = [tclk EXCEPT ![t] = Join(Now(t, e), sclk[s])]
  /\ UNCHANGED sclk

Release(t, s, e) ==
  /\ tclk' = [tclk EXCEPT ![t] = Now(t, e)]
  /\ sclk' = [sclk EXCEPT ![s] = Join(sclk[s], Now(t, e))]

ReleaseStore(t, s, e) ==
  /\ tclk' = [tclk EXCEPT ![t] = Now(t, e)]
  /\ sclk' = [sclk EXCEPT ![s] = Now(t, e)]

(* acquire, then release: both vectors end up as the join.                  *)
AcqRel(t, s, e) ==
  LET joined == Join(Now(t, e), sclk[s]) IN
  /\ tclk' = [tclk EXCEPT ![t] = joined]
  /\ sclk' = [sclk EXCEPT ![s] = joined]

Reset(s) ==
  /\ sclk' = [sclk EXCEPT ![s] = Zero]
  /\ UNCHANGED tclk

(* A joiner acquires the clock of the thread it joins, which is then empty. *)
JoinThread(t, s, e) ==
  /\ tclk' = [tclk EXCEPT ![t] = Join(Now(t, e), sclk[s])]
  /\ sclk' = [sclk EXCEPT ![s] = Zero]

(* A new thread takes over the tid at a later time.  It knows what its      *)
(* creator left for it in s.                                                *)
Start(t, s, e) ==
  /\ tclk' = [tclk EXCEPT ![t] = Join([Zero EXCEPT ![t] = e], sclk[s])]
  /\ sclk' = [sclk EXCEPT ![s] = Zero]

(* One operation concerns one thread and one sync variable.                 *)
Concerns(t, s) ==
  /\ \A u \in Tids \ {t} : tclk'[u] = tclk[u]
  /\ \A r \in Syncs \ {s} : sclk'[r] = sclk[r]

Next ==
  \/ \E t \in Tids, s \in Syncs :
       /\ Concerns(t, s)
       /\ \E e \in Epochs :
            /\ e >= tclk[t][t]
            /\ \/ Acquire(t, s, e) \/ Release(t, s, e)
               \/ ReleaseStore(t, s, e) \/ AcqRel(t, s, e)
               \/ JoinThread(t, s, e) \/ Start(t, s, e)
  \/ \E s \in Syncs : Reset(s)

Spec == Init /\ [][Next]_vars
==============================================================================
