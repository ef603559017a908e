------------------------------- MODULE SharedPtr -------------------------------
(***************************************************************************)
(* The control block of shared_ptr and weak_ptr of libc++: two counters,   *)
(* each one less than what it counts, and lock(), which makes a shared_ptr *)
(* of a weak_ptr with a compare-and-swap.                                  *)
(***************************************************************************)
EXTENDS Integers

CONSTANTS Threads, First   (* First makes the object                          *)

SharedPtrAssumption == First \in Threads

VARIABLES
  shared_owners, shared_weak_owners,
  strong, weak,       (* the threads with a shared_ptr, with a weak_ptr       *)
  pc, object_owners,  (* lock()'s local                                       *)
  destroyed, freed    (* how often the object, the control block              *)

vars == <<shared_owners, shared_weak_owners, strong, weak, pc, object_owners,
          destroyed, freed>>

Init ==
  /\ shared_owners = 0 /\ shared_weak_owners = 0
  /\ strong = {First} /\ weak = {}
  /\ pc = [t \in Threads |-> "out"] /\ object_owners = [t \in Threads |-> 0]
  /\ destroyed = 0 /\ freed = 0

Goto(t, l) == pc' = [pc EXCEPT ![t] = l]

(* Thread t, with a shared_ptr, makes one for u: __add_shared().              *)
AddShared(t, u) ==
  /\ pc[t] = "out" /\ t \in strong /\ u \notin strong /\ pc[u] = "out"
  /\ shared_owners' = shared_owners + 1 /\ strong' = strong \union {u}
  /\ UNCHANGED <<shared_weak_owners, weak, pc, object_owners, destroyed, freed>>

AddWeak(t, u) ==
  /\ pc[t] = "out" /\ t \in strong \union weak /\ u \notin weak /\ pc[u] = "out"
  /\ shared_weak_owners' = shared_weak_owners + 1 /\ weak' = weak \union {u}
  /\ UNCHANGED <<shared_owners, strong, pc, object_owners, destroyed, freed>>

(* __release_shared(): the last one destroys the object and gives back the    *)
(* weak count that all shared owners have together.                           *)
ReleaseShared(t) ==
  /\ pc[t] = "out" /\ t \in strong
  /\ strong' = strong \ {t} /\ shared_owners' = shared_owners - 1
  /\ Goto(t, IF shared_owners = 0 THEN "onZero" ELSE "out")
  /\ UNCHANGED <<shared_weak_owners, weak, object_owners, destroyed, freed>>

OnZeroShared(t) ==
  /\ pc[t] = "onZero" /\ destroyed' = destroyed + 1 /\ Goto(t, "weak")
  /\ UNCHANGED <<shared_owners, shared_weak_owners, strong, weak, object_owners, freed>>

(* __release_weak(), decrement and __on_zero_shared_weak().                   *)
Decrement ==
  /\ shared_weak_owners' = shared_weak_owners - 1
  /\ freed' = IF shared_weak_owners = 0 THEN freed + 1 ELSE freed

ReleaseWeakOfShared(t) ==
  /\ pc[t] = "weak" /\ Decrement /\ Goto(t, "out")
  /\ UNCHANGED <<shared_owners, strong, weak, object_owners, destroyed>>

ReleaseWeak(t) ==
  /\ pc[t] = "out" /\ t \in weak /\ Decrement /\ weak' = weak \ {t}
  /\ UNCHANGED <<shared_owners, strong, pc, object_owners, destroyed>>

(* lock(): what was read is the value to compare with, until it is -1.        *)
Lock(t) ==
  /\ pc[t] = "out" /\ t \in weak \ strong
  /\ object_owners' = [object_owners EXCEPT ![t] = shared_owners]
  /\ Goto(t, "loop")
  /\ UNCHANGED <<shared_owners, shared_weak_owners, strong, weak, destroyed, freed>>

UncheckedLockMutant(t) ==
  /\ pc[t] = "loop"
  /\ shared_owners' = shared_owners + 1
  /\ strong' = strong \union {t} /\ Goto(t, "out")
  /\ UNCHANGED <<shared_weak_owners, weak, object_owners, destroyed, freed>>

LockLoop(t) ==
  /\ pc[t] = "loop"
  /\ \/ /\ object_owners[t] = -1
        /\ Goto(t, "out") /\ UNCHANGED <<shared_owners, strong, object_owners>>
     \/ /\ object_owners[t] # -1 /\ shared_owners = object_owners[t]
        /\ shared_owners' = shared_owners + 1
        /\ strong' = strong \union {t} /\ Goto(t, "out") /\ UNCHANGED object_owners
     \/ /\ object_owners[t] # -1 /\ shared_owners # object_owners[t]
        /\ object_owners' = [object_owners EXCEPT ![t] = shared_owners]
        /\ UNCHANGED <<shared_owners, strong, pc>>
  /\ UNCHANGED <<shared_weak_owners, weak, destroyed, freed>>

Idle == \A t \in Threads : pc[t] = "out"
Done == Idle /\ strong = {} /\ weak = {} /\ UNCHANGED vars

Next ==
  \/ \E t \in Threads :
       \/ \E u \in Threads : AddShared(t, u) \/ AddWeak(t, u)
       \/ ReleaseShared(t) \/ OnZeroShared(t) \/ ReleaseWeakOfShared(t)
       \/ ReleaseWeak(t) \/ Lock(t) \/ LockLoop(t)
  \/ Done

Spec == Init /\ [][Next]_vars

-----------------------------------------------------------------------------
(* The object is there for whoever has a shared_ptr, also one that lock()     *)
(* made while the last one was going away, and it is destroyed once.          *)
ObjectLives == (strong # {} => destroyed = 0) /\ destroyed <= 1

(* The control block is there for everybody who counts in it, the thread that *)
(* destroys the object included, and is freed once.                           *)
BlockLives ==
  /\ freed <= 1
  /\ freed = 1 => strong = {} /\ weak = {} /\ Idle /\ destroyed = 1

(* When no pointer is left, both are gone.                                    *)
NothingLeaks == Idle /\ strong = {} /\ weak = {} => freed = 1 /\ destroyed = 1
=============================================================================
