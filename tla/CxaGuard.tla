------------------------------- MODULE CxaGuard -------------------------------
(***************************************************************************)
(* The guards of local statics: the code that clang emits around an        *)
(* initializer (EmitGuardedInit) and __cxa_guard_acquire, _release and     *)
(* _abort of libcxxabi, with one mutex and one condition variable for all  *)
(* guards.  An initializer may use statics with later guards, and throw.   *)
(* What is done under the mutex is one step: nobody sees its parts.        *)
(*                                                                         *)
(* What a thread sees is what happens before it.  The mutex hands it on;   *)
(* the load in the emitted code reads what a plain store wrote, and hands  *)
(* on nothing.                                                             *)
(***************************************************************************)
EXTENDS Integers

CONSTANTS Threads, NoThread,
          GuardCount,      (* guards are 1 .. GuardCount                      *)
          MaxThrows        (* bound: initializers that throw                  *)

Guards == 1 .. GuardCount

GuardAssumption == NoThread \notin Threads /\ GuardCount \in Nat

VARIABLES
  initialized, lock,   (* the guards with their first, their second byte set  *)
  pc, at,              (* where a thread is, and with which guard             *)
  inits,               (* the guards whose initializers it runs, the last is  *)
                       (* the innermost                                       *)
  sees, mutSees,       (* the initializers whose effects are in sight         *)
  returned, fast,      (* the guards it got past; those without a call        *)
  throws

vars == <<initialized, lock, pc, at, inits, sees, mutSees, returned, fast, throws>>

Init ==
  /\ initialized = {} /\ lock = {}
  /\ pc = [t \in Threads |-> "out"] /\ at = [t \in Threads |-> 0]
  /\ inits = [t \in Threads |-> {}]
  /\ sees = [t \in Threads |-> {}] /\ mutSees = {}
  /\ returned = [t \in Threads |-> {}] /\ fast = [t \in Threads |-> {}]
  /\ throws = 0

Goto(t, l) == pc' = [pc EXCEPT ![t] = l]
Outer(t) == IF inits[t] = {} THEN "out" ELSE "init"
Innermost(t, g) == g \in inits[t] /\ \A h \in inits[t] : h <= g
Pass(t, g) == returned' = [returned EXCEPT ![t] = @ \union {g}]

(* lock and unlock.                                                           *)
Synchronize(t) ==
  /\ sees' = [sees EXCEPT ![t] = @ \union mutSees]
  /\ mutSees' = mutSees \union sees[t]

(* The emitted code: a thread that finds the byte set goes on.  Once it got   *)
(* past a guard it finds the byte set every time, which changes nothing.      *)
Load(t, g) ==
  /\ pc[t] \in {"out", "init"} /\ \A h \in inits[t] : h < g
  /\ g \notin returned[t]
  /\ \/ /\ g \in initialized
        /\ Pass(t, g) /\ fast' = [fast EXCEPT ![t] = @ \union {g}]
        /\ UNCHANGED <<pc, at>>
     \/ /\ Goto(t, "acquire") /\ at' = [at EXCEPT ![t] = g]
        /\ UNCHANGED <<returned, fast>>
  /\ UNCHANGED <<initialized, lock, inits, sees, mutSees, throws>>

(* __cxa_guard_acquire, from taking the mutex to leaving it or to the wait.   *)
Acquire(t) ==
  LET g == at[t] IN
  /\ pc[t] = "acquire"
  /\ Synchronize(t)
  /\ \/ /\ g \in initialized
        /\ Pass(t, g) /\ Goto(t, Outer(t))
        /\ UNCHANGED <<lock, inits>>
     \/ /\ g \notin initialized /\ g \in lock
        /\ Goto(t, "wait")
        /\ UNCHANGED <<lock, inits, returned>>
     \/ /\ g \notin initialized /\ g \notin lock
        /\ lock' = lock \union {g}
        /\ inits' = [inits EXCEPT ![t] = @ \union {g}]
        /\ Goto(t, "init")
        /\ UNCHANGED returned
  /\ UNCHANGED <<initialized, at, fast, throws>>

(* pthread_cond_wait may return for no reason.                                *)
WakeUp(t) ==
  /\ pc[t] = "wait"
  /\ Goto(t, "acquire")
  /\ UNCHANGED <<initialized, lock, at, inits, sees, mutSees, returned, fast, throws>>

-----------------------------------------------------------------------------
(* The initializer of the innermost guard.                                    *)
InitReturns(t) ==
  /\ pc[t] = "init"
  /\ \E g \in Guards : /\ Innermost(t, g)
                       /\ at' = [at EXCEPT ![t] = g]
                       /\ sees' = [sees EXCEPT ![t] = @ \union {g}]
  /\ Goto(t, "release")
  /\ UNCHANGED <<initialized, lock, inits, mutSees, returned, fast, throws>>

InitThrows(t) ==
  /\ pc[t] = "init" /\ throws < MaxThrows
  /\ \E g \in Guards : Innermost(t, g) /\ at' = [at EXCEPT ![t] = g]
  /\ throws' = throws + 1
  /\ Goto(t, "abort")
  /\ UNCHANGED <<initialized, lock, inits, sees, mutSees, returned, fast>>

ReleaseUnlockedMutant(t) ==
  /\ pc[t] = "release"
  /\ lock' = lock \ {at[t]} /\ initialized' = initialized \union {at[t]}
  /\ inits' = [inits EXCEPT ![t] = @ \ {at[t]}]
  /\ Goto(t, "broadcast")
  /\ UNCHANGED <<at, sees, mutSees, returned, fast, throws>>

(* The guard is cleared, then its first byte is set.                          *)
Release(t) ==
  /\ pc[t] = "release"
  /\ Synchronize(t)
  /\ lock' = lock \ {at[t]} /\ initialized' = initialized \union {at[t]}
  /\ inits' = [inits EXCEPT ![t] = @ \ {at[t]}]
  /\ Goto(t, "broadcast")
  /\ UNCHANGED <<at, returned, fast, throws>>

Abort(t) ==
  /\ pc[t] = "abort"
  /\ Synchronize(t)
  /\ lock' = lock \ {at[t]}
  /\ inits' = [inits EXCEPT ![t] = @ \ {at[t]}]
  /\ Goto(t, "rethrow")
  /\ UNCHANGED <<initialized, at, returned, fast, throws>>

(* Both broadcast without the mutex; whoever waits for any guard looks again. *)
WakeAll(t) ==
  pc' = [u \in Threads |-> IF u = t THEN Outer(t) ELSE IF pc[u] = "wait" THEN "acquire" ELSE pc[u]]

Broadcast(t) ==
  /\ pc[t] \in {"broadcast", "rethrow"}
  /\ WakeAll(t)
  /\ IF pc[t] = "broadcast" THEN Pass(t, at[t]) ELSE UNCHANGED returned
  /\ UNCHANGED <<initialized, lock, at, inits, sees, mutSees, fast, throws>>

Step(t) == Acquire(t) \/ InitReturns(t) \/ Release(t) \/ Abort(t) \/ Broadcast(t)

Next == \E t \in Threads : \/ \E g \in Guards : Load(t, g)
                           \/ Step(t) \/ WakeUp(t) \/ InitThrows(t)

Spec == Init /\ [][Next]_vars

(* Threads run, the mutex is not taken for ever, and initializers end.        *)
FairSpec == Spec /\ \A t \in Threads : WF_vars(Step(t))

-----------------------------------------------------------------------------
(* The types; initializers nest in the order of their guards.                 *)
TypeOK ==
  /\ initialized \subseteq Guards /\ lock \subseteq Guards
  /\ pc \in [Threads -> {"out", "acquire", "wait", "init", "release", "abort",
                         "broadcast", "rethrow"}]
  /\ at \in [Threads -> 0 .. GuardCount]
  /\ inits \in [Threads -> SUBSET Guards]
  /\ sees \in [Threads -> SUBSET Guards] /\ mutSees \subseteq Guards
  /\ returned \in [Threads -> SUBSET Guards] /\ fast \in [Threads -> SUBSET Guards]
  /\ throws \in 0 .. MaxThrows

(* A thread that got past a static by a call sees the object as its           *)
(* initializer left it, whoever ran that (Acquire, Release).                  *)
CallersSeeTheObject == \A t \in Threads : (returned[t] \ fast[t]) \subseteq sees[t]

(* "An implementation supporting thread-safety on multiprocessor systems must *)
(* also guarantee that references to the initialized object do not occur      *)
(* before the load of the initialization flag": a thread that found the flag  *)
(* set sees the object as well (Load, Release).                               *)
LoadersSeeTheObject == \A t \in Threads : fast[t] \subseteq sees[t]

(* Guards implement what call_once promises: the object is initialized by one *)
(* initializer that returned, one runs at a time, and nobody gets past before.*)
Runner(g) == IF \E t \in Threads : g \in inits[t]
             THEN CHOOSE t \in Threads : g \in inits[t] ELSE NoThread
O == INSTANCE Once WITH Flags <- Guards, runner <- [g \in Guards |-> Runner(g)],
                        done <- initialized
ImplementsOnce == O!Spec

(* Every use of a static gets past it, whatever waits for other guards.       *)
UsesEnd(t) == pc[t] # "out" ~> pc[t] = "out"
===============================================================================
