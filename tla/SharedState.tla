------------------------------ MODULE SharedState ------------------------------
(***************************************************************************)
(* The state that promises and futures of libc++ share: one object,        *)
(* counted by those who hold it, a mutex (what is done under it is one     *)
(* step) and a condition variable.  Its result comes from a promise that   *)
(* several threads use, from a thread that async() starts, or from a       *)
(* function that the first to wait runs.  wait_for() and wait_until()      *)
(* change nothing and have no action.                                      *)
(***************************************************************************)
EXTENDS Integers, FiniteSets

CONSTANTS Setters,    (* the threads that set a promise, or async's thread    *)
          Waiters,    (* threads with a shared_future each                    *)
          Owner,      (* destroys the promise, or calls async()               *)
          None,
          Provider,   (* "promise", "deferred" or "async"                     *)
          MayFail     (* pthread_create may fail                              *)

SharedStateAssumption ==
  /\ Provider \in {"promise", "deferred", "async"} /\ MayFail \in BOOLEAN
  /\ Owner \notin Setters \union Waiters /\ Setters \intersect Waiters = {}
  /\ Provider = "async" => Cardinality(Setters) = 1
  /\ None \notin (Setters \union Waiters \union {Owner}) \X {"value", "exception"}

Actors == Setters \union Waiters \union {Owner}
VARIABLES
  ready, deferred,   (* bits of __state_                                      *)
  result,            (* the value or __exception_: __has_value() when not None*)
  holders,           (* whose references __shared_owners_ counts              *)
  deleted,
  atExit,            (* threads with the state in async_states_               *)
  pc,
  got,               (* what get() returned                                   *)
  runs               (* ghost: calls of the deferred function                 *)

vars == <<ready, deferred, result, holders, deleted, atExit, pc, got, runs>>

Init ==
  /\ ready = FALSE /\ deferred = (Provider = "deferred") /\ result = None
  /\ holders = {Owner} \union IF Provider = "async" THEN {} ELSE Waiters
  /\ deleted = FALSE /\ atExit = {}
  /\ pc = [a \in Actors |->
             CASE a = Owner -> IF Provider = "async" THEN "start" ELSE "out"
               [] a \in Setters -> IF Provider = "promise" THEN "out" ELSE "none"
               [] OTHER -> IF Provider = "async" THEN "none" ELSE "out"]
  /\ got = [w \in Waiters |-> None] /\ runs = 0

Goto(a, l) == pc' = [pc EXCEPT ![a] = l]

(* notify_all(), with the caller going to l.                                  *)
NotifyAll(a, l) ==
  pc' = [b \in Actors |-> CASE b = a -> l
                            [] b # a /\ pc[b] = "waiting" -> "get"
                            [] b # a /\ pc[b] = "zeroWaiting" -> "zero"
                            [] OTHER -> pc[b]]

-----------------------------------------------------------------------------
(* set_value() and set_exception() in thread a, which throw when the state    *)
(* has a result.                                                              *)
SetOverwritesMutant(a, l) ==
  /\ result' \in {a} \X {"value", "exception"}
  /\ ready' = TRUE /\ NotifyAll(a, l)

Set(a, l) ==
  IF result # None THEN Goto(a, l) /\ UNCHANGED <<ready, result>>
  ELSE /\ result' \in {a} \X {"value", "exception"}
       /\ ready' = TRUE /\ NotifyAll(a, l)

SetNow(s) ==
  /\ Provider = "promise" /\ s \in Setters /\ pc[s] = "out"
  /\ Set(s, "done")
  /\ UNCHANGED <<deferred, holders, deleted, atExit, got, runs>>

(* set_value_at_thread_exit(), set_exception_at_thread_exit().                *)
SetAtExit(s) ==
  /\ Provider = "promise" /\ s \in Setters /\ pc[s] = "out" /\ result = None
  /\ result' \in {s} \X {"value", "exception"}
  /\ atExit' = atExit \union {s} /\ holders' = holders \union {s}
  /\ Goto(s, "exit")
  /\ UNCHANGED <<ready, deferred, deleted, got, runs>>

(* A thread need not use the promise.                                         *)
Skip(s) ==
  /\ Provider = "promise" /\ s \in Setters /\ pc[s] = "out" /\ Goto(s, "done")
  /\ UNCHANGED <<ready, deferred, result, holders, deleted, atExit, got, runs>>

(* ~__thread_struct_imp: __make_ready(), then the reference goes.             *)
MakeReady(s) ==
  /\ s \in atExit /\ pc[s] = "exit"
  /\ ready' = TRUE /\ NotifyAll(s, "release")
  /\ UNCHANGED <<deferred, result, holders, deleted, atExit, got, runs>>

(* ~promise(), when its users have called what they call: it breaks a promise *)
(* that somebody else holds and that has no result.                           *)
Break ==
  /\ Provider = "promise" /\ pc[Owner] = "out"
  /\ \A s \in Setters : pc[s] # "out"
  /\ Goto(Owner, IF result = None /\ Cardinality(holders) > 1 THEN "broken" ELSE "release")
  /\ UNCHANGED <<ready, deferred, result, holders, deleted, atExit, got, runs>>

Broken ==
  /\ pc[Owner] = "broken"
  /\ IF result # None THEN Goto(Owner, "release") /\ UNCHANGED <<ready, result>>
     ELSE result' = <<Owner, "exception">> /\ ready' = TRUE /\ NotifyAll(Owner, "release")
  /\ UNCHANGED <<deferred, holders, deleted, atExit, got, runs>>

(* Leaving __make_deferred_assoc_state(): its reference goes.                 *)
DeferredMade ==
  /\ Provider = "deferred" /\ pc[Owner] = "out" /\ Goto(Owner, "release")
  /\ UNCHANGED <<ready, deferred, result, holders, deleted, atExit, got, runs>>

(* __make_async_assoc_state(): the thread starts, or its constructor throws   *)
(* and the reference goes; then the futures are made.                         *)
Start ==
  /\ pc[Owner] = "start"
  /\ \/ pc' = [a \in Actors |-> IF a = Owner THEN "attach"
                                ELSE IF a \in Setters THEN "run" ELSE pc[a]]
     \/ MayFail /\ Goto(Owner, "release")
  /\ UNCHANGED <<ready, deferred, result, holders, deleted, atExit, got, runs>>

Attach ==
  /\ pc[Owner] = "attach"
  /\ pc' = [a \in Actors |-> IF a = Owner THEN "release"
                             ELSE IF a \in Waiters THEN "out" ELSE pc[a]]
  /\ holders' = holders \union Waiters
  /\ UNCHANGED <<ready, deferred, result, deleted, atExit, got, runs>>

(* __async_assoc_state::__execute(), which holds no reference.                *)
AsyncRun(s) ==
  /\ pc[s] = "run" /\ Set(s, "done")
  /\ UNCHANGED <<deferred, holders, deleted, atExit, got, runs>>

-----------------------------------------------------------------------------
Call(w) ==
  /\ w \in Waiters /\ pc[w] = "out"
  /\ \/ Goto(w, "get")
     \/ Goto(w, "release")      (* the future is destroyed without a get()    *)
  /\ UNCHANGED <<ready, deferred, result, holders, deleted, atExit, got, runs>>

(* copy() or move(), with __sub_wait().                                       *)
Get(w) ==
  /\ pc[w] = "get"
  /\ \/ /\ ready /\ got' = [got EXCEPT ![w] = result]
        /\ Goto(w, "release") /\ UNCHANGED deferred
     \/ ~ready /\ deferred /\ Goto(w, "execute") /\ deferred' = FALSE /\ UNCHANGED got
     \/ ~ready /\ ~deferred /\ Goto(w, "waiting") /\ UNCHANGED <<got, deferred>>
  /\ UNCHANGED <<ready, result, holders, deleted, atExit, runs>>

(* A wait may return although nobody notified.                                *)
Spurious(a) ==
  /\ \/ pc[a] = "waiting" /\ Goto(a, "get")
     \/ pc[a] = "zeroWaiting" /\ Goto(a, "zero")
  /\ UNCHANGED <<ready, deferred, result, holders, deleted, atExit, got, runs>>

(* __deferred_assoc_state::__execute(), without the mutex until it sets.      *)
Execute(w) ==
  /\ pc[w] = "execute" /\ Set(w, "read") /\ runs' = runs + 1
  /\ UNCHANGED <<deferred, holders, deleted, atExit, got>>

Read(w) ==
  /\ pc[w] = "read" /\ got' = [got EXCEPT ![w] = result] /\ Goto(w, "release")
  /\ UNCHANGED <<ready, deferred, result, holders, deleted, atExit, runs>>

(* __release_shared(): who gives the last reference back deletes, in a state  *)
(* of async() when its thread is ready.                                       *)
Release(a) ==
  /\ pc[a] = "release"
  /\ holders' = holders \ {a}
  /\ IF holders' = {} /\ Provider = "async"
       THEN Goto(a, "zero") /\ UNCHANGED deleted
       ELSE Goto(a, "done") /\ deleted' = (holders' = {})
  /\ UNCHANGED <<ready, deferred, result, atExit, got, runs>>

OnZero(a) ==
  /\ pc[a] = "zero"
  /\ IF ready THEN Goto(a, "done") /\ deleted' = TRUE
              ELSE Goto(a, "zeroWaiting") /\ UNCHANGED deleted
  /\ UNCHANGED <<ready, deferred, result, holders, atExit, got, runs>>

Over == (\A a \in Actors : pc[a] \in {"done", "none"}) /\ UNCHANGED vars

Provide ==
  \/ \E s \in Setters : SetNow(s) \/ SetAtExit(s) \/ Skip(s) \/ MakeReady(s) \/ AsyncRun(s)
  \/ Break \/ Broken \/ DeferredMade \/ Start \/ Attach

Use(a) == Call(a) \/ Get(a) \/ Execute(a) \/ Read(a) \/ Release(a) \/ OnZero(a)

Next ==
  \/ Provide
  \/ \E a \in Actors : Use(a) \/ Spurious(a)
  \/ Over

(* Every thread runs; a promise is destroyed and its threads exit.            *)
Spec == Init /\ [][Next]_vars
FairSpec ==
  /\ Spec
  /\ \A s \in Setters : WF_vars(SetNow(s) \/ SetAtExit(s) \/ Skip(s)) /\ WF_vars(MakeReady(s)) /\ WF_vars(AsyncRun(s))
  /\ WF_vars(Break \/ Broken) /\ WF_vars(DeferredMade) /\ WF_vars(Start) /\ WF_vars(Attach)
  /\ \A a \in Actors : WF_vars(Use(a))

-----------------------------------------------------------------------------
(* Nobody uses the state after it is deleted, not even the thread of async()  *)
(* that holds no reference and the exiting thread.                            *)
AliveInUse ==
  deleted => \A a \in Actors : pc[a] \in {"done", "none"}

(* When all have ended nothing is left: unless a reference is lost, the state *)
(* is deleted.                                                                *)
NothingLeaks == (\A a \in Actors : pc[a] \in {"done", "none"}) => deleted

(* A deferred function runs once, whoever waits, and before anybody returns.  *)
RunsOnce ==
  Provider = "deferred" =>
    /\ runs <= 1
    /\ \A v, w \in Waiters : pc[v] = "execute" /\ pc[w] = "execute" => v = w
    /\ \A w \in Waiters : got[w] # None => runs = 1

(* One result, and get() returns it; a result set for the exit of a thread    *)
(* cannot be had before it.                                                   *)
Visible == IF ready THEN result ELSE None

ResultStays ==
  /\ Visible # None => Visible' = Visible
  /\ \A w \in Waiters : got'[w] # got[w] => /\ got[w] = None
                                             /\ Visible # None /\ got'[w] = Visible

OneResult == [][ResultStays]_vars

(* Every get() returns with a result: a promise is kept or broken.            *)
GetsReturn(w) == pc[w] = "get" ~> pc[w] = "done" /\ got[w] # None

(* async() comes back, also when it cannot start a thread.                    *)
AsyncReturns == pc[Owner] = "start" ~> pc[Owner] = "done"
=============================================================================
