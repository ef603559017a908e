------------------------------- MODULE MCLibcxx -------------------------------
(***************************************************************************)
(* One run for what libc++ and libc++abi give to threads: shared_mutex     *)
(* ("shared"), timed_mutex and recursive_timed_mutex ("timed",             *)
(* "recursive"), call_once ("once"), the guards of local statics           *)
(* ("guard"), the states of futures ("promise", "deferred", "async") and   *)
(* the control block of shared_ptr ("pointer").  They share nothing here.  *)
(* A behaviour chooses one of them at the start (part) and the others stay *)
(* as they were initialised; fairness holds for the chosen one alone.      *)
(***************************************************************************)
EXTENDS SharedMutex

CONSTANTS
  Callers, First,     (* the threads of most parts; one of them              *)
  Keepers, Launched,  (* who use a promise; the thread of async()            *)
  Getters, Others,    (* who have a future; and who else of a deferred one   *)
  Nothing, FlagCount, MaxCalls, MaxThrows

VARIABLES
  part,
  count, id, tmPc, late, depth, alive,                         (* TimedMutex *)
  flag, mut, onPc, cur, below, knows, mutKnows, onReturned, slow, calls, onThrows,  (* CallOnce *)
  initialized, lock, cgPc, at, inits, sees, mutSees, returned, fast, throws,        (* CxaGuard *)
  ready, deferred, result, holders, deleted, atExit, stPc, got, runs,            (* SharedState *)
  shared_owners, shared_weak_owners, strong, weak, ptPc, object_owners,            (* SharedPtr *)
  destroyed, freed

tmVars == <<count, id, tmPc, late, depth, alive>>
onVars == <<flag, mut, onPc, cur, below, knows, mutKnows, onReturned, slow, calls, onThrows>>
cgVars == <<initialized, lock, cgPc, at, inits, sees, mutSees, returned, fast, throws>>
stVars == <<ready, deferred, result, holders, deleted, atExit, stPc, got, runs>>
ptVars == <<shared_owners, shared_weak_owners, strong, weak, ptPc, object_owners,
            destroyed, freed>>

Mutexes == {"timed", "recursive"}

Timer(p) == INSTANCE TimedMutex WITH
  Threads <- Callers, NoThread <- Nothing, Recursive <- p = "recursive",
  MaxCount <- IF p = "recursive" THEN 3 ELSE 1, pc <- tmPc

Flag == INSTANCE CallOnce WITH
  Threads <- Callers, NoThread <- Nothing, pc <- onPc, returned <- onReturned, throws <- onThrows

Guard == INSTANCE CxaGuard WITH
  Threads <- Callers, NoThread <- Nothing, GuardCount <- FlagCount, pc <- cgPc

Providers == {"promise", "deferred", "async"}

SettersOf(p) ==
  CASE p = "promise" -> Keepers [] p = "async" -> {Launched} [] OTHER -> {}

WaitersOf(p) == IF p = "deferred" THEN Getters \union Others ELSE Getters

Future(p) == INSTANCE SharedState WITH
  Setters <- SettersOf(p), Waiters <- WaitersOf(p), Owner <- "owner", None <- Nothing,
  Provider <- p, MayFail <- FALSE, pc <- stPc

(* What OneResult says is the same for every provider.                      *)
State == INSTANCE SharedState WITH
  Setters <- SettersOf("promise"), Waiters <- WaitersOf("promise"), Owner <- "owner",
  None <- Nothing, Provider <- "promise", MayFail <- FALSE, pc <- stPc

Pointer == INSTANCE SharedPtr WITH Threads <- Callers, pc <- ptPc

ASSUME PartsAssumption ==
  /\ \A p \in Mutexes : Timer(p)!TimedMutexAssumption
  /\ \A p \in Providers : Future(p)!SharedStateAssumption
  /\ Flag!OnceAssumption /\ Guard!GuardAssumption /\ Pointer!SharedPtrAssumption

mcvars == <<part, vars, tmVars, onVars, cgVars, stVars, ptVars>>

MCInit ==
  /\ part \in Mutexes \union Providers \union {"shared", "once", "guard", "pointer"}
  /\ Init /\ Timer("timed")!Init /\ Flag!Init /\ Guard!Init /\ Pointer!Init
  /\ \E p \in Providers : Future(p)!Init /\ IF part \in Providers THEN p = part
                                                                ELSE p = "promise"

MCNext ==
  \/ /\ part = "shared" /\ Next
     /\ UNCHANGED <<part, tmVars, onVars, cgVars, stVars, ptVars>>
  \/ \E p \in Mutexes :
       /\ part = p /\ Timer(p)!Next
       /\ UNCHANGED <<part, vars, onVars, cgVars, stVars, ptVars>>
  \/ /\ part = "once" /\ Flag!Next
     /\ UNCHANGED <<part, vars, tmVars, cgVars, stVars, ptVars>>
  \/ /\ part = "guard" /\ Guard!Next
     /\ UNCHANGED <<part, vars, tmVars, onVars, stVars, ptVars>>
  \/ \E p \in Providers :
       /\ part = p /\ Future(p)!Next
       /\ UNCHANGED <<part, vars, tmVars, onVars, cgVars, ptVars>>
  \/ /\ part = "pointer" /\ Pointer!Next
     /\ UNCHANGED <<part, vars, tmVars, onVars, cgVars, stVars>>
  \/ /\ part = "guard" /\ \A t \in Callers : cgPc[t] = "out"   (* all used all *)
     /\ UNCHANGED mcvars

(* The fairness of the modules.                                             *)
MCFairness ==
  /\ \A t \in Threads : WF_vars(part = "shared" /\ Step(t))
  /\ \A p \in Mutexes, t \in Callers :
       /\ WF_tmVars(part = p /\ Timer(p)!Deadline(t))
       /\ WF_tmVars(part = p /\ late[t] /\ Timer(p)!Return(t))
       /\ WF_tmVars(part = p /\ Timer(p)!Again(t))
       /\ WF_tmVars(part = p /\ Timer(p)!LockLoop(t))
       /\ WF_tmVars(part = p /\ Timer(p)!UntilLoop(t))
       /\ WF_tmVars(part = p /\ Timer(p)!Notify(t))
  /\ \A t \in Callers : SF_onVars(part = "once" /\ Flag!Step(t))
  /\ \A t \in Callers : WF_cgVars(part = "guard" /\ Guard!Step(t))
  /\ \A p \in Providers :
       /\ \A s \in SettersOf(p) :
            /\ WF_stVars(part = p /\ (Future(p)!SetNow(s) \/ Future(p)!SetAtExit(s)
                                                              \/ Future(p)!Skip(s)))
            /\ WF_stVars(part = p /\ Future(p)!MakeReady(s))
            /\ WF_stVars(part = p /\ Future(p)!AsyncRun(s))
       /\ WF_stVars(part = p /\ (Future(p)!Break \/ Future(p)!Broken))
       /\ WF_stVars(part = p /\ Future(p)!DeferredMade)
       /\ WF_stVars(part = p /\ Future(p)!Start)
       /\ WF_stVars(part = p /\ Future(p)!Attach)
       /\ \A a \in SettersOf(p) \union WaitersOf(p) \union {"owner"} :
            WF_stVars(part = p /\ Future(p)!Use(a))

MCSpec == MCInit /\ [][MCNext]_mcvars /\ MCFairness

(* A timed mutex has one owner, who holds it as often as the count says;    *)
(* nobody sleeps on a free one unless somebody who will look at it or       *)
(* notify is on the way, also when a notification goes to a thread whose    *)
(* deadline has passed; and unlock() of a timed_mutex has done with it when *)
(* the next owner may destroy it.                                           *)
TimedMutexHolds ==
  \A p \in Mutexes : part = p =>
    /\ Timer(p)!OwnerHolds
    /\ Timer(p)!NoLostWakeup
    /\ p = "timed" => Timer(p)!UsedAlive

(* One function returns for each once_flag, one runs at a time, nobody's    *)
(* call returns before it, and a call that went through the mutex has its   *)
(* effects in sight.                                                        *)
OnceFlagHolds ==
  /\ [](part = "once" => Flag!SlowCallsSynchronize)
  /\ Flag!ImplementsOnce

(* The same for the initializer of a static and its guard, whoever ran it,  *)
(* also when one throws or uses another static.                             *)
GuardHolds ==
  /\ [](part = "guard" => Guard!CallersSeeTheObject)
  /\ Guard!ImplementsOnce

(* A shared state gets one result and every get() returns that one; a       *)
(* deferred function runs once; nobody uses the state after it is deleted,  *)
(* and it is deleted when all are through.                                  *)
FutureHolds ==
  /\ [](\A p \in Providers : part = p =>
         Future(p)!AliveInUse /\ Future(p)!NothingLeaks /\ Future(p)!RunsOnce)
  /\ State!OneResult

(* The object is there for whoever has a shared_ptr, also one that lock()   *)
(* made while the last one was going away; the control block for everybody  *)
(* who counts in it; and both go once, when the last pointer does.          *)
PointerHolds == Pointer!ObjectLives /\ Pointer!BlockLives /\ Pointer!NothingLeaks

(* Calls end: call_once() and the use of a static, also when functions use  *)
(* others' flags and throw; get() and async(); try_lock_until(); a writer   *)
(* that has entered a shared_mutex.  Threads are interchangeable: one of    *)
(* each kind stands for all.  Where a variable serves several parts one     *)
(* formula speaks of all of them.                                           *)
CallsEnd ==
  /\ EnteredWriterMovesOn(CHOOSE t \in Threads : TRUE)
  /\ Flag!CallsEnd(First)
  /\ Guard!UsesEnd(First)
  /\ Timer("timed")!AttemptsEnd(First)
  /\ State!GetsReturn(CHOOSE w \in Getters : TRUE)
  /\ State!AsyncReturns
===============================================================================
