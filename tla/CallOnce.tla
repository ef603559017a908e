------------------------------- MODULE CallOnce -------------------------------
(***************************************************************************)
(* libc++'s std::call_once(): a relaxed look at the flag, and for who does *)
(* not find it set, __call_once() with one mutex and one condition         *)
(* variable for all flags of the program.  The function runs without the   *)
(* mutex, may throw, and may itself call call_once() with a later flag.    *)
(*                                                                         *)
(* What a thread knows is what happens before it: mut hands knowledge on,  *)
(* a relaxed access does not.                                              *)
(***************************************************************************)
EXTENDS Integers, Sequences, FiniteSets

CONSTANTS
  Threads, NoThread,
  FlagCount,       (* flags are 1 .. FlagCount; functions use later ones *)
  MaxCalls,        (* bound: calls in one behaviour *)
  MaxThrows        (* bound: functions that throw *)

Flags == 1 .. FlagCount

OnceAssumption == FlagCount \in Nat /\ NoThread \notin Threads

VARIABLES
  flag,            (* once_flag::__state_: "unset" is 0, "running" 1, "set" ~0 *)
  mut,             (* who holds the mutex *)
  pc, cur,         (* where a thread is, and with which flag *)
  below,           (* the flags of the functions it is running, the outermost first *)
  knows, mutKnows, (* the functions whose effects a thread sees; mut hands on *)
  returned, slow,  (* the flags its calls returned from; those not seen set at once *)
  calls, throws

word == <<flag, mut, mutKnows>>
vars == <<word, pc, cur, below, knows, returned, slow, calls, throws>>

Init ==
  /\ flag = [f \in Flags |-> "unset"]
  /\ mut = NoThread /\ mutKnows = {}
  /\ pc = [p \in Threads |-> "out"]
  /\ cur = [p \in Threads |-> 0]
  /\ below = [p \in Threads |-> <<>>]
  /\ knows = [p \in Threads |-> {}]
  /\ returned = [p \in Threads |-> {}]
  /\ slow = [p \in Threads |-> {}]
  /\ calls = 0 /\ throws = 0

Goto(p, l) == pc' = [pc EXCEPT ![p] = l]
(* Back in the caller: the function of another call_once(), or no function. *)
Caller(p) == IF below[p] = <<>> THEN "out" ELSE "run"
Outer(p) == IF below[p] = <<>> THEN 0 ELSE below[p][Len(below[p])]
Pop(p) == /\ cur' = [cur EXCEPT ![p] = Outer(p)]
          /\ below' = [below EXCEPT ![p] = IF @ = <<>> THEN @ ELSE SubSeq(@, 1, Len(@) - 1)]

-------------------------------------------------------------------------------
(* call_once(): a relaxed load that sees the flag set ends the call.  It    *)
(* may as well see an older value.                                          *)
CallOnce(p, f) ==
  /\ pc[p] \in {"out", "run"} /\ cur[p] < f
  /\ calls < MaxCalls /\ calls' = calls + 1
  /\ \/ /\ flag[f] = "set"
        /\ returned' = [returned EXCEPT ![p] = @ \cup {f}]
        /\ UNCHANGED <<pc, cur, below>>
     \/ /\ Goto(p, "lock")
        /\ below' = [below EXCEPT ![p] = IF cur[p] = 0 THEN @ ELSE Append(@, cur[p])]
        /\ cur' = [cur EXCEPT ![p] = f]
        /\ UNCHANGED returned
  /\ UNCHANGED <<word, knows, slow, throws>>

(* pthread_mutex_lock(), and what the mutex hands on.                       *)
Lock(p) ==
  /\ pc[p] = "lock" /\ mut = NoThread
  /\ mut' = p
  /\ knows' = [knows EXCEPT ![p] = @ \cup mutKnows]
  /\ Goto(p, "check")
  /\ UNCHANGED <<flag, mutKnows, cur, below, returned, slow, calls, throws>>

Unlock(p) == mut' = NoThread /\ mutKnows' = mutKnows \cup knows[p]

(* Under the mutex: wait while another runs its function, run this one when *)
(* there is none, return when one has returned.                             *)
Check(p) ==
  /\ pc[p] = "check"
  /\ Unlock(p)
  /\ \/ /\ flag[cur[p]] = "running"
        /\ Goto(p, "wait")
        /\ UNCHANGED <<flag, cur, below, returned, slow>>
     \/ /\ flag[cur[p]] = "unset"
        /\ flag' = [flag EXCEPT ![cur[p]] = "running"]
        /\ Goto(p, "run")
        /\ UNCHANGED <<cur, below, returned, slow>>
     \/ /\ flag[cur[p]] = "set"
        /\ returned' = [returned EXCEPT ![p] = @ \cup {cur[p]}]
        /\ slow' = [slow EXCEPT ![p] = @ \cup {cur[p]}]
        /\ Goto(p, Caller(p)) /\ Pop(p)
        /\ UNCHANGED flag
  /\ UNCHANGED <<knows, calls, throws>>

(* pthread_cond_wait() may return for no reason.                            *)
WakeUp(p) ==
  /\ pc[p] = "wait"
  /\ Goto(p, "lock")
  /\ UNCHANGED <<word, cur, below, knows, returned, slow, calls, throws>>

-------------------------------------------------------------------------------
(* The function returns, or throws.                                         *)
FunctionReturns(p) ==
  /\ pc[p] = "run"
  /\ knows' = [knows EXCEPT ![p] = @ \cup {cur[p]}]
  /\ Goto(p, "store")
  /\ UNCHANGED <<word, cur, below, returned, slow, calls, throws>>

FunctionThrows(p) ==
  /\ pc[p] = "run" /\ throws < MaxThrows
  /\ throws' = throws + 1
  /\ Goto(p, "catch")
  /\ UNCHANGED <<word, cur, below, knows, returned, slow, calls>>

(* Locked, stored, unlocked; nobody sees the steps apart.                   *)
Store(p) ==
  /\ pc[p] = "store" /\ mut = NoThread
  /\ flag' = [flag EXCEPT ![cur[p]] = "set"]
  /\ knows' = [knows EXCEPT ![p] = @ \cup mutKnows]
  /\ mutKnows' = mutKnows \cup knows[p]
  /\ Goto(p, "broadcast")
  /\ UNCHANGED <<mut, cur, below, returned, slow, calls, throws>>

(* Mutant: a function that threw counts as having returned.                 *)
CatchSets(p) ==
  /\ pc[p] = "catch" /\ mut = NoThread
  /\ flag' = [flag EXCEPT ![cur[p]] = "set"]
  /\ knows' = [knows EXCEPT ![p] = @ \cup mutKnows]
  /\ mutKnows' = mutKnows \cup knows[p]
  /\ Goto(p, "rethrow")
  /\ UNCHANGED <<mut, cur, below, returned, slow, calls, throws>>

Catch(p) ==
  /\ pc[p] = "catch" /\ mut = NoThread
  /\ flag' = [flag EXCEPT ![cur[p]] = "unset"]
  /\ knows' = [knows EXCEPT ![p] = @ \cup mutKnows]
  /\ mutKnows' = mutKnows \cup knows[p]
  /\ Goto(p, "rethrow")
  /\ UNCHANGED <<mut, cur, below, returned, slow, calls, throws>>

(* The condition variable is the same for all flags.                        *)
Woken(p) == [q \in Threads |-> IF q = p THEN Caller(p) ELSE
                               IF pc[q] = "wait" THEN "lock" ELSE pc[q]]

(* Mutant: only one thread is woken, which may wait for another flag.       *)
BroadcastOne(p) ==
  /\ pc[p] = "broadcast"
  /\ IF \E q \in Threads : pc[q] = "wait"
     THEN \E q \in Threads :
            /\ pc[q] = "wait"
            /\ pc' = [pc EXCEPT ![p] = Caller(p), ![q] = "lock"]
     ELSE Goto(p, Caller(p))
  /\ Pop(p)
  /\ returned' = [returned EXCEPT ![p] = @ \cup {cur[p]}]
  /\ slow' = [slow EXCEPT ![p] = @ \cup {cur[p]}]
  /\ UNCHANGED <<word, knows, calls, throws>>

Broadcast(p) ==
  /\ pc[p] = "broadcast"
  /\ pc' = Woken(p) /\ Pop(p)
  /\ returned' = [returned EXCEPT ![p] = @ \cup {cur[p]}]
  /\ slow' = [slow EXCEPT ![p] = @ \cup {cur[p]}]
  /\ UNCHANGED <<word, knows, calls, throws>>

(* The broadcast after an exception; an outer function gets it and may do   *)
(* anything.                                                                *)
Rethrow(p) ==
  /\ pc[p] = "rethrow"
  /\ pc' = Woken(p) /\ Pop(p)
  /\ UNCHANGED <<word, knows, returned, slow, calls, throws>>

-------------------------------------------------------------------------------
Stopped ==
  /\ \A p \in Threads : pc[p] = "out"
  /\ calls = MaxCalls
  /\ UNCHANGED vars

(* What a thread does once it is in a call; FunctionThrows() is a choice.   *)
Step(p) ==
  \/ Lock(p) \/ Check(p) \/ FunctionReturns(p) \/ Store(p) \/ Catch(p)
  \/ Broadcast(p) \/ Rethrow(p)

Next ==
  \/ \E p \in Threads : \/ \E f \in Flags : CallOnce(p, f)
                        \/ Step(p) \/ WakeUp(p) \/ FunctionThrows(p)
  \/ Stopped

Spec == Init /\ [][Next]_vars

(* Threads keep running, functions end, and whoever wants the mutex gets it *)
(* when it is free again and again (strong fairness), though others wake up *)
(* for no reason and take it in between.  No such wakeup is relied on.      *)
FairSpec == Spec /\ \A p \in Threads : SF_vars(Step(p))

-------------------------------------------------------------------------------
(* The types of the variables; functions nest in the order of their flags.  *)
TypeOK ==
  /\ flag \in [Flags -> {"unset", "running", "set"}]
  /\ mut \in Threads \cup {NoThread} /\ mutKnows \subseteq Flags
  /\ pc \in [Threads -> {"out", "lock", "check", "wait", "run", "store", "catch",
                         "broadcast", "rethrow"}]
  /\ cur \in [Threads -> 0 .. FlagCount] /\ below \in [Threads -> Seq(Flags)]
  /\ \A p \in Threads : /\ pc[p] = "out" <=> cur[p] = 0
                        /\ \A i \in 1 .. Len(below[p]) : below[p][i] < cur[p]
  /\ knows \in [Threads -> SUBSET Flags] /\ returned \in [Threads -> SUBSET Flags]
  /\ slow \in [Threads -> SUBSET Flags]
  /\ calls \in 0 .. MaxCalls /\ throws \in 0 .. MaxThrows

Elements(s) == {s[i] : i \in 1 .. Len(s)}

(* The threads that run a function of f, up to the store that ends it.      *)
Running(f) == {p \in Threads : \/ cur[p] = f /\ pc[p] \in {"run", "store", "catch"}
                               \/ f \in Elements(below[p])}

(* A call that went through __call_once() returns with the effects of the   *)
(* function in sight, whichever thread ran it.                              *)
SlowCallsSynchronize == \A p \in Threads : slow[p] \subseteq knows[p]

(* call_once() implements Once: the runner is the thread whose function has *)
(* not been booked yet, and a flag is done when it is set and somebody has  *)
(* seen a function return.                                                  *)
O == INSTANCE Once WITH
       runner <- [f \in Flags |-> IF Running(f) = {} THEN NoThread
                                  ELSE CHOOSE p \in Running(f) : TRUE],
       done <- {f \in Flags : flag[f] = "set" /\ \E p \in Threads : f \in knows[p]}
ImplementsOnce == O!Spec

(* Every call ends: the test's "check deadlock avoidance" for functions     *)
(* that use each other's flags in one order.                                *)
CallsEnd(p) == pc[p] # "out" ~> pc[p] = "out"
===============================================================================
