----------------------------- MODULE ManagedStatic -----------------------------
(***************************************************************************)
(* ManagedStatic: objects that LLVM makes at their first use, under one    *)
(* recursive mutex, and that llvm_shutdown() destroys, the last one first. *)
(* The creator of an object may use later ones, its destructor any other:  *)
(* that may make one in the middle of the shutdown.                        *)
(***************************************************************************)
EXTENDS Integers, Sequences, SequencesExt

CONSTANTS Threads, Nobody,
          Count,          (* statics are 1 .. Count                           *)
          MaxMade         (* bound: objects made                              *)

Statics == 1 .. Count
StaticsAssumption == Nobody \notin Threads /\ Count \in Nat /\ MaxMade \in Nat

VARIABLES
  Ptr,             (* the statics that have an object                         *)
  StaticList,
  holder,          (* of the mutex                                            *)
  calls,           (* what runs in each thread: <<"access", s>>: on its way   *)
                   (* to the mutex, <<"create", s>>, <<"delete", s>> or       *)
                   (* <<"shutdown", 0>>, the innermost last                   *)
  made,            (* how many objects were made                              *)
  alive,           (* ghost: how many objects of a static there are           *)
  uses             (* ghost: the statics that the creator of one used         *)

vars == <<Ptr, StaticList, holder, calls, made, alive, uses>>

Init ==
  /\ Ptr = {} /\ StaticList = << >> /\ holder = Nobody
  /\ calls = [t \in Threads |-> << >>] /\ made = 0
  /\ alive = [s \in Statics |-> 0] /\ uses = [s \in Statics |-> {}]

Top(t) == IF calls[t] = << >> THEN <<"idle", 0>> ELSE Last(calls[t])
Call(t, c) == calls' = [calls EXCEPT ![t] = Append(@, c)]
Return(t) == calls' = [calls EXCEPT ![t] = Front(@)]

(* The mutex is recursive: it goes with the last call that needs it.          *)
Needs(c) == c[1] # "access"
Unlock(t) == holder' = IF \E n \in DOMAIN calls'[t] : Needs(calls'[t][n]) THEN t ELSE Nobody

ShutDown == \E t \in Threads : calls[t] # << >> /\ calls[t][1][1] = "shutdown"

(* An accessor, in a program, in a creator or in a destructor, but never of a *)
(* static that is being made or destroyed around it.                          *)
Access(t, s) ==
  /\ ShutDown => holder = t
  /\ CASE Top(t)[1] = "idle"   -> TRUE
       [] Top(t)[1] = "create" -> s > Top(t)[2]
       [] Top(t)[1] = "delete" -> TRUE
       [] OTHER                -> FALSE
  /\ \A n \in DOMAIN calls[t] : calls[t][n][2] # s
  /\ uses' = IF Top(t)[1] = "create" THEN [uses EXCEPT ![Top(t)[2]] = @ \union {s}] ELSE uses
  /\ IF s \in Ptr THEN UNCHANGED calls ELSE made < MaxMade /\ Call(t, <<"access", s>>)
  /\ UNCHANGED <<Ptr, StaticList, holder, made, alive>>

(* RegisterManagedStatic(): it looks again under the mutex.                   *)
Register(t) ==
  LET s == Top(t)[2] IN
  /\ Top(t)[1] = "access" /\ holder \in {Nobody, t}
  /\ IF s \in Ptr
       THEN Return(t) /\ UNCHANGED <<holder, made, alive, uses>>
       ELSE /\ holder' = t /\ made' = made + 1
            /\ calls' = [calls EXCEPT ![t] = Append(Front(@), <<"create", s>>)]
            /\ alive' = [alive EXCEPT ![s] = @ + 1]
            /\ uses' = [uses EXCEPT ![s] = {}]
  /\ UNCHANGED <<Ptr, StaticList>>

AppendMutant(t) ==
  LET s == Top(t)[2] IN
  /\ Top(t)[1] = "create"
  /\ Ptr' = Ptr \union {s} /\ StaticList' = Append(StaticList, s)
  /\ Return(t) /\ Unlock(t)
  /\ UNCHANGED <<made, alive, uses>>

(* The creator has returned.                                                  *)
Created(t) ==
  LET s == Top(t)[2] IN
  /\ Top(t)[1] = "create"
  /\ Ptr' = Ptr \union {s} /\ StaticList' = <<s>> \o StaticList
  /\ Return(t) /\ Unlock(t)
  /\ UNCHANGED <<made, alive, uses>>

(* llvm_shutdown(), when no other thread uses LLVM.                           *)
Shutdown(t) ==
  /\ \A u \in Threads : calls[u] = << >>
  /\ holder' = t /\ Call(t, <<"shutdown", 0>>)
  /\ UNCHANGED <<Ptr, StaticList, made, alive, uses>>

Destroy(t) ==
  /\ Top(t)[1] = "shutdown" /\ StaticList # << >>
  /\ StaticList' = Tail(StaticList) /\ Call(t, <<"delete", Head(StaticList)>>)
  /\ UNCHANGED <<Ptr, holder, made, alive, uses>>

(* DeleterFn has returned.                                                    *)
Destroyed(t) ==
  LET s == Top(t)[2] IN
  /\ Top(t)[1] = "delete"
  /\ alive' = [alive EXCEPT ![s] = @ - 1] /\ Ptr' = Ptr \ {s}
  /\ Return(t) /\ UNCHANGED <<StaticList, holder, made, uses>>

ShutdownEnds(t) ==
  /\ Top(t)[1] = "shutdown" /\ StaticList = << >>
  /\ Return(t) /\ Unlock(t)
  /\ UNCHANGED <<Ptr, StaticList, made, alive, uses>>

Next ==
  \E t \in Threads :
    \/ (\E s \in Statics : Access(t, s)) \/ Register(t) \/ Created(t)
    \/ Shutdown(t) \/ Destroy(t) \/ Destroyed(t) \/ ShutdownEnds(t)

Spec == Init /\ [][Next]_vars

-----------------------------------------------------------------------------
(* A static has one object at a time, and an accessor that finds one finds    *)
(* one that is made and not destroyed.                                        *)
OneObject ==
  \A s \in Statics : alive[s] <= 1 /\ (s \in Ptr => alive[s] = 1)

(* What an object's creator used is there as long as the object.              *)
UsedAreThere ==
  \A s \in Ptr : \A u \in uses[s] : alive[u] = 1

StaticsGone ==
  \A t \in Threads :
    (Top(t)[1] = "shutdown" /\ calls'[t] = << >>) => \A s \in Statics : alive'[s] = 0

(* After a shutdown nothing is left, also of what destructors made.           *)
NothingLeft == [][StaticsGone]_vars
=============================================================================
