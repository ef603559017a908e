----------------------------- MODULE TaskBarrier -----------------------------
(***************************************************************************)
(* What a pool of tasks promises to those who hand tasks to it and wait:   *)
(* a task is run once, after it was submitted, and a barrier lets nobody   *)
(* through while a task it counts is unfinished.                           *)
(***************************************************************************)

CONSTANTS
  Tasks,
  Waiters,
  CountedBy   (* CountedBy[c]: the tasks that the barrier of c counts *)

VARIABLES
  status,   (* status[t]: what has become of task t *)
  waiting   (* who is inside the barrier *)

vars == <<status, waiting>>

Init ==
  /\ status = [t \in Tasks |-> "new"]
  /\ waiting = {}

Submit(t) ==
  /\ status[t] = "new"
  /\ status' = [status EXCEPT ![t] = "submitted"]
  /\ UNCHANGED waiting

Run(t) ==
  /\ status[t] = "submitted"
  /\ status' = [status EXCEPT ![t] = "done"]
  /\ UNCHANGED waiting

Wait(c) ==
  /\ waiting' = waiting \cup {c}
  /\ UNCHANGED status

Return(c) ==
  /\ c \in waiting
  /\ \A t \in CountedBy[c] : status[t] # "submitted"
  /\ waiting' = waiting \ {c}
  /\ UNCHANGED status

Next ==
  \/ \E t \in Tasks : Submit(t) \/ Run(t)
  \/ \E c \in Waiters : Wait(c) \/ Return(c)

Spec == Init /\ [][Next]_vars
==============================================================================
