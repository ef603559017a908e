--------------------------------- MODULE Once ---------------------------------
(***************************************************************************)
(* What call_once() promises: of the functions passed with a flag one runs *)
(* at a time; one that returns is the last; one that throws is none; and a *)
(* call returns when a function has returned, whoever ran it.              *)
(***************************************************************************)
CONSTANTS Threads, Flags, NoThread

VARIABLES
  runner,    (* who runs a function of a flag *)
  done,      (* the flags of which a function has returned *)
  returned   (* the flags of which a call by a thread has returned *)

Init ==
  /\ runner = [f \in Flags |-> NoThread]
  /\ done = {}
  /\ returned = [p \in Threads |-> {}]

Run(p, f) ==
  /\ f \notin done /\ runner[f] = NoThread
  /\ runner' = [runner EXCEPT ![f] = p]
  /\ UNCHANGED <<done, returned>>

Finish(p, f) ==
  /\ runner[f] = p
  /\ runner' = [runner EXCEPT ![f] = NoThread]
  /\ done' = done \cup {f}
  /\ UNCHANGED returned

Throw(p, f) ==
  /\ runner[f] = p
  /\ runner' = [runner EXCEPT ![f] = NoThread]
  /\ UNCHANGED <<done, returned>>

Return(p, f) ==
  /\ f \in done
  /\ returned' = [returned EXCEPT ![p] = @ \cup {f}]
  /\ UNCHANGED <<runner, done>>

Next == \E p \in Threads, f \in Flags :
          Run(p, f) \/ Finish(p, f) \/ Throw(p, f) \/ Return(p, f)

Spec == Init /\ [][Next]_<<runner, done, returned>>
===============================================================================
