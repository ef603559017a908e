-------------------------- MODULE ReadersWriterLock --------------------------
(***************************************************************************)
(* What every reader-writer lock of the runtimes promises, whatever words  *)
(* or condition variables it is built from: a thread holds the lock in     *)
(* write mode alone, or in read mode together with other readers.          *)
(***************************************************************************)

CONSTANT Threads

VARIABLE mode    (* mode[t] is how thread t holds the lock. *)

Modes == {"none", "read", "write"}

Init == mode = [t \in Threads |-> "none"]

AcquireWrite(t) ==
  /\ \A u \in Threads : mode[u] = "none"
  /\ mode' = [mode EXCEPT ![t] = "write"]

AcquireRead(t) ==
  /\ mode[t] = "none"
  /\ \A u \in Threads : mode[u] # "write"
  /\ mode' = [mode EXCEPT ![t] = "read"]

Release(t) ==
  /\ mode[t] # "none"
  /\ mode' = [mode EXCEPT ![t] = "none"]

Next == \E t \in Threads : AcquireWrite(t) \/ AcquireRead(t) \/ Release(t)

Spec == Init /\ [][Next]_mode
==============================================================================
