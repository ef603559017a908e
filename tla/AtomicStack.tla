------------------------------ MODULE AtomicStack ------------------------------
(***************************************************************************)
(* A stack of nodes that threads hand to each other: a node is in the      *)
(* stack or with one thread.                                               *)
(***************************************************************************)
EXTENDS Sequences

CONSTANTS Threads, Nodes

VARIABLES stack, own

Init ==
  /\ stack = << >>
  /\ own \in [Threads -> SUBSET Nodes]
  /\ \A t, u \in Threads : t # u => own[t] \intersect own[u] = {}

Push(t, n) ==
  /\ n \in own[t]
  /\ stack' = <<n>> \o stack
  /\ own' = [own EXCEPT ![t] = @ \ {n}]

Pop(t) ==
  /\ stack # << >>
  /\ stack' = Tail(stack)
  /\ own' = [own EXCEPT ![t] = @ \union {Head(stack)}]

Next == \E t \in Threads : Pop(t) \/ \E n \in Nodes : Push(t, n)

Spec == Init /\ [][Next]_<<stack, own>>
=============================================================================
