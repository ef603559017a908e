-------------------------------- MODULE LFStack --------------------------------
(***************************************************************************)
(* LFStack, the lock-free stack of free chunks of the sanitizers: its head *)
(* is one word with a pointer and a counter of pushes, which wraps.  Pop() *)
(* reads the link of a node that another thread may have popped meanwhile  *)
(* and may be writing to: whoever has a node writes what it likes to its   *)
(* link.                                                                   *)
(***************************************************************************)
EXTENDS Integers, Sequences

CONSTANTS Threads, Nodes, Null,
          CounterMod        (* 2^kCounterBits                                 *)

LFStackAssumption ==
  /\ Null \notin Nodes
  /\ CounterMod \in Nat \ {0, 1}

VARIABLES
  head,      (* head_: its pointer and its counter                            *)
  next,      (* the links of the nodes                                        *)
  own,       (* the nodes each thread has                                     *)
  pc, item,  (* where a thread is; the node it pushes                         *)
  cmp, nxt,  (* its locals                                                    *)
  missed,    (* ghost: the pushes since it read head_ to pop                  *)
  stack      (* ghost: the nodes pushed and not popped                        *)

vars == <<head, next, own, pc, item, cmp, nxt, missed, stack>>

Pointers == Nodes \union {Null}
Init ==
  /\ head = [ptr |-> Null, cnt |-> 0] /\ stack = << >>
  /\ next \in [Nodes -> Pointers]
  /\ own \in [Threads -> SUBSET Nodes]
  /\ \A t, u \in Threads : t # u => own[t] \intersect own[u] = {}
  /\ pc = [t \in Threads |-> "out"] /\ item = [t \in Threads |-> Null]
  /\ cmp = [t \in Threads |-> head] /\ nxt = [t \in Threads |-> Null]
  /\ missed = [t \in Threads |-> 0]

Goto(t, l) == pc' = [pc EXCEPT ![t] = l]

(* cmp = head_                                                                *)
Load(t) ==
  /\ cmp' = [cmp EXCEPT ![t] = head]
  /\ missed' = [missed EXCEPT ![t] = 0]

(* Bound: less than CounterMod pushes while a thread pops.                    *)
Popping(t) == pc[t] \in {"read", "pop"}
NoWrap == \A t \in Threads : Popping(t) => missed[t] < CounterMod - 1
CountPush == missed' = [t \in Threads |-> IF Popping(t) THEN missed[t] + 1 ELSE 0]

(* The owner of a node writes to it.                                          *)
Use(t, n) ==
  /\ n \in own[t] /\ pc[t] = "out"
  /\ \E p \in Pointers : next' = [next EXCEPT ![n] = p]
  /\ UNCHANGED <<head, own, pc, item, cmp, nxt, missed, stack>>

PushBegin(t, n) ==
  /\ pc[t] = "out" /\ n \in own[t]
  /\ item' = [item EXCEPT ![t] = n]
  /\ Load(t) /\ Goto(t, "link")
  /\ UNCHANGED <<head, next, own, nxt, stack>>

(* p->next = cmp's pointer                                                    *)
PushLink(t) ==
  /\ pc[t] = "link"
  /\ next' = [next EXCEPT ![item[t]] = cmp[t].ptr]
  /\ Goto(t, "push")
  /\ UNCHANGED <<head, own, item, cmp, nxt, missed, stack>>

Pushed(t) ==
  /\ own' = [own EXCEPT ![t] = @ \ {item[t]}]
  /\ stack' = <<item[t]>> \o stack
  /\ Goto(t, "out")
  /\ UNCHANGED <<next, item, nxt>>

PushRelinkMutant(t) ==
  /\ pc[t] = "push" /\ NoWrap
  /\ \/ /\ head = cmp[t]
        /\ head' = [ptr |-> item[t],
                    cnt |-> IF cmp[t].cnt = CounterMod - 1 THEN 0 ELSE cmp[t].cnt + 1]
        /\ CountPush
        /\ Pushed(t) /\ UNCHANGED cmp
     \/ /\ Load(t)
        /\ UNCHANGED <<pc, head, next, own, item, nxt, stack>>

(* The compare-and-swap, which may fail although the values are equal.        *)
PushSwap(t) ==
  /\ pc[t] = "push" /\ NoWrap
  /\ \/ /\ head = cmp[t]
        /\ head' = [ptr |-> item[t],
                    cnt |-> IF cmp[t].cnt = CounterMod - 1 THEN 0 ELSE cmp[t].cnt + 1]
        /\ CountPush
        /\ Pushed(t) /\ UNCHANGED cmp
     \/ /\ Load(t) /\ Goto(t, "link")
        /\ UNCHANGED <<head, next, own, item, nxt, stack>>

PopBegin(t) ==
  /\ pc[t] = "out"
  /\ Load(t) /\ Goto(t, "read")
  /\ UNCHANGED <<head, next, own, item, nxt, stack>>

(* Null means empty; else nxt = cur->next.                                    *)
PopRead(t) ==
  /\ pc[t] = "read"
  /\ IF cmp[t].ptr = Null THEN Goto(t, "out") /\ UNCHANGED nxt
     ELSE nxt' = [nxt EXCEPT ![t] = next[cmp[t].ptr]] /\ Goto(t, "pop")
  /\ UNCHANGED <<head, next, own, item, cmp, missed, stack>>

Popped(t) ==
  /\ own' = [own EXCEPT ![t] = @ \union {cmp[t].ptr}]
  /\ stack' = IF stack = << >> THEN << >> ELSE Tail(stack)
  /\ Goto(t, "out")
  /\ UNCHANGED <<next, item, cmp, nxt, missed>>

PopSwap(t) ==
  /\ pc[t] = "pop"
  /\ \/ /\ head = cmp[t]
        /\ head' = [ptr |-> nxt[t], cnt |-> cmp[t].cnt]
        /\ Popped(t)
     \/ /\ Load(t) /\ Goto(t, "read")
        /\ UNCHANGED <<head, next, own, item, nxt, stack>>

Step(t) ==
  \/ \E n \in Nodes : Use(t, n) \/ PushBegin(t, n)
  \/ PushLink(t) \/ PushSwap(t)
  \/ PopBegin(t) \/ PopRead(t) \/ PopSwap(t)

Next == \E t \in Threads : Step(t)

Spec == Init /\ [][Next]_vars

-----------------------------------------------------------------------------
(* The links from head_ lead through the pushed nodes, the last one first,    *)
(* and end there.                                                             *)
Linked ==
  /\ head.ptr = (IF stack = << >> THEN Null ELSE stack[1])
  /\ \A i \in 1 .. Len(stack) :
       next[stack[i]] = (IF i = Len(stack) THEN Null ELSE stack[i + 1])

(* A node is at one place in the stack, or with one thread: no chunk is given *)
(* to two users.                                                              *)
NodesOnce ==
  /\ \A i, j \in 1 .. Len(stack) : stack[i] = stack[j] => i = j
  /\ \A t \in Threads, i \in 1 .. Len(stack) : stack[i] \notin own[t]
  /\ \A t, u \in Threads : t # u => own[t] \intersect own[u] = {}

(* The stack works as if each operation were one step.                        *)
Atomic == INSTANCE AtomicStack
ImplementsAtomicStack == Atomic!Spec
=============================================================================
