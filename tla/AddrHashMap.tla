------------------------------ MODULE AddrHashMap ------------------------------
(***************************************************************************)
(* One bucket of the sanitizers' concurrent map from addresses to data.    *)
(* Its first cells are searched without a lock, one load after the other;  *)
(* the array of more cells under a reader lock.  Who makes or removes an   *)
(* element holds the writer lock from the Handle's constructor to its      *)
(* destructor; who finds one among the first cells holds nothing.          *)
(***************************************************************************)
EXTENDS Integers, Sequences

CONSTANTS Threads, Nobody,
          Addrs,           (* addresses, other than 0                         *)
          BucketSize,      (* kBucketSize                                     *)
          InitCap,         (* room in the first array                         *)
          UserExcludes,    (* callers see to it that nobody uses an element   *)
                           (* that is being removed                           *)
          MaxOps           (* bound: handles that threads open together       *)

AddrHashMapAssumption ==
  /\ Nobody \notin Threads /\ 0 \notin Addrs
  /\ BucketSize \in Nat \ {0} /\ InitCap \in Nat \ {0}
  /\ UserExcludes \in BOOLEAN /\ MaxOps \in Nat

VARIABLES
  cells, vals,        (* the first cells: addresses, and data (an address's   *)
                      (* data is its address once it is initialized)          *)
  add, cap,           (* the array, a sequence of [addr, val]; 0 or its room  *)
  writer, readers,    (* the bucket's RWMutex                                 *)
  pc, h, i,           (* a handle [addr, remove, create]; the cell read next  *)
  cell, created,      (* what the handle has: <<"none">>, <<"embed", n>> or   *)
                      (* <<"add", n>>                                         *)
  ops

vars == <<cells, vals, add, cap, writer, readers, pc, h, i, cell, created, ops>>
table == <<cells, vals, add, cap>>
lock == <<writer, readers>>

NoCell == <<"none">>
NoHandle == [addr |-> 0, remove |-> FALSE, create |-> FALSE]

Init ==
  /\ cells = [n \in 1 .. BucketSize |-> 0] /\ vals = [n \in 1 .. BucketSize |-> 0]
  /\ add = << >> /\ cap = 0
  /\ writer = Nobody /\ readers = {}
  /\ pc = [t \in Threads |-> "out"] /\ h = [t \in Threads |-> NoHandle]
  /\ i = [t \in Threads |-> 1] /\ cell = [t \in Threads |-> NoCell]
  /\ created = [t \in Threads |-> FALSE] /\ ops = 0

Goto(t, l) == pc' = [pc EXCEPT ![t] = l]
Find(t, c) == cell' = [cell EXCEPT ![t] = c]
Free == writer = Nobody /\ readers = {}

(* The address that a handle's cell has.                                      *)
AddrOf(c) == IF c[1] = "embed" THEN cells[c[2]] ELSE add[c[2]].addr

Begin(t) ==
  /\ pc[t] = "out" /\ ops < MaxOps /\ ops' = ops + 1
  /\ \E a \in Addrs, r, c \in BOOLEAN :
       /\ h' = [h EXCEPT ![t] = [addr |-> a, remove |-> r, create |-> c]]
       /\ \A u \in Threads \ {t} :
            UserExcludes /\ h[u].addr = a => ~r /\ ~h[u].remove
       /\ Goto(t, IF r THEN "lock" ELSE "embed")
  /\ i' = [i EXCEPT ![t] = 1]
  /\ created' = [created EXCEPT ![t] = FALSE] /\ Find(t, NoCell)
  /\ UNCHANGED <<table, lock>>

(* The search of the first cells, one acquire load each.                      *)
ReadCell(t) ==
  /\ pc[t] = "embed"
  /\ \/ /\ cells[i[t]] = h[t].addr
        /\ Find(t, <<"embed", i[t]>>) /\ Goto(t, "use") /\ UNCHANGED i
     \/ /\ cells[i[t]] # h[t].addr /\ UNCHANGED cell
        /\ IF i[t] < BucketSize THEN i' = [i EXCEPT ![t] = @ + 1] /\ UNCHANGED pc
           ELSE i' = [i EXCEPT ![t] = 1] /\ Goto(t, IF cap > 0 THEN "add" ELSE "lock")
  /\ UNCHANGED <<table, lock, h, created, ops>>

InAdd(a) == {n \in DOMAIN add : add[n].addr = a}
InCells(a) == {n \in DOMAIN cells : cells[n] = a}

(* The array, whole, under the reader lock, which a handle that finds its     *)
(* element keeps.                                                             *)
ReadAdd(t) ==
  /\ pc[t] = "add" /\ writer = Nobody
  /\ \/ \E n \in InAdd(h[t].addr) :
          Find(t, <<"add", n>>) /\ Goto(t, "use") /\ readers' = readers \union {t}
     \/ InAdd(h[t].addr) = {} /\ Goto(t, "lock") /\ UNCHANGED <<cell, readers>>
  /\ UNCHANGED <<table, writer, h, i, created, ops>>

(* The search under the writer lock: an element that is there is taken to be  *)
(* removed, or searched for again; one that is not is made or not.            *)
Place(t) ==
  \/ \E n \in InCells(0) :
       /\ \A m \in InCells(0) : n <= m
       /\ Find(t, <<"embed", n>>) /\ UNCHANGED <<add, cap>>
  \/ /\ InCells(0) = {}
     /\ Find(t, <<"add", Len(add) + 1>>)
     /\ add' = Append(add, [addr |-> 0, val |-> 0])
     /\ cap' = IF cap = 0 THEN InitCap ELSE IF Len(add) = cap THEN 2 * cap ELSE cap

Locked(t) ==
  LET a == h[t].addr
      there == InCells(a) # {} \/ InAdd(a) # {} IN
  /\ pc[t] = "lock" /\ Free
  /\ \/ /\ h[t].remove /\ there
        /\ \/ \E n \in InCells(a) : Find(t, <<"embed", n>>)
           \/ InCells(a) = {} /\ \E n \in InAdd(a) : Find(t, <<"add", n>>)
        /\ writer' = t /\ Goto(t, "use") /\ UNCHANGED <<add, cap, created>>
     \/ /\ ~h[t].remove /\ there
        /\ Goto(t, "embed") /\ UNCHANGED <<cell, writer, add, cap, created>>
     \/ /\ ~there /\ (h[t].remove \/ ~h[t].create)
        /\ Goto(t, "use") /\ UNCHANGED <<cell, writer, add, cap, created>>
     \/ /\ ~there /\ ~h[t].remove /\ h[t].create
        /\ created' = [created EXCEPT ![t] = TRUE] /\ Place(t)
        /\ writer' = t /\ Goto(t, "use")
  /\ UNCHANGED <<cells, vals, readers, h, i, ops>>

Finish(t) ==
  /\ Goto(t, "out") /\ h' = [h EXCEPT ![t] = NoHandle]
  /\ Find(t, NoCell) /\ i' = [i EXCEPT ![t] = 1] /\ UNCHANGED <<created, ops>>

(* release(): nothing found; something found.                                 *)
ReleaseFound(t) ==
  /\ pc[t] = "use" /\ ~created[t] /\ (cell[t] = NoCell \/ ~h[t].remove)
  /\ readers' = readers \ {t}
  /\ Finish(t) /\ UNCHANGED <<table, writer>>

(* The maker fills the element in, and makes it visible.                      *)
Write(t) ==
  /\ pc[t] = "use" /\ created[t]
  /\ LET a == h[t].addr n == cell[t][2] IN
       IF cell[t][1] = "embed"
       THEN vals' = [vals EXCEPT ![n] = a] /\ UNCHANGED add
       ELSE add' = [add EXCEPT ![n].val = a] /\ UNCHANGED vals
  /\ Goto(t, "publish")
  /\ UNCHANGED <<cells, cap, lock, h, i, cell, created, ops>>

ReleaseCreated(t) ==
  /\ pc[t] = "publish"
  /\ LET n == cell[t][2] IN
       IF cell[t][1] = "embed"
       THEN cells' = [cells EXCEPT ![n] = h[t].addr] /\ UNCHANGED add
       ELSE add' = [add EXCEPT ![n].addr = h[t].addr] /\ UNCHANGED cells
  /\ writer' = Nobody /\ Finish(t) /\ UNCHANGED <<vals, cap, readers>>

(* The remover empties the cell; the last element of the array takes its      *)
(* place.  In a first cell these are three stores that others may see.        *)
RemoveAdd(t) ==
  /\ pc[t] = "use" /\ h[t].remove /\ cell[t][1] = "add"
  /\ add' = SubSeq([add EXCEPT ![cell[t][2]] = add[Len(add)]], 1, Len(add) - 1)
  /\ writer' = Nobody /\ Finish(t) /\ UNCHANGED <<cells, vals, cap, readers>>

RemoveCell(t) ==
  /\ pc[t] = "use" /\ h[t].remove /\ cell[t][1] = "embed"
  /\ cells' = [cells EXCEPT ![cell[t][2]] = 0]
  /\ Goto(t, "moveVal")
  /\ UNCHANGED <<vals, add, cap, lock, h, i, cell, created, ops>>

MoveAddrFirstMutant(t) ==
  /\ pc[t] = "moveVal"
  /\ IF add = << >> THEN UNCHANGED cells
     ELSE cells' = [cells EXCEPT ![cell[t][2]] = add[Len(add)].addr]
  /\ Goto(t, "moveAddr")
  /\ UNCHANGED <<vals, add, cap, lock, h, i, cell, created, ops>>

MoveVal(t) ==
  /\ pc[t] = "moveVal"
  /\ IF add = << >> THEN UNCHANGED vals
     ELSE vals' = [vals EXCEPT ![cell[t][2]] = add[Len(add)].val]
  /\ Goto(t, "moveAddr")
  /\ UNCHANGED <<cells, add, cap, lock, h, i, cell, created, ops>>

MoveAddr(t) ==
  /\ pc[t] = "moveAddr"
  /\ IF add = << >> THEN UNCHANGED <<cells, add>>
     ELSE /\ cells' = [cells EXCEPT ![cell[t][2]] = add[Len(add)].addr]
          /\ add' = SubSeq(add, 1, Len(add) - 1)
  /\ writer' = Nobody /\ Finish(t) /\ UNCHANGED <<vals, cap, readers>>

Done == ops = MaxOps /\ (\A t \in Threads : pc[t] = "out") /\ UNCHANGED vars

Next ==
  \/ \E t \in Threads :
       \/ Begin(t) \/ ReadCell(t) \/ ReadAdd(t) \/ Locked(t)
       \/ ReleaseFound(t) \/ Write(t) \/ ReleaseCreated(t)
       \/ RemoveAdd(t) \/ RemoveCell(t) \/ MoveVal(t) \/ MoveAddr(t)
  \/ Done

Spec == Init /\ [][Next]_vars

-----------------------------------------------------------------------------
(* An address has one element, when nobody changes the bucket.                *)
ElementsOnce ==
  writer = Nobody => \A a \in Addrs :
    /\ InCells(a) = {} \/ InAdd(a) = {}
    /\ \A m, n \in InCells(a) \union InAdd(a) : m = n

(* A handle that found an element keeps finding it, initialized, whatever is  *)
(* added, moved or removed meanwhile.                                         *)
HandlesHold ==
  \A t \in Threads :
    pc[t] = "use" /\ cell[t] # NoCell /\ ~created[t] =>
      /\ AddrOf(cell[t]) = h[t].addr
      /\ h[t].addr = IF cell[t][1] = "embed" THEN vals[cell[t][2]] ELSE add[cell[t][2]].val

(* Who makes or removes an element is alone with it.                          *)
Exclusive ==
  \A t, u \in Threads :
    (/\ t # u /\ cell[t] # NoCell /\ pc[u] \in {"use", "publish"}
     /\ pc[t] \in {"use", "publish"} /\ (created[t] \/ h[t].remove))
    => cell[t] # cell[u]
=============================================================================
