----------------------------- MODULE ListenerLocks -----------------------------
(***************************************************************************)
(* The mutexes of LLDB's broadcaster manager, broadcasters and listeners.  *)
(* A broadcaster and a listener know each other, each under its own mutex, *)
(* and either may be destroyed first; the manager makes the listeners that *)
(* asked for a class of broadcasters listen to each new one.  What is left *)
(* of a call is the sequence of its steps.                                 *)
(***************************************************************************)
EXTENDS Integers, Sequences, FiniteSets, SequencesExt

CONSTANTS Threads, Nobody, Manager, Listeners, Broadcasters,
          Calls,     (* the names of the calls that threads make                *)
          MaxManagers  (* bound on the entries of m_broadcaster_managers        *)

Mutexes == {Manager} \union Listeners \union Broadcasters
LocksAssumption ==
  Nobody \notin Threads /\ Cardinality(Mutexes) = 1 + Cardinality(Listeners) + Cardinality(Broadcasters)

VARIABLES
  holder, depth,   (* of a mutex, all of them recursive                        *)
  m_broadcasters,  (* of a listener                                            *)
  m_listeners,     (* of a broadcaster                                         *)
  m_broadcaster_managers,  (* of a listener: how often it names the manager    *)
  registered,      (* the listeners in the manager's map                       *)
  young,           (* the broadcasters that have not checked in                *)
  alive,           (* the broadcasters and listeners that are not destroyed    *)
  todo,            (* the steps of a thread's call that are left               *)
  name, uses       (* a thread's call, and the objects it was made with        *)

lists == <<m_broadcasters, m_listeners, m_broadcaster_managers, registered, alive>>
call == <<name, uses>>
vars == <<holder, depth, lists, young, todo, call>>

Init ==
  /\ holder = [m \in Mutexes |-> Nobody] /\ depth = [m \in Mutexes |-> 0]
  /\ m_broadcasters = [l \in Listeners |-> {}] /\ m_listeners = [b \in Broadcasters |-> {}]
  /\ m_broadcaster_managers = [l \in Listeners |-> 0]
  /\ registered = {} /\ young = Broadcasters /\ alive = Listeners \union Broadcasters
  /\ todo = [t \in Threads |-> << >>] /\ uses = [t \in Threads |-> {}]
  /\ name = [t \in Threads |-> ""]

Under(m, steps) == <<<<"lock", m>>>> \o steps \o <<<<"unlock", m>>>>
ForAll(S, Steps(_)) == FlattenSeq([n \in DOMAIN SetToSeq(S) |-> Steps(SetToSeq(S)[n])])

Drop(l, b) == Under(b, <<<<"remove", l, b>>>>)
StartListening(l, b) == Under(l, <<<<"insert", l, b>>>>) \o Under(b, <<<<"add", l, b>>>>)
StopListening(l, b) == Under(l, <<<<"erase", l, b>>>>) \o Drop(l, b)
StartSpecMutant(l) == Under(l, Under(Manager, <<<<"register", l>>>>))
StartSpec(l) == Under(Manager, Under(l, <<<<"register", l>>>>))
StopSpec(l) == Under(l, Under(Manager, <<<<"unregister", l>>>>))
CheckIn(b) == Under(Manager, <<<<"signup", b>>>>) \o <<<<"ready", b>>>>
DestroyBroadcaster(b) == Under(b, <<<<"tell", b>>, <<"gone", b>>>>)
DestroyListener(l) == Under(l, <<<<"manager", l>>, <<"leave", l>>, <<"gone", l>>>>)

(* A thread calls with objects that live; a broadcaster is used by others when *)
(* it has checked in.  Nobody destroys what another call was made with, no two *)
(* threads call with the same listener and broadcaster at a time, and none     *)
(* checks in twice.                                                            *)
Destroys(steps) == \E n \in DOMAIN steps : steps[n][1] = "gone"
Begin(t, called, objects, steps) ==
  /\ called \in Calls /\ todo[t] = << >> /\ objects \subseteq alive
  /\ \A u \in Threads : todo[u] # << >> =>
       /\ uses[u] # objects \/ objects \subseteq Listeners
       /\ Destroys(steps) \/ Destroys(todo[u]) => uses[u] \intersect objects = {}
  /\ todo' = [todo EXCEPT ![t] = steps] /\ uses' = [uses EXCEPT ![t] = objects]
  /\ name' = [name EXCEPT ![t] = called]
  /\ UNCHANGED <<holder, depth, lists, young>>

Call(t) ==
  \/ \E b \in young : Begin(t, "CheckIn", {b}, CheckIn(b))
  \/ \E l \in Listeners, b \in Broadcasters \ young :
       \/ Begin(t, "StartListening", {l, b}, StartListening(l, b))
       \/ Begin(t, "StopListening", {l, b}, StopListening(l, b))
  \/ \E l \in Listeners :
       \/ m_broadcaster_managers[l] < MaxManagers /\ Begin(t, "StartSpec", {l}, StartSpec(l))
       \/ Begin(t, "StopSpec", {l}, StopSpec(l))
       \/ Begin(t, "DestroyListener", {l}, DestroyListener(l))
  \/ \E b \in Broadcasters \ young : Begin(t, "DestroyBroadcaster", {b}, DestroyBroadcaster(b))

Op(t) == Head(todo[t])[1]
Arg(t) == Head(todo[t])[2]
Then(t, steps) ==
  /\ todo' = [todo EXCEPT ![t] = steps \o Tail(@)]
  /\ uses' = [uses EXCEPT ![t] = IF todo'[t] = << >> THEN {} ELSE @]
  /\ name' = [name EXCEPT ![t] = IF todo'[t] = << >> THEN "" ELSE @]

Lock(t) ==
  /\ todo[t] # << >> /\ Op(t) = "lock" /\ holder[Arg(t)] \in {Nobody, t}
  /\ holder' = [holder EXCEPT ![Arg(t)] = t] /\ depth' = [depth EXCEPT ![Arg(t)] = @ + 1]
  /\ Then(t, << >>) /\ UNCHANGED <<lists, young>>

Unlock(t) ==
  /\ todo[t] # << >> /\ Op(t) = "unlock"
  /\ depth' = [depth EXCEPT ![Arg(t)] = @ - 1]
  /\ holder' = [holder EXCEPT ![Arg(t)] = IF depth[Arg(t)] = 1 THEN Nobody ELSE t]
  /\ Then(t, << >>) /\ UNCHANGED <<lists, young>>

(* What is done under a mutex.  A listener that is in the manager's map gets no *)
(* bits when it asks again, and no entry of m_broadcaster_managers is ever     *)
(* taken back.                                                                 *)
Change(t) ==
  LET a == Arg(t)  b == Head(todo[t])[3] IN
  /\ todo[t] # << >>
  /\ \/ /\ Op(t) = "insert" /\ m_broadcasters' = [m_broadcasters EXCEPT ![a] = @ \union {b}]
        /\ UNCHANGED <<m_listeners, m_broadcaster_managers, registered>>
     \/ /\ Op(t) = "erase"  /\ m_broadcasters' = [m_broadcasters EXCEPT ![a] = @ \ {b}]
        /\ UNCHANGED <<m_listeners, m_broadcaster_managers, registered>>
     \/ /\ Op(t) = "add"    /\ m_listeners' = [m_listeners EXCEPT ![b] = @ \union {a}]
        /\ UNCHANGED <<m_broadcasters, m_broadcaster_managers, registered>>
     \/ /\ Op(t) = "remove" /\ m_listeners' = [m_listeners EXCEPT ![b] = @ \ {a}]
        /\ UNCHANGED <<m_broadcasters, m_broadcaster_managers, registered>>
     \/ /\ Op(t) = "register"
        /\ m_broadcaster_managers' =
             [m_broadcaster_managers EXCEPT ![a] = IF a \in registered THEN @ ELSE @ + 1]
        /\ registered' = registered \union {a}
        /\ UNCHANGED <<m_broadcasters, m_listeners>>
     \/ /\ Op(t) = "unregister" /\ registered' = registered \ {a}
        /\ UNCHANGED <<m_broadcasters, m_listeners, m_broadcaster_managers>>
  /\ Then(t, << >>) /\ UNCHANGED <<holder, depth, young, alive>>

(* The loops, over what the lists hold when they begin.                        *)
Loop(t) ==
  LET a == Arg(t) IN
  /\ todo[t] # << >>
  /\ \/ Op(t) = "signup"  /\ Then(t, ForAll(registered, LAMBDA l : StartListening(l, a)))
     \/ Op(t) = "tell"    /\ Then(t, ForAll(m_listeners[a], LAMBDA l : Under(l, <<<<"erase", l, a>>>>)))
     \/ Op(t) = "manager" /\ Then(t, ForAll(1 .. m_broadcaster_managers[a],
                                            LAMBDA n : Under(Manager, <<<<"unregister", a>>>>)))
     \/ Op(t) = "leave"   /\ Then(t, ForAll(m_broadcasters[a], LAMBDA b : Drop(a, b)))
  /\ UNCHANGED <<holder, depth, lists, young>>

Ready(t) ==
  /\ todo[t] # << >> /\ Op(t) = "ready" /\ young' = young \ {Arg(t)}
  /\ Then(t, << >>) /\ UNCHANGED <<holder, depth, lists>>

Gone(t) ==
  LET a == Arg(t) IN
  /\ todo[t] # << >> /\ Op(t) = "gone" /\ alive' = alive \ {a}
  /\ m_listeners' = [b \in Broadcasters |-> IF b = a THEN {} ELSE m_listeners[b]]
  /\ m_broadcasters' = [l \in Listeners |-> IF l = a THEN {} ELSE m_broadcasters[l]]
  /\ Then(t, << >>) /\ UNCHANGED <<holder, depth, m_broadcaster_managers, registered, young>>

Step(t) == Lock(t) \/ Unlock(t) \/ Change(t) \/ Loop(t) \/ Ready(t) \/ Gone(t)
Next == \E t \in Threads : Call(t) \/ Step(t)
Spec == Init /\ [][Next]_vars /\ \A t \in Threads : SF_vars(Step(t))

-----------------------------------------------------------------------------
Blocked(t) == todo[t] # << >> /\ Op(t) = "lock" /\ holder[Arg(t)] \notin {Nobody, t}

(* t holds what u wants, and the other way round.                              *)
Stuck(t, u) == Blocked(t) /\ Blocked(u) /\ holder[Arg(t)] = u /\ holder[Arg(u)] = t

(* The circular waits of the code: a call that holds a listener's mutex and    *)
(* wants the manager's, against one that holds the manager's and wants the     *)
(* listener's; and the destructors of both sides, each with its own mutex.     *)
Hierarchy(t, u) ==
  /\ name[t] \in {"StopSpec", "DestroyListener"} /\ Arg(t) = Manager
  /\ name[u] \in {"StartSpec", "CheckIn"} /\ Arg(u) \in uses[t]
Destructors(t, u) ==
  /\ name[t] = "DestroyListener" /\ Arg(t) \in uses[u]
  /\ name[u] = "DestroyBroadcaster" /\ Arg(u) \in uses[t]

(* There is no other: as long as none of these two has happened, one of the    *)
(* threads that are in a call can go on.                                       *)
NoOtherDeadlock ==
  LET calling == {t \in Threads : todo[t] # << >>} IN
  (calling # {} /\ \A t \in calling : Blocked(t)) =>
    \E t, u \in calling : Stuck(t, u) /\ (Hierarchy(t, u) \/ Destructors(t, u))

(* Every call returns.                                                         *)
CallsReturn == \A t \in Threads : todo[t] # << >> ~> todo[t] = << >>

(* Between calls a listener and a broadcaster know each other or neither does, *)
(* none that is destroyed is known, also to the manager, and at no time is the *)
(* mutex of one that is destroyed locked.                                      *)
KnowEachOther ==
  /\ (\A t \in Threads : todo[t] = << >>) =>
       /\ registered \subseteq alive
       /\ \A l \in Listeners, b \in Broadcasters :
            /\ l \in m_listeners[b] <=> b \in m_broadcasters[l]
            /\ l \in m_listeners[b] => {l, b} \subseteq alive
  /\ \A t \in Threads :
       todo[t] # << >> /\ Op(t) = "lock" => Arg(t) \in {Manager} \union alive
=============================================================================
