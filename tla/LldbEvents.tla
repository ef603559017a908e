------------------------------ MODULE LldbEvents ------------------------------
(***************************************************************************)
(* LLDB's events.  A broadcaster puts an event on the queues of its        *)
(* listeners, or of the listener that has hijacked it; the thread of a     *)
(* listener waits on a flag beside its queue.  A packet exchange with a    *)
(* gdb server hijacks the notifications that come in the middle of it.     *)
(***************************************************************************)
EXTENDS Integers, Sequences, SequencesExt

CONSTANTS Broadcasters, Types,
          Listeners,        (* that start listening to all that is broadcast   *)
          Hijacker,         (* the listener of the exchanges                   *)
          Threads, Nobody,
          Unique,           (* do threads call BroadcastEventIfUnique()?       *)
          MayStop,          (* may listeners stop listening?                   *)
          Exchanges,        (* bound: packet exchanges of a thread             *)
          MaxEvents         (* bound: events                                   *)

EventsAssumption ==
  /\ Hijacker \notin Listeners /\ Nobody \notin Threads
  /\ Unique \in BOOLEAN /\ MayStop \in BOOLEAN /\ Exchanges \in Nat /\ MaxEvents \in Nat

Queues == Listeners \union {Hijacker}
VARIABLES
  alive,           (* the broadcasters that are not destroyed                  *)
  m_listeners,     (* of a broadcaster                                         *)
  hijacks,         (* the height of the stack of hijacking listeners           *)
  lock,            (* m_listeners_mutex of a broadcaster                       *)
  m_events, m_cond_wait,    (* of a listener                                   *)
  pc, job,         (* of a thread: the event it broadcasts, and to whom        *)
  exchanged,
  wait,            (* where the thread of a listener is in                     *)
  filter,          (* WaitForEventsInternal(), and from whom it wants events   *)
  made,
  taken,           (* ghost: what a listener has taken, in order               *)
  crowded          (* ghost: were two events hijacked at a time?               *)

vars == <<alive, m_listeners, hijacks, lock, m_events, m_cond_wait, pc, job, exchanged,
          wait, filter, made, taken, crowded>>
sending == <<alive, m_listeners, hijacks, lock, pc, job, exchanged, made>>
waiting == <<wait, filter, taken, crowded>>

Init ==
  /\ alive = Broadcasters /\ m_listeners = [b \in Broadcasters |-> Listeners]
  /\ hijacks = [b \in Broadcasters |-> 0] /\ lock = [b \in Broadcasters |-> Nobody]
  /\ m_events = [q \in Queues |-> << >>] /\ m_cond_wait = [q \in Queues |-> FALSE]
  /\ pc = [t \in Threads |-> "idle"] /\ job = [t \in Threads |-> [to |-> {}]]
  /\ exchanged = [t \in Threads |-> 0]
  /\ wait = [l \in Listeners |-> "idle"] /\ filter = [l \in Listeners |-> {}]
  /\ made = 0 /\ taken = [l \in Listeners |-> << >>]
  /\ crowded = FALSE

Goto(t, label) == pc' = [pc EXCEPT ![t] = label]
Like(e, f) == f.from = e.from /\ f.type = e.type

UnlockedMutant(t, e) ==
  /\ lock' = lock /\ Goto(t, "pick")
  /\ job' = [job EXCEPT ![t] =
       [to |-> IF hijacks[e.from] > 0 THEN {Hijacker} ELSE m_listeners[e.from],
        event |-> e, last |-> Hijacker]]

(* PrivateBroadcastEvent(): the receivers are chosen under the mutex.          *)
Broadcast(t, e) ==
  /\ lock[e.from] = Nobody /\ lock' = [lock EXCEPT ![e.from] = t] /\ Goto(t, "pick")
  /\ job' = [job EXCEPT ![t] =
       [to |-> IF hijacks[e.from] > 0 THEN {Hijacker} ELSE m_listeners[e.from],
        event |-> e, last |-> Hijacker]]

Send(t) ==
  /\ pc[t] = "idle" /\ made < MaxEvents /\ made' = made + 1
  /\ \E b \in alive, k \in Types : Broadcast(t, [from |-> b, type |-> k, id |-> made + 1])
  /\ UNCHANGED <<alive, m_listeners, hijacks, m_events, m_cond_wait, exchanged, waiting>>

(* The next receiver, unless the event is to be the only one of its kind.      *)
Pick(t) ==
  /\ pc[t] = "pick"
  /\ \E q \in job[t].to :
       /\ job' = [job EXCEPT ![t].to = @ \ {q}, ![t].last = q]
       /\ IF Unique /\ \E n \in DOMAIN m_events[q] : Like(job[t].event, m_events[q][n])
            THEN UNCHANGED pc
            ELSE Goto(t, "add")
  /\ UNCHANGED <<alive, m_listeners, hijacks, lock, m_events, m_cond_wait, exchanged, made, waiting>>

(* AddEvent().                                                                 *)
Add(t) ==
  /\ pc[t] = "add" /\ Goto(t, "wake")
  /\ m_events' = [m_events EXCEPT ![job[t].last] = Append(@, job[t].event)]
  /\ crowded' = (crowded \/ (job[t].last = Hijacker /\ m_events[Hijacker] # << >>))
  /\ UNCHANGED <<alive, m_listeners, hijacks, lock, m_cond_wait, job, exchanged, made, wait, filter,
                 taken>>

(* The flag is set when the queue is unlocked again.                           *)
Wake(t) ==
  /\ pc[t] = "wake" /\ m_cond_wait' = [m_cond_wait EXCEPT ![job[t].last] = TRUE]
  /\ Goto(t, "pick")
  /\ UNCHANGED <<alive, m_listeners, hijacks, lock, m_events, job, exchanged, made, waiting>>

Sent(t) ==
  /\ pc[t] = "pick" /\ job[t].to = {}
  /\ lock' = [lock EXCEPT ![job[t].event.from] = Nobody] /\ Goto(t, "idle")
  /\ UNCHANGED <<alive, m_listeners, hijacks, m_events, m_cond_wait, job, exchanged, made, waiting>>

-----------------------------------------------------------------------------
(* WaitForEventsInternal(), for any event or for those of one broadcaster.     *)
Wait(l) ==
  /\ wait[l] = "idle" /\ wait' = [wait EXCEPT ![l] = "poll"]
  /\ \E f \in {Broadcasters} \union {{b} : b \in alive} : filter' = [filter EXCEPT ![l] = f]
  /\ UNCHANGED <<sending, m_events, m_cond_wait, taken, crowded>>

Wanted(l) == {n \in DOMAIN m_events[l] : m_events[l][n].from \in filter[l]}
First(S) == CHOOSE n \in S : \A m \in S : n <= m

(* FindNextEventInternal() with remove.                                        *)
Poll(l) ==
  /\ wait[l] = "poll"
  /\ IF Wanted(l) = {}
       THEN wait' = [wait EXCEPT ![l] = "check"] /\ UNCHANGED <<m_events, m_cond_wait, taken>>
       ELSE LET n == First(Wanted(l)) IN
            /\ m_events' = [m_events EXCEPT ![l] = RemoveAt(@, n)]
            /\ m_cond_wait' = [m_cond_wait EXCEPT ![l] = @ /\ m_events'[l] # << >>]
            /\ taken' = [taken EXCEPT ![l] = Append(@, m_events[l][n])]
            /\ wait' = [wait EXCEPT ![l] = "idle"]
  /\ UNCHANGED <<sending, filter, crowded>>

(* It looks again before it resets the flag, with the queue locked.            *)
Check(l) ==
  /\ wait[l] = "check"
  /\ IF Wanted(l) # {}
       THEN wait' = [wait EXCEPT ![l] = "poll"] /\ UNCHANGED m_cond_wait
       ELSE wait' = [wait EXCEPT ![l] = "sleep"] /\ m_cond_wait' = [m_cond_wait EXCEPT ![l] = FALSE]
  /\ UNCHANGED <<sending, m_events, filter, taken, crowded>>

Awake(l) ==
  /\ wait[l] = "sleep" /\ m_cond_wait[l] /\ wait' = [wait EXCEPT ![l] = "poll"]
  /\ UNCHANGED <<sending, m_events, m_cond_wait, filter, taken, crowded>>

(* A wait for the events of a broadcaster that is gone times out.              *)
TimeOut(l) ==
  /\ wait[l] = "sleep" /\ filter[l] \intersect alive = {} /\ wait' = [wait EXCEPT ![l] = "idle"]
  /\ UNCHANGED <<sending, m_events, m_cond_wait, filter, taken, crowded>>

-----------------------------------------------------------------------------
(* StopListeningForEvents(), for all types.                                    *)
Stop(l, b) ==
  /\ MayStop /\ b \in alive /\ lock[b] = Nobody /\ l \in m_listeners[b]
  /\ m_listeners' = [m_listeners EXCEPT ![b] = @ \ {l}]
  /\ UNCHANGED <<alive, hijacks, lock, m_events, m_cond_wait, pc, job, exchanged, made, waiting>>

(* The destructor: its listeners drop what they have of it.  No thread is      *)
(* about to use it.                                                            *)
Destroy(b) ==
  LET rest(q) == SelectSeq(m_events[q], LAMBDA e : e.from # b) IN
  /\ b \in alive /\ lock[b] = Nobody /\ hijacks[b] = 0
  /\ \A t \in Threads : pc[t] = "idle"
  /\ alive' = alive \ {b} /\ m_listeners' = [m_listeners EXCEPT ![b] = {}]
  /\ m_events' = [q \in Queues |-> IF q \in m_listeners[b] THEN rest(q) ELSE m_events[q]]
  /\ m_cond_wait' = [q \in Queues |-> m_cond_wait[q] /\ (q \in m_listeners[b] => rest(q) # << >>)]
  /\ UNCHANGED <<hijacks, lock, pc, job, exchanged, made, waiting>>

-----------------------------------------------------------------------------
(* A packet exchange of the gdb client with its server.                        *)
Hijack(t) ==
  /\ pc[t] = "idle" /\ exchanged[t] < Exchanges
  /\ \E b \in alive :
       /\ lock[b] = Nobody /\ hijacks' = [hijacks EXCEPT ![b] = @ + 1]
       /\ job' = [job EXCEPT ![t] = [to |-> {}, hijacked |-> b]]
  /\ exchanged' = [exchanged EXCEPT ![t] = @ + 1] /\ Goto(t, "exchange")
  /\ UNCHANGED <<alive, m_listeners, lock, m_events, m_cond_wait, made, waiting>>

Restore(t) ==
  /\ pc[t] = "exchange" /\ lock[job[t].hijacked] = Nobody
  /\ hijacks' = [hijacks EXCEPT ![job[t].hijacked] = @ - 1] /\ Goto(t, "get")
  /\ UNCHANGED <<alive, m_listeners, lock, m_events, m_cond_wait, job, exchanged, made, waiting>>

(* What was hijacked is broadcast again: the next event, if there is one.      *)
GetHijacked(t) ==
  /\ pc[t] = "get"
  /\ IF m_events[Hijacker] = << >>
       THEN Goto(t, "idle") /\ UNCHANGED <<lock, job, m_events, m_cond_wait>>
       ELSE /\ Broadcast(t, Head(m_events[Hijacker]))
            /\ m_events' = [m_events EXCEPT ![Hijacker] = Tail(@)]
            /\ m_cond_wait' = [m_cond_wait EXCEPT ![Hijacker] = @ /\ m_events'[Hijacker] # << >>]
  /\ UNCHANGED <<alive, m_listeners, hijacks, exchanged, made, waiting>>

-----------------------------------------------------------------------------
Sender(t) == Pick(t) \/ Add(t) \/ Wake(t) \/ Sent(t) \/ Restore(t) \/ GetHijacked(t)
Waiter(l) == Wait(l) \/ Poll(l) \/ Check(l) \/ Awake(l) \/ TimeOut(l)

Next ==
  \/ \E t \in Threads : Send(t) \/ Hijack(t) \/ Sender(t)
  \/ \E l \in Listeners : Waiter(l) \/ \E b \in Broadcasters : Stop(l, b)
  \/ \E b \in Broadcasters : Destroy(b)

Spec == Init /\ [][Next]_vars

-----------------------------------------------------------------------------
(* A listener that sleeps on an unset flag has nothing it wants in its queue,  *)
(* or the sender is about to set the flag.                                     *)
NoLostWakeup ==
  \A l \in Listeners :
    (wait[l] = "sleep" /\ ~m_cond_wait[l] /\ Wanted(l) # {}) =>
      \E t \in Threads : pc[t] = "wake" /\ job[t].last = l

(* Events of one broadcaster and type are taken in the order of their          *)
(* broadcasts, and each once.                                                  *)
InOrder ==
  \A l \in Listeners :
    LET all == taken[l] \o m_events[l] IN
    \A m, n \in DOMAIN all : (m < n /\ Like(all[m], all[n])) => all[m].id < all[n].id

(* BroadcastEventIfUnique() never leaves two of a kind in a queue.             *)
OneOfAKind ==
  \A q \in Queues : \A m, n \in DOMAIN m_events[q] :
    Like(m_events[q][m], m_events[q][n]) => m = n

(* A queued event's broadcaster, to which it points, is alive.                 *)
BroadcastersAlive ==
  \A q \in Queues : \A n \in DOMAIN m_events[q] : m_events[q][n].from \in alive

(* What was broadcast has reached every listener when no thread is on its way  *)
(* with it, hijacked or not, whoever restores the broadcaster first.  But an   *)
(* exchange "rebroadcast[s] any events" by taking a single one: once two were  *)
(* hijacked at a time, an event may be left with the Hijacker, and nowhere     *)
(* else.                                                                       *)
EventsArrive ==
  (alive = Broadcasters /\ \A t \in Threads : pc[t] = "idle") =>
    \A id \in 1 .. made, l \in Listeners :
      LET all == taken[l] \o m_events[l] \o IF crowded THEN m_events[Hijacker] ELSE << >>
      IN  \E n \in DOMAIN all : all[n].id = id
=============================================================================
