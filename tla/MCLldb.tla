------------------------------- MODULE MCLldb -------------------------------
(***************************************************************************)
(* One run for LLDB: its events, with listeners that wait while two        *)
(* broadcasters send ("events"), with BroadcastEventIfUnique() and         *)
(* listeners that stop ("unique") and with packet exchanges in flight      *)
(* ("exchange"); the mutexes of the broadcaster manager, with two          *)
(* broadcasters ("broadcasters") or two listeners ("listeners"); the gdb   *)
(* client with a server that echoes ("echo"), with one that does not       *)
(* ("thread") and in its first exchange, which is acknowledged ("acks");   *)
(* and its packets and signals while the program runs, with ("halts") and  *)
(* without ("signals") halts.  They share nothing here.  A behaviour       *)
(* chooses one of them at the start (part) and the others stay as they     *)
(* were initialised.                                                       *)
(***************************************************************************)
EXTENDS Integers, Sequences

CONSTANTS Nobody,
          Threads      (* of LldbEvents and ListenerLocks                     *)

EventParts  == {"events", "unique", "exchange"}
LockParts   == {"broadcasters", "listeners"}
SyncParts   == {"echo", "thread", "acks"}
AsyncParts  == {"halts", "signals"}

VARIABLES
  part,
  evAlive, evListeners, hijacks, lock, m_events, m_cond_wait, evPc, job, exchanged,
  wait, filter, made, taken, crowded,                                (* LldbEvents *)
  holder, lockDepth, m_broadcasters, lkListeners, registered, young, lkAlive, todo,
  m_broadcaster_managers, name, uses,                                                       (* ListenerLocks *)
  connected, syPc, sent, m_echo_number, echo, tries, successful_responses, packet,
  syToServer, syToClient, returned,                           (* GdbRemoteSync *)
  public, private, seq, async, m_interrupt_sent, wanted, m_async_packet,
  m_async_response, m_async_signal, signo, continue_after_async, continue_packet, asPc,
  response, running, last, asToServer, asToClient, runs, stops, asks,
  slips                                                            (* GdbAsync *)

evVars == <<evAlive, evListeners, hijacks, lock, m_events, m_cond_wait, evPc, job,
            exchanged, wait, filter, made, taken, crowded>>
lkVars == <<holder, lockDepth, m_broadcasters, lkListeners, registered, young, lkAlive,
            todo, m_broadcaster_managers, name, uses>>
syVars == <<connected, syPc, sent, m_echo_number, echo, tries, successful_responses,
            packet, syToServer, syToClient, returned>>
asVars == <<public, private, seq, async, m_interrupt_sent, wanted, m_async_packet,
            m_async_response, m_async_signal, signo, continue_after_async,
            continue_packet, asPc, response, running, last, asToServer, asToClient,
            runs, stops, asks, slips>>

(* Two broadcasters without exchanges; events of two types that are unique, with *)
(* an exchange of each thread; and two exchanges of each and two events.       *)
Events(p) == INSTANCE LldbEvents WITH
  Broadcasters <- IF p = "events" THEN {"b1", "b2"} ELSE {"b1"},
  Types        <- IF p = "unique" THEN {"k1", "k2"} ELSE {"k1"},
  Listeners    <- IF p = "exchange" THEN {"l1", "l2"} ELSE {"l1"},
  Hijacker     <- "hijacker",
  Unique       <- p = "unique",
  MayStop      <- p = "unique",
  Exchanges    <- CASE p = "events" -> 0 [] p = "unique" -> 1 [] p = "exchange" -> 2,
  MaxEvents    <- IF p = "exchange" THEN 2 ELSE 3,
  alive <- evAlive, m_listeners <- evListeners, pc <- evPc

(* All calls on two listeners and a broadcaster, and on one and two.           *)
Locks(p) == INSTANCE ListenerLocks WITH
  Manager      <- "manager",
  Listeners    <- IF p = "listeners" THEN {"l1", "l2"} ELSE {"l1"},
  Broadcasters <- IF p = "broadcasters" THEN {"b1", "b2"} ELSE {"b1"},
  Calls        <- {"CheckIn", "StartListening", "StopListening", "StartSpec", "StopSpec",
                   "DestroyBroadcaster", "DestroyListener"},
  MaxManagers  <- 2,
  depth <- lockDepth, m_listeners <- lkListeners, alive <- lkAlive

Client(p) == INSTANCE GdbRemoteSync WITH
  MaxPackets <- IF p = "acks" THEN 1 ELSE 4,
  SupportsEcho <- p # "thread", AsksThread <- p # "thread",
  SendAcks <- p = "acks", ReadThread <- FALSE,
  pc <- syPc, toServer <- syToServer, toClient <- syToClient

(* What AnswersMatch says is the same for all of them.                         *)
Echoing == INSTANCE GdbRemoteSync WITH
  MaxPackets <- 4, SupportsEcho <- TRUE, AsksThread <- TRUE,
  SendAcks <- FALSE, ReadThread <- FALSE,
  pc <- syPc, toServer <- syToServer, toClient <- syToClient

(* A packet, a signal and a halt; and two packets and two signals, of which     *)
(* one is the signal that the program may stop with by itself.                 *)
Running(p) == INSTANCE GdbAsync WITH
  Packets   <- IF p = "halts" THEN {"p"} ELSE {"p", "q"},
  Signals   <- IF p = "halts" THEN {"s"} ELSE {"s", "trap"},
  Halts     <- IF p = "halts" THEN {"h"} ELSE {},
  Free      <- Nobody,
  Continuer <- "continuer",
  MaxRuns   <- 2, MaxStops <- 1, MaxAsks <- 2,
  pc <- asPc, toServer <- asToServer, toClient <- asToClient

ASSUME PartsAssumption ==
  /\ \A p \in EventParts : Events(p)!EventsAssumption
  /\ \A p \in LockParts  : Locks(p)!LocksAssumption
  /\ \A p \in SyncParts  : Client(p)!SyncAssumption
  /\ \A p \in AsyncParts : Running(p)!GdbAsyncAssumption

mcvars == <<part, evVars, lkVars, syVars, asVars>>

(* A part that is not chosen is initialised as one that is fixed.              *)
Chosen(parts, default) == IF part \in parts THEN part ELSE default

MCInit ==
  /\ part \in EventParts \union LockParts \union SyncParts \union AsyncParts
  /\ \E p \in EventParts : p = Chosen(EventParts, "events")      /\ Events(p)!Init
  /\ \E p \in LockParts  : p = Chosen(LockParts, "broadcasters") /\ Locks(p)!Init
  /\ \E p \in AsyncParts : p = Chosen(AsyncParts, "halts")       /\ Running(p)!Init
  /\ Client("echo")!Init

MCNext ==
  \/ \E p \in EventParts : part = p /\ Events(p)!Next  /\ UNCHANGED <<part, lkVars, syVars, asVars>>
  \/ \E p \in LockParts  : part = p /\ Locks(p)!Next   /\ UNCHANGED <<part, evVars, syVars, asVars>>
  \/ \E p \in SyncParts  : part = p /\ Client(p)!Next  /\ UNCHANGED <<part, evVars, lkVars, asVars>>
  \/ \E p \in AsyncParts : part = p /\ Running(p)!Next /\ UNCHANGED <<part, evVars, lkVars, syVars>>

MCSpec == MCInit /\ [][MCNext]_mcvars

(* A listener that sleeps has nothing it wants in its queue, or its flag is    *)
(* about to be set; events of a broadcaster and type come in order and once;   *)
(* what points to a broadcaster is gone before it is, if nobody stops to       *)
(* listen; BroadcastEventIfUnique() leaves one of a kind in a queue.  What was *)
(* broadcast reaches every listener, also through overlapping exchanges, as    *)
(* long as no two events are hijacked at a time: then the code broadcasts only *)
(* one of them again, and what is missing is with the hijacking listener.      *)
EventsInOrder ==
  /\ \A p \in EventParts : part = p => Events(p)!NoLostWakeup
  /\ \A p \in {"events"} : part = p => Events(p)!InOrder /\ Events(p)!BroadcastersAlive
  /\ \A p \in {"unique"} : part = p => Events(p)!OneOfAKind
  /\ \A p \in {"events", "exchange"} : part = p => Events(p)!EventsArrive

(* All calls of listeners, broadcasters and the manager at once can wait for  *)
(* each other in two ways, and in no other: who stops to listen to a class or  *)
(* destroys a listener takes the manager's mutex after the listener's, who     *)
(* asks for a class or checks in takes them the other way round; and the       *)
(* destructors of a listener and a broadcaster take each other's.  When all    *)
(* calls have returned both sides agree on who listens to whom.                *)
CircularWaitsAreKnown ==
  \A p \in LockParts : part = p => Locks(p)!NoOtherDeadlock /\ Locks(p)!KnowEachOther

(* A call returns the answer to its own packet, although there are no sequence *)
(* numbers and answers may come after the timeout; and when the client is idle *)
(* and connected no answer is left on the way once acknowledgements are off.   *)
(* This is said of packets without acknowledgements and a server that echoes,  *)
(* of one that does not if the user sends no qC of its own, and of the first   *)
(* packet with acknowledgements, without the read thread; where one of these  *)
(* conditions does not hold answers may be mixed up (see the README).          *)
AnswersAreInStep ==
  /\ [](\A p \in {"echo", "thread"} : part = p => Client(p)!InStep)
  /\ Echoing!AnswersMatch

(* Requests while the program runs, with every interleaving of their threads,  *)
(* the continue thread, the server and the program.  The flags have four gaps  *)
(* (slips): a packet sent without the sequence mutex, a repeated stop reply    *)
(* taken for something else, a request left behind after a timeout, and a ^C   *)
(* for what was served already.  Without the first two every packet finds the  *)
(* program stopped; without the first three each gets its own answer; and      *)
(* without any a run that was interrupted for a request goes on.               *)
RequestsHoldButForSlips ==
  \A p \in AsyncParts : part = p =>
    Running(p)!FindsItStopped /\ Running(p)!AnswersMatch /\ Running(p)!GoesOn
=============================================================================
