------------------------------- MODULE GdbAsync -------------------------------
(***************************************************************************)
(* LLDB's gdb remote client while the program runs.  The thread that sent  *)
(* the continue packet keeps the sequence mutex and waits for a stop       *)
(* reply; whoever wants to send a packet, a signal or a halt meanwhile     *)
(* leaves a request, sends ^C, and the continue thread serves the request  *)
(* when the program has stopped and lets it go on.  Requests and the       *)
(* continue thread tell each other by flags that no one mutex protects,    *)
(* and every step of one may come between two steps of another.            *)
(***************************************************************************)
EXTENDS Integers, Sequences, FiniteSets

CONSTANTS Packets, Halts,           (* the threads that make such requests       *)
          Signals,                  (* and those that send a signal, named by it *)
          Free,                     (* nobody, or nothing                        *)
          Continuer,                (* the thread that resumes the program       *)
          MaxRuns, MaxStops,        (* bounds: resumptions, stops of its own,    *)
          MaxAsks                   (* requests                                  *)

Requesters == Packets \union Signals \union Halts

GdbAsyncAssumption ==
  /\ Cardinality(Requesters) = Cardinality(Packets) + Cardinality(Signals) + Cardinality(Halts)
  /\ {Free, Continuer} \intersect Requesters = {} /\ Free # Continuer
  /\ MaxRuns \in Nat /\ MaxStops \in Nat /\ MaxAsks \in Nat

VARIABLES
  public, private,        (* m_public_is_running, m_private_is_running           *)
  seq, async,             (* who has m_sequence_mutex, m_async_mutex             *)
  m_interrupt_sent,
  wanted,                 (* m_async_packet_predicate                            *)
  m_async_packet, m_async_response, m_async_signal,
  signo, continue_after_async, continue_packet,   (* locals of the continuer     *)
  pc, response,
  running, last,          (* the program; the signal of its last stop            *)
  toServer, toClient,
  runs, stops, asks,
  slips                   (* ghost: what has gone wrong, see Slip below          *)

client == <<public, private, seq, async, m_interrupt_sent, wanted, m_async_packet, m_async_response,
            m_async_signal>>
locals == <<signo, continue_after_async, continue_packet>>
server == <<running, last, stops>>
vars == <<client, locals, pc, response, server, toServer, toClient, runs, asks, slips>>

(* Packets to the server are "^C", "c", a signal to resume with or a request;  *)
(* from the server stop replies with a signal and answers to requests.  A      *)
(* stop reply that is sent again looks like the first.                         *)
Stop(s) == <<"stop", s>>
Again(s) == <<"again", s>>
Answer(p) == <<"answer", p>>
NoAnswer == <<"none", Free>>

Init ==
  /\ public = FALSE /\ private = FALSE /\ seq = Free /\ async = Free
  /\ m_interrupt_sent = FALSE /\ wanted = FALSE
  /\ m_async_packet = Free /\ m_async_response = NoAnswer /\ m_async_signal = Free
  /\ signo = "trap" /\ continue_after_async = FALSE /\ continue_packet = "c"
  /\ pc = [t \in Requesters \union {Continuer} |-> "out"] /\ response = [p \in Packets |-> NoAnswer]
  /\ running = FALSE /\ last = "trap" /\ stops = 0 /\ toServer = << >> /\ toClient = << >> /\ runs = 0 /\ asks = 0
  /\ slips = {}

Goto(t, l) == pc' = [pc EXCEPT ![t] = l]
Write(m) == toServer' = Append(toServer, m)
Read == toClient # << >> /\ toClient' = Tail(toClient)

(* What the flags do not prevent: a packet that is sent without the sequence   *)
(* mutex ("bare"), a repeated stop reply that is taken for something else than  *)
(* a repetition ("again"), a request that is left behind by a thread that has   *)
(* waited long enough ("left"), and a ^C for a request that was served before   *)
(* it is sent ("idle").                                                         *)
Slip(what, when) == slips' = IF when THEN slips \union {what} ELSE slips
IsAgain == Head(toClient)[1] = "again"

-----------------------------------------------------------------------------
(* The gdb server.  A ^C that finds the program stopped repeats the reply.     *)
Serve ==
  /\ toServer # << >> /\ toServer' = Tail(toServer)
  /\ LET m == Head(toServer) IN
       \/ /\ m = "^C" /\ running' = FALSE /\ last' = (IF running THEN "int" ELSE last)
          /\ toClient' = Append(toClient, IF running THEN Stop("int") ELSE Again(last))
       \/ /\ m \in {"c"} \union Signals /\ running' = TRUE /\ UNCHANGED <<last, toClient>>
       \/ /\ m \in Packets /\ toClient' = Append(toClient, Answer(m)) /\ UNCHANGED <<running, last>>
  /\ UNCHANGED <<client, locals, pc, response, stops, runs, asks, slips>>

StopItself ==
  /\ running /\ stops < MaxStops /\ stops' = stops + 1
  /\ running' = FALSE /\ last' = "trap" /\ toClient' = Append(toClient, Stop("trap"))
  /\ UNCHANGED <<client, locals, pc, response, toServer, runs, asks, slips>>

-----------------------------------------------------------------------------
(* SendContinuePacketAndWaitForResponse().                                     *)
Start ==
  /\ pc[Continuer] = "out" /\ runs < MaxRuns /\ seq = Free
  /\ seq' = Continuer /\ public' = TRUE /\ runs' = runs + 1
  /\ continue_packet' = "c" /\ Goto(Continuer, "continue")
  /\ UNCHANGED <<private, async, m_interrupt_sent, wanted, m_async_packet, m_async_response,
                 m_async_signal, signo, continue_after_async, response, server, toServer, toClient, asks, slips>>

Continue ==
  /\ pc[Continuer] = "continue" /\ Write(continue_packet) /\ Goto(Continuer, "resumed")
  /\ UNCHANGED <<client, locals, response, server, toClient, runs, asks, slips>>

Resumed ==
  /\ pc[Continuer] = "resumed" /\ Goto(Continuer, "resumed 2") /\ m_interrupt_sent' = FALSE
  /\ UNCHANGED <<public, private, seq, async, wanted, m_async_packet, m_async_response,
                 m_async_signal, locals, response, server, toServer, toClient, runs, asks, slips>>

SetRunning ==
  /\ pc[Continuer] = "resumed 2" /\ Goto(Continuer, "run") /\ private' = TRUE
  /\ UNCHANGED <<public, seq, async, m_interrupt_sent, wanted, m_async_packet, m_async_response,
                 m_async_signal, locals, response, server, toServer, toClient, runs, asks, slips>>

(* The stop reply; an answer here is an unrecognised packet and ends the run.  *)
ReadStop ==
  /\ pc[Continuer] = "run" /\ Read
  /\ \/ /\ Head(toClient)[1] \in {"stop", "again"} /\ signo' = Head(toClient)[2]
        /\ private' = FALSE /\ Goto(Continuer, "stopped")
     \/ /\ Head(toClient)[1] = "answer" /\ Goto(Continuer, "finish") /\ UNCHANGED <<private, signo>>
  /\ Slip("again", IsAgain)
  /\ UNCHANGED <<public, seq, async, m_interrupt_sent, wanted, m_async_packet, m_async_response,
                 m_async_signal, continue_after_async, continue_packet, response, server, toServer, runs, asks>>

Check ==
  /\ pc[Continuer] = "stopped"
  /\ LET asked == m_async_signal # Free \/ wanted
         other == (asked \/ m_interrupt_sent) /\ signo # "int" IN
       /\ continue_after_async' = (asked /\ ~other)
       /\ Goto(Continuer, IF other THEN "extra" ELSE "serve")
  /\ UNCHANGED <<client, signo, continue_packet, response, server, toServer, toClient, runs, asks,
                 slips>>

(* For 0.1 s it waits for the reply a ^C has caused that came too late.        *)
ReadExtra ==
  /\ pc[Continuer] = "extra" /\ Goto(Continuer, "serve")
  /\ Read \/ UNCHANGED toClient
  /\ UNCHANGED <<client, locals, response, server, toServer, runs, asks, slips>>

(* A signal that the program has stopped with ends the run.                    *)
ServeSignal ==
  /\ pc[Continuer] = "serve" /\ m_async_signal # Free /\ m_async_signal' = Free
  /\ IF signo = m_async_signal THEN Goto(Continuer, "finish") /\ UNCHANGED continue_packet
     ELSE Goto(Continuer, "continue") /\ continue_packet' = m_async_signal
  /\ UNCHANGED <<public, private, seq, async, m_interrupt_sent, wanted, m_async_packet, m_async_response,
                 signo, continue_after_async, response, server, toServer, toClient, runs, asks, slips>>

ServePacket ==
  /\ pc[Continuer] = "serve" /\ m_async_signal = Free
  /\ IF wanted THEN Write(m_async_packet) /\ Goto(Continuer, "answer")
     ELSE Goto(Continuer, "finish") /\ UNCHANGED toServer
  /\ UNCHANGED <<client, locals, response, server, toClient, runs, asks, slips>>

ReadAnswer ==
  /\ pc[Continuer] = "answer" /\ Read /\ m_async_response' = Head(toClient) /\ wanted' = FALSE
  /\ IF continue_after_async THEN Goto(Continuer, "continue") /\ continue_packet' = "c"
     ELSE Goto(Continuer, "finish") /\ UNCHANGED continue_packet
  /\ Slip("again", IsAgain)
  /\ UNCHANGED <<public, private, seq, async, m_interrupt_sent, m_async_packet, m_async_signal,
                 signo, continue_after_async, response, server, toServer, runs, asks>>

Finish ==
  /\ pc[Continuer] = "finish" /\ Goto(Continuer, "finish 2") /\ private' = FALSE
  /\ UNCHANGED <<public, seq, async, m_interrupt_sent, wanted, m_async_packet, m_async_response,
                 m_async_signal, locals, response, server, toServer, toClient, runs, asks, slips>>

SetStopped ==
  /\ pc[Continuer] = "finish 2" /\ Goto(Continuer, "unlock") /\ public' = FALSE
  /\ UNCHANGED <<private, seq, async, m_interrupt_sent, wanted, m_async_packet, m_async_response,
                 m_async_signal, locals, response, server, toServer, toClient, runs, asks, slips>>

Unlock ==
  /\ pc[Continuer] = "unlock" /\ Goto(Continuer, "out") /\ seq' = Free
  /\ UNCHANGED <<public, private, async, m_interrupt_sent, wanted, m_async_packet, m_async_response,
                 m_async_signal, locals, response, server, toServer, toClient, runs, asks, slips>>

-----------------------------------------------------------------------------
(* What a request leaves alone, and its locks when it returns.                 *)
Asking == UNCHANGED <<public, private, m_async_response, locals, server, runs, asks>>
Quietly == Asking /\ UNCHANGED <<response, toServer, toClient, slips>>
Flags == <<m_interrupt_sent, wanted, m_async_packet, m_async_signal>>
Leave(r) ==
  /\ Goto(r, "out")
  /\ seq' = (IF seq = r THEN Free ELSE seq) /\ async' = (IF async = r THEN Free ELSE async)

(* Packets try the sequence mutex first, and wait for it if nothing runs.      *)
Ask(r) ==
  /\ pc[r] = "out" /\ asks < MaxAsks /\ asks' = asks + 1
  /\ UNCHANGED <<client, locals, response, server, toServer, toClient, runs, slips>>
  /\ Goto(r, IF r \in Halts THEN "int" ELSE IF r \in Signals THEN "async"
             ELSE IF public THEN "try" ELSE "lock")

TrySequence(r) ==
  /\ pc[r] = "try" /\ Quietly /\ UNCHANGED <<async, Flags>>
  /\ IF seq = Free THEN seq' = r /\ Goto(r, "exchange")
     ELSE Goto(r, "running?") /\ UNCHANGED seq

LockSequence(r) ==
  /\ pc[r] = "lock" /\ seq = Free /\ seq' = r /\ Goto(r, "exchange")
  /\ Quietly /\ UNCHANGED <<async, Flags>>

StillRunning(r) ==
  /\ pc[r] = "running?" /\ Quietly /\ UNCHANGED Flags
  /\ IF public THEN Goto(r, "async") /\ UNCHANGED <<seq, async>> ELSE Leave(r)

UnlockedMutant(r) ==
  /\ pc[r] = "async" /\ Goto(r, "int") /\ async' = (IF async = Free THEN r ELSE async)
  /\ IF r \in Signals THEN m_async_signal' = r /\ UNCHANGED <<wanted, m_async_packet>>
     ELSE m_async_packet' = r /\ wanted' = TRUE /\ UNCHANGED m_async_signal
  /\ Quietly /\ UNCHANGED <<seq, m_interrupt_sent>>

LeaveRequest(r) ==
  /\ pc[r] = "async" /\ async = Free /\ async' = r /\ Goto(r, "int")
  /\ IF r \in Signals THEN m_async_signal' = r /\ UNCHANGED <<wanted, m_async_packet>>
     ELSE m_async_packet' = r /\ wanted' = TRUE /\ UNCHANGED m_async_signal
  /\ Quietly /\ UNCHANGED <<seq, m_interrupt_sent>>

(* SendInterrupt().                                                            *)
SendInterrupt(r) ==
  /\ Asking /\ UNCHANGED <<async, wanted, m_async_packet, m_async_signal, response, toClient>>
  /\ \/ /\ pc[r] = "int" /\ Goto(r, IF public THEN "int again" ELSE "test")
        /\ UNCHANGED <<seq, m_interrupt_sent, toServer>>
     \/ /\ pc[r] = "int again" /\ Goto(r, IF public THEN "int try" ELSE "int lock")
        /\ UNCHANGED <<seq, m_interrupt_sent, toServer>>
     \/ /\ pc[r] \in {"int try", "int lock"} /\ seq = Free /\ seq' = r /\ Goto(r, "test")
        /\ UNCHANGED <<m_interrupt_sent, toServer>>
     \/ /\ pc[r] = "int try" /\ seq # Free /\ Write("^C") /\ Goto(r, "sent")
        /\ UNCHANGED <<seq, m_interrupt_sent>>
     \/ /\ pc[r] = "sent" /\ m_interrupt_sent' = TRUE /\ Goto(r, "wait")
        /\ UNCHANGED <<seq, toServer>>
     \/ /\ pc[r] = "wait" /\ ~private /\ Goto(r, "test")
        /\ UNCHANGED <<seq, m_interrupt_sent, toServer>>
  /\ Slip("idle", pc'[r] = "sent" /\ \/ r \in Packets /\ ~wanted
                                     \/ r \in Signals /\ m_async_signal # r)

NotInterrupted(r) ==
  /\ pc[r] = "wait" /\ private /\ Leave(r) /\ Slip("left", TRUE)
  /\ m_async_signal' = IF r \in Signals THEN Free ELSE m_async_signal
  /\ Asking /\ UNCHANGED <<m_interrupt_sent, wanted, m_async_packet, response, toServer, toClient>>

(* Signals and halts are done; a packet waits for its result if ^C was sent,   *)
(* else it is sent "since we got the lock".                                    *)
Interrupted(r) ==
  /\ pc[r] = "test" /\ Quietly /\ UNCHANGED <<wanted, m_async_packet, m_async_signal>>
  /\ \/ r \notin Packets /\ Leave(r) /\ UNCHANGED m_interrupt_sent
     \/ /\ r \in Packets /\ UNCHANGED <<seq, async>> /\ m_interrupt_sent' = FALSE
        /\ Goto(r, IF m_interrupt_sent THEN "result" ELSE "exchange")

Result(r) ==
  /\ pc[r] = "result" /\ Goto(r, "resume")
  /\ \/ ~wanted /\ response' = [response EXCEPT ![r] = m_async_response]
     \/ wanted /\ UNCHANGED response
  /\ Slip("left", wanted)
  /\ Asking /\ UNCHANGED <<seq, async, Flags, toServer, toClient>>

(* It waits for the program to go on, or for its timeout.                      *)
AwaitResume(r) == pc[r] = "resume" /\ Leave(r) /\ Quietly /\ UNCHANGED Flags

(* SendPacketAndWaitForResponseNoLock().                                       *)
Exchange(r) ==
  /\ Asking /\ UNCHANGED Flags
  /\ \/ /\ pc[r] = "exchange" /\ Write(r) /\ Goto(r, "answer")
        /\ Slip("bare", seq # r)
        /\ UNCHANGED <<seq, async, response, toClient>>
     \/ /\ pc[r] = "answer" /\ Read /\ response' = [response EXCEPT ![r] = Head(toClient)]
        /\ Leave(r) /\ Slip("again", IsAgain) /\ UNCHANGED toServer

-----------------------------------------------------------------------------
Resume ==
  \/ Start \/ Continue \/ Resumed \/ SetRunning \/ ReadStop \/ Check \/ ReadExtra
  \/ ServeSignal \/ ServePacket \/ ReadAnswer \/ Finish \/ SetStopped \/ Unlock

Request(r) ==
  \/ Ask(r) \/ TrySequence(r) \/ LockSequence(r) \/ StillRunning(r) \/ LeaveRequest(r)
  \/ SendInterrupt(r) \/ NotInterrupted(r) \/ Interrupted(r) \/ Result(r) \/ AwaitResume(r)
  \/ Exchange(r)

Next ==
  \/ Serve \/ StopItself
  \/ Resume
  \/ \E r \in Requesters : Request(r)

Spec == Init /\ [][Next]_vars

-----------------------------------------------------------------------------
Without(names) == slips \intersect names = {}

(* A packet that is answered has the answer to itself, whoever sent it.        *)
AnswersMatch ==
  Without({"bare", "again", "left"}) => \A p \in Packets : response[p] \in {NoAnswer, Answer(p)}

(* The program stands still for every packet that is sent to the server, also  *)
(* if its thread has given up: "we need to interrupt the running process (gdb  *)
(* remote protocol requires this)" (SendInterrupt).                            *)
FindsItStopped ==
  Without({"bare", "again"}) => \A i \in 1 .. Len(toServer) : toServer[i] \in Packets =>
    /\ ~running
    /\ \A j \in 1 .. i : toServer[j] \in {"^C"} \union Packets

(* A program that was interrupted for a packet or a signal goes on: a run ends *)
(* with a stop of its own, or with the signal that was wanted.                 *)
GoesOn ==
  slips = {} /\ Halts = {} /\ pc[Continuer] = "finish" => signo \in {"trap"} \union Signals
=============================================================================
