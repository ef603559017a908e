----------------------------- MODULE GdbRemoteSync -----------------------------
(***************************************************************************)
(* LLDB's gdb remote client when answers are late.  The protocol has no    *)
(* sequence numbers: an answer belongs to the packet that was sent last.   *)
(* After a timeout the client sends a packet whose answer it can recognise *)
(* and disconnects unless that answer comes.                               *)
(***************************************************************************)
EXTENDS Integers, Sequences

CONSTANTS MaxPackets,      (* bound: packets the client's user sends           *)
          SupportsEcho,    (* m_supports_qEcho = eLazyBoolYes                  *)
          AsksThread,      (* does the user send "qC" packets, too?            *)
          SendAcks,        (* before QStartNoAckMode                           *)
          ReadThread       (* m_read_thread_enabled                            *)

SyncAssumption ==
  MaxPackets \in Nat /\ {SupportsEcho, AsksThread, SendAcks, ReadThread} \subseteq BOOLEAN

VARIABLES
  connected, pc,
  sent,            (* the number of the packet that is being exchanged         *)
  m_echo_number,
  echo,            (* the packet of the synchronisation: what it asks          *)
  tries, successful_responses,
  packet,          (* what the call will return                                *)
  toServer, toClient,
  returned         (* ghost: what the last call that succeeded returned        *)

vars == <<connected, pc, sent, m_echo_number, echo, tries, successful_responses, packet,
          toServer, toClient, returned>>

(* A packet is what it asks for: "echo" with a number, "thread" or "data".     *)
(* ask: the packet of the user it belongs to, 0 for one of the client's own.   *)
Packet(kind, number, ask) == [kind |-> kind, number |-> number, ask |-> ask]
Ack == Packet("ack", 0, 0)
None == Packet("none", 0, 0)
AnswersTo(p) == (IF SendAcks THEN <<Ack>> ELSE << >>) \o <<p>>

Init ==
  /\ connected = TRUE /\ pc = "idle" /\ sent = 0 /\ m_echo_number = 0 /\ echo = None
  /\ tries = 0 /\ successful_responses = 0 /\ packet = None
  /\ toServer = << >> /\ toClient = << >> /\ returned = None

Write(p) == toServer' = Append(toServer, p)
Return(p) == pc' = "idle" /\ returned' = p
Fail == pc' = "idle" /\ UNCHANGED returned

(* The server answers in order, when it likes.                                 *)
Server ==
  /\ toServer # << >> /\ toServer' = Tail(toServer)
  /\ toClient' = toClient \o AnswersTo(Head(toServer))
  /\ UNCHANGED <<connected, pc, sent, m_echo_number, echo, tries, successful_responses, packet, returned>>

(* SendPacketAndWaitForResponseNoLock().                                       *)
Send ==
  /\ connected /\ pc = "idle" /\ sent < MaxPackets /\ sent' = sent + 1
  /\ \E kind \in {"data"} \union IF AsksThread THEN {"thread"} ELSE {} :
       Write(Packet(kind, 0, sent + 1))
  /\ pc' = IF SendAcks THEN "ack" ELSE "reply"
  /\ UNCHANGED <<connected, m_echo_number, echo, tries, successful_responses, packet, toClient, returned>>

Read == toClient # << >> /\ toClient' = Tail(toClient)

(* GetAck(): without the acknowledgement the packet counts as not sent.        *)
GetAck ==
  /\ connected /\ pc \in {"ack", "echo ack"}
  /\ \/ /\ Read
        /\ IF Head(toClient).kind = "ack"
             THEN /\ pc' = (IF pc = "ack" THEN "reply" ELSE "sync")
                  /\ UNCHANGED <<returned, connected>>
             ELSE IF pc = "ack" THEN Fail /\ UNCHANGED connected
             ELSE Fail /\ connected' = FALSE
     \/ /\ UNCHANGED toClient /\ Fail
        /\ connected' = (pc = "ack")
  /\ UNCHANGED <<sent, m_echo_number, echo, tries, successful_responses, packet, toServer>>

Reply ==
  /\ connected /\ pc = "reply" /\ Read /\ Return(Head(toClient))
  /\ UNCHANGED <<connected, sent, m_echo_number, echo, tries, successful_responses, packet, toServer>>

UnsyncedMutant ==
  /\ connected /\ pc = "reply" /\ Fail
  /\ UNCHANGED <<connected, sent, m_echo_number, echo, tries, successful_responses, packet,
                 toServer, toClient>>

(* The answer did not come in time.                                            *)
TimeOut ==
  /\ connected /\ pc = "reply"
  /\ IF ReadThread
       THEN Fail /\ UNCHANGED <<m_echo_number, echo, tries, successful_responses, packet, toServer>>
       ELSE LET n == IF SupportsEcho THEN m_echo_number + 1 ELSE m_echo_number
                e == IF SupportsEcho THEN Packet("echo", n, 0) ELSE Packet("thread", 0, 0) IN
            /\ m_echo_number' = n /\ echo' = e /\ Write(e)
            /\ tries' = 0 /\ successful_responses' = 0 /\ packet' = None
            /\ pc' = (IF SendAcks THEN "echo ack" ELSE "sync") /\ UNCHANGED returned
  /\ UNCHANGED <<connected, sent, toClient>>

LooksLike(p) == p.kind = echo.kind /\ p.number = echo.number

(* One of the max_retries = 3 attempts to get the answer to the own packet.    *)
Sync ==
  /\ connected /\ pc = "sync" /\ tries < 3
  /\ \/ /\ Read /\ tries' = tries + 1 /\ successful_responses' = successful_responses + 1
        /\ IF LooksLike(Head(toClient))
             THEN /\ UNCHANGED packet
                  /\ IF packet # None THEN Return(packet) ELSE Fail
             ELSE /\ packet' = IF successful_responses = 0 THEN Head(toClient) ELSE packet
                  /\ UNCHANGED <<pc, returned>>
     \/ tries' = tries + 1 /\ UNCHANGED <<toClient, successful_responses, packet, pc, returned>>
  /\ UNCHANGED <<connected, sent, m_echo_number, echo, toServer>>

Disconnect ==
  /\ connected /\ pc = "sync" /\ tries = 3 /\ connected' = FALSE /\ Fail
  /\ UNCHANGED <<sent, m_echo_number, echo, tries, successful_responses, packet, toServer, toClient>>

Next == Server \/ Send \/ GetAck \/ Reply \/ TimeOut \/ Sync \/ Disconnect
Spec == Init /\ [][Next]_vars

-----------------------------------------------------------------------------
(* A call that succeeds returns the answer to the packet it has sent.          *)
AnswersMatch == [][returned' # returned => returned'.ask = sent]_vars

(* While the client is connected and idle no answer is on its way.             *)
InStep == (connected /\ pc = "idle") => toServer = << >> /\ toClient = << >>
=============================================================================
