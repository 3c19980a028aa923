------------------------------ MODULE UdpSender ------------------------------
(***************************************************************************)
(* The sender of hw2 (hw2/sender/sender.hpp): Sender::send_file with the   *)
(* three implementations of send_packet, chosen by Variant:                *)
(*   "select"   SelectSender, select() with a timeout before the read;     *)
(*   "rcvtimeo" SetsockoptSender, SO_RCVTIMEO on the socket;               *)
(*   "alarm"    AlarmSender, a free-running SIGALRM that re-arms itself    *)
(*              and interrupts the read.                                   *)
(* send_packet is two steps: the write, and the read (or select and read)  *)
(* that it blocks in; everything else the sender does in between is local. *)
(***************************************************************************)
EXTENDS UdpFile, UdpNetwork

CONSTANTS
  Variant,  \* which class the program instantiates
  MaxSyn    \* bound of the model: no packet is built with a larger syn

ASSUME UdpSenderAssumption ==
  /\ Variant \in {"select", "rcvtimeo", "alarm"}
  /\ MaxSyn \in Nat

VARIABLES
  pc,          \* "send": about to write pkt; "wait": blocked for its ack; "closed"
  pkt,         \* the packet send_packet is called with
  syn,         \* next sequence number
  pos,         \* position of the input stream
  connecting,  \* Sender::connecting
  timer,       \* "off", "armed", or "fired" (expiry not yet acted upon)
  outcome      \* "none", "finished", or "aborted" (read reported an error)

senderVars == <<pc, pkt, syn, pos, connecting, timer, outcome>>

(* The constructors up to the first call of send_packet.  Only AlarmSender's *)
(* constructor starts a timer.                                               *)
SenderInit ==
  /\ pc = "send"
  /\ pkt = NamePacket
  /\ syn = 2
  /\ pos = 0
  /\ connecting = TRUE
  /\ timer = IF Variant = "alarm" THEN "armed" ELSE "off"
  /\ outcome = "none"

(* Mutant of StartWait: the time left by the last call is not replaced. *)
StartWaitStale == UNCHANGED timer

(* select() and SO_RCVTIMEO count from the call; the alarm runs by itself. *)
StartWait == timer' = IF Variant = "alarm" THEN timer ELSE "armed"

(* A timeout that belongs to one select() or read() ends with that call. *)
LeaveWait == timer' = IF Variant = "alarm" THEN timer ELSE "off"

(* write(): fails, and sends nothing, when the socket holds an ICMP error;    *)
(* the result is ignored and the error is consumed.  The sender then enters   *)
(* select() or read().                                                        *)
SendPacket ==
  /\ pc = "send"
  /\ pc' = "wait"
  /\ toReceiver' = IF soError THEN toReceiver ELSE Post(toReceiver, pkt)
  /\ soError' = FALSE
  /\ StartWait
  /\ UNCHANGED <<pkt, syn, pos, connecting, outcome, toSender>>

(* send_packet returned true with connecting still set: read the next chunk. *)
NextPacket ==
  /\ connecting
  /\ syn <= MaxSyn
  /\ pkt' = DataPacket(syn, pos)
  /\ syn' = syn + 1
  /\ pos' = pos + BytesAt(pos)
  /\ connecting' = ~AtEof(pos)
  /\ pc' = "send"
  /\ UNCHANGED outcome

(* send_packet returned true and the packet was the last: close the socket. *)
Finish ==
  /\ ~connecting
  /\ pc' = "closed"
  /\ outcome' = "finished"
  /\ UNCHANGED <<pkt, syn, pos, connecting>>

(* Mutant of Acknowledges: the sequence number is not looked at. *)
AnyAcknowledges(n) == n \in Nat

(* The acknowledgement n is that of the packet just sent. *)
Acknowledges(n) == n = pkt.syn

(* read() returns the acknowledgement of the packet just sent. *)
AckMatches(i) ==
  /\ pc = "wait"
  /\ ~soError
  /\ Acknowledges(toSender[i])
  /\ toSender' = RemoveAt(toSender, i)
  /\ LeaveWait
  /\ NextPacket \/ Finish
  /\ UNCHANGED <<toReceiver, soError>>

(* read() returns the acknowledgement of some other packet: send again. *)
AckStale(i) ==
  /\ pc = "wait"
  /\ ~soError
  /\ ~Acknowledges(toSender[i])
  /\ toSender' = RemoveAt(toSender, i)
  /\ LeaveWait
  /\ pc' = "send"
  /\ UNCHANGED <<pkt, syn, pos, connecting, outcome, toReceiver, soError>>

(* read() reports the ICMP error: send_packet gives up and returns true. *)
ReadError ==
  /\ pc = "wait"
  /\ soError
  /\ soError' = FALSE
  /\ LeaveWait
  /\ connecting' = FALSE
  /\ pc' = "closed"
  /\ outcome' = "aborted"
  /\ UNCHANGED <<pkt, syn, pos, toReceiver, toSender>>

(* The clock: a timer that was started runs out. *)
TimerExpires ==
  /\ pc # "closed"
  /\ timer = "armed"
  /\ timer' = "fired"
  /\ UNCHANGED <<pc, pkt, syn, pos, connecting, outcome, netVars>>

(* Mutant of Timeout: a timeout is taken for success. *)
TimeoutSucceeds ==
  /\ Variant # "alarm"
  /\ pc = "wait" /\ timer = "fired" /\ ~soError
  /\ timer' = "off"
  /\ NextPacket \/ Finish
  /\ UNCHANGED netVars

(* select() returns 0, or read() fails with EWOULDBLOCK: send again. *)
Timeout ==
  /\ Variant # "alarm"
  /\ pc = "wait"
  /\ timer = "fired"
  /\ ~soError
  /\ pc' = "send"
  /\ timer' = "off"
  /\ UNCHANGED <<pkt, syn, pos, connecting, outcome, netVars>>

(* Mutant of AlarmSignal: the handler does not start the alarm again. *)
AlarmSignalOnce ==
  /\ Variant = "alarm"
  /\ pc # "closed" /\ timer = "fired"
  /\ timer' = "off"
  /\ pc' = IF pc = "wait" /\ ~soError THEN "send" ELSE pc
  /\ UNCHANGED <<pkt, syn, pos, connecting, outcome, netVars>>

(* SIGALRM: the handler calls alarm(1).  If it arrives while read() blocks,   *)
(* the read fails with EINTR and the packet is sent again; elsewhere it has   *)
(* no effect but the new alarm.                                               *)
AlarmSignal ==
  /\ Variant = "alarm"
  /\ pc # "closed"
  /\ timer = "fired"
  /\ timer' = "armed"
  /\ pc' = IF pc = "wait" /\ ~soError THEN "send" ELSE pc
  /\ UNCHANGED <<pkt, syn, pos, connecting, outcome, netVars>>

ReadAck == \E i \in Deliverable(toSender) : AckMatches(i) \/ AckStale(i)

SenderStep ==
  \/ SendPacket
  \/ ReadAck
  \/ ReadError
  \/ TimerExpires
  \/ Timeout
  \/ AlarmSignal
=============================================================================
