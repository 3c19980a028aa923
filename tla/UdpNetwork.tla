----------------------------- MODULE UdpNetwork -----------------------------
(***************************************************************************)
(* The UDP path between one sender and one receiver of hw2, with the two   *)
(* sockets' buffers folded into it.  This is the operating system and the  *)
(* network, not code of the repository: it is modelled from how            *)
(* hw2/sender/sender.hpp and hw2/receiver/receiver.hpp use it.             *)
(***************************************************************************)
EXTENDS Integers, Sequences, SequencesExt

CONSTANTS
  Capacity,   \* datagrams a direction holds; one more is dropped (full buffer)
  Reorder     \* TRUE: a datagram may overtake an earlier one

ASSUME UdpNetworkAssumption ==
  /\ Capacity \in Nat \ {0}
  /\ Reorder \in BOOLEAN

VARIABLES
  toReceiver,  \* packets on their way to the receiver, oldest first
  toSender,    \* acknowledgements (syn values) on their way back
  soError      \* sender's socket holds an ICMP port-unreachable error

netVars == <<toReceiver, toSender, soError>>

NetInit ==
  /\ toReceiver = <<>>
  /\ toSender = <<>>
  /\ soError = FALSE

(* sendto()/write() never blocks: a datagram that finds no room is lost. *)
Post(ch, m) == IF Len(ch) < Capacity THEN Append(ch, m) ELSE ch

(* The positions of ch a receive may take. *)
Deliverable(ch) == IF Reorder THEN 1..Len(ch) ELSE {1} \cap 1..Len(ch)

LosePacket ==
  /\ \E i \in 1..Len(toReceiver) : toReceiver' = RemoveAt(toReceiver, i)
  /\ UNCHANGED <<toSender, soError>>

LoseAck ==
  /\ \E i \in 1..Len(toSender) : toSender' = RemoveAt(toSender, i)
  /\ UNCHANGED <<toReceiver, soError>>

(* The network delivers a datagram twice; the copy follows the original. *)
DuplicatePacket ==
  /\ Len(toReceiver) < Capacity
  /\ \E i \in 1..Len(toReceiver) :
       toReceiver' = InsertAt(toReceiver, i, toReceiver[i])
  /\ UNCHANGED <<toSender, soError>>

DuplicateAck ==
  /\ Len(toSender) < Capacity
  /\ \E i \in 1..Len(toSender) :
       toSender' = InsertAt(toSender, i, toSender[i])
  /\ UNCHANGED <<toReceiver, soError>>

(* A packet reaches a host on which no receiver is bound to the port: it is *)
(* discarded, and the ICMP answer may or may not reach the sender's socket.  *)
Unreachable ==
  /\ \E i \in Deliverable(toReceiver) : toReceiver' = RemoveAt(toReceiver, i)
  /\ \E icmp \in BOOLEAN : soError' = (soError \/ icmp)
  /\ UNCHANGED toSender
=============================================================================
