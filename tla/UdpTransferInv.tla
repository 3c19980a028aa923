--------------------------- MODULE UdpTransferInv ---------------------------
(***************************************************************************)
(* The inductive invariant behind the safety of UdpTransfer on a path that *)
(* keeps the order of datagrams (Reorder = FALSE), in named parts.         *)
(***************************************************************************)
EXTENDS UdpTransfer

(* The only packet send_file ever builds with sequence number s. *)
PacketOf(s) ==
  IF s = 1 THEN NamePacket ELSE DataPacket(s, (s - 2) * MaxDataSize)

(* The sequence number of the packet that carries the last chunk. *)
FinSyn == LastChunk + 2

(* The sender works through the packets 1..FinSyn, its input stream stands   *)
(* at the chunk that comes next, and it stops reading after the last one.     *)
SenderInv ==
  /\ pkt.syn \in 1..FinSyn
  /\ pkt = PacketOf(pkt.syn)
  /\ syn = pkt.syn + 1
  /\ outcome = "none" <=> pc # "closed"
  /\ pc # "closed" => (connecting <=> pkt.syn # FinSyn)
  /\ pc # "closed" /\ connecting => pos = (pkt.syn - 1) * MaxDataSize
  /\ outcome = "finished" => pkt.syn = FinSyn

(* Packets on their way are the sender's present and previous one, in order,  *)
(* and none is older than what the receiver processed last.                   *)
PacketsInv ==
  \A i \in 1..Len(toReceiver) :
    /\ toReceiver[i] = PacketOf(toReceiver[i].syn)
    /\ toReceiver[i].syn \in {pkt.syn - 1, pkt.syn} /\ toReceiver[i].syn >= 1
    /\ outcome = "finished" => toReceiver[i].syn = FinSyn
    /\ lastSyn <= toReceiver[i].syn
    /\ \A j \in 1..Len(toReceiver) :
         i <= j => toReceiver[i].syn <= toReceiver[j].syn

(* An acknowledgement on its way is not newer than any packet that still is,  *)
(* nor than what the receiver processed last if it remembers.                 *)
AcksInv ==
  \A i \in 1..Len(toSender) :
    /\ toSender[i] <= pkt.syn
    /\ lastSyn # -1 => toSender[i] <= lastSyn
    /\ crashes = 0 => lastSyn # -1
    /\ \A j \in 1..Len(toReceiver) : toSender[i] <= toReceiver[j].syn

(* The receiver is at most one packet behind if it remembers where it was. *)
ReceiverInv ==
  /\ lastSyn # -1 => lastSyn \in {pkt.syn - 1, pkt.syn} /\ lastSyn >= 1
  /\ lastSyn = -1 /\ crashes = 0 => pkt.syn = 1 /\ outcome # "finished"
  /\ outcome = "finished" /\ lastSyn # -1 => lastSyn = FinSyn
  /\ up \/ lastSyn = -1

(* What the output stream holds. *)
StreamInv ==
  /\ InOrder
  /\ stream.open => /\ lastSyn # -1 /\ lastSyn < FinSyn
                    /\ Len(written) <= LastChunk
  /\ stream.open /\ ~stream.fail => Len(written) = lastSyn - 1
  /\ crashes = 0 /\ ~stream.open /\ ~stream.fail =>
       lastSyn = -1 \/ Len(written) = LastChunk + 1

Inv == SenderInv /\ PacketsInv /\ AcksInv /\ ReceiverInv /\ StreamInv

(* While the sender still reads its file it stands at the start of a chunk; no *)
(* order of datagrams is needed for what it builds from there.                 *)
MarkInv ==
  /\ pkt.offset = NameMarker <=> pkt.syn = 1
  /\ syn >= 2
  /\ connecting => \E k \in 0..pos : pos = k * MaxDataSize
  /\ OnlyNameIsMarked
=============================================================================
