----------------------------- MODULE UdpTransfer -----------------------------
(***************************************************************************)
(* hw2: one sender transferring one file to one receiver over UDP.         *)
(***************************************************************************)
EXTENDS UdpSender, UdpReceiver

vars == <<senderVars, receiverVars, netVars>>

Init == SenderInit /\ ReceiverInit /\ NetInit

(* The receiver blocks in recvfrom() for ever after the transfer is over. *)
Quiescent ==
  /\ pc = "closed"
  /\ toReceiver = <<>>
  /\ UNCHANGED vars

NetworkFault == LosePacket \/ LoseAck \/ DuplicatePacket \/ DuplicateAck

Next ==
  \/ SenderStep /\ UNCHANGED receiverVars
  \/ ReceiverStep /\ UNCHANGED senderVars
  \/ NetworkFault /\ UNCHANGED <<senderVars, receiverVars>>
  \/ ~up /\ Unreachable /\ UNCHANGED <<senderVars, receiverVars>>
  \/ Quiescent

Spec == Init /\ [][Next]_vars

(***************************************************************************)
(* Processes that can run do run, clocks advance and a receiver that died  *)
(* is started again.  The read is strongly fair: it returns at once when   *)
(* an acknowledgement is there, so the timer cannot win for ever.  Of the  *)
(* network only this is assumed: at some time it stops losing and          *)
(* duplicating datagrams, however many are lost in full buffers.           *)
(***************************************************************************)
Fairness ==
  /\ WF_vars((SendPacket \/ ReadError) /\ UNCHANGED receiverVars)
  /\ WF_vars(TimerExpires /\ UNCHANGED receiverVars)
  /\ WF_vars((Timeout \/ AlarmSignal) /\ UNCHANGED receiverVars)
  /\ SF_vars(ReadAck /\ UNCHANGED receiverVars)
  /\ WF_vars((ReceiveAny \/ StartReceiver) /\ UNCHANGED senderVars)
  /\ <>[][~NetworkFault]_vars

FairSpec == Spec /\ Fairness

-----------------------------------------------------------------------------
TypeOK ==
  /\ toReceiver \in Seq(Packet) /\ Len(toReceiver) <= Capacity
  /\ toSender \in Seq(Nat) /\ Len(toSender) <= Capacity
  /\ soError \in BOOLEAN
  /\ pc \in {"send", "wait", "closed"}
  /\ pkt \in Packet
  /\ syn \in Nat
  /\ pos \in 0..FileSize
  /\ connecting \in BOOLEAN
  /\ timer \in {"off", "armed", "fired"}
  /\ outcome \in {"none", "finished", "aborted"}
  /\ up \in BOOLEAN
  /\ lastSyn \in Nat \cup {-1}
  /\ stream \in [open : BOOLEAN, fail : BOOLEAN]
  /\ written \in Seq([from : Nat, len : Nat])
  /\ crashes \in 0..MaxCrashes

(* On a path that keeps the order of datagrams the output file is at every    *)
(* moment a prefix of the input file, cut at chunk boundaries: whatever is    *)
(* lost, duplicated or sent again, and whenever the receiver dies, no chunk   *)
(* is stored twice, skipped or stored out of turn.                            *)
InOrder ==
  /\ Len(written) <= LastChunk + 1
  /\ \A i \in 1..Len(written) : written[i] = Chunk(i - 1)

(* A sender that ends by the last acknowledgement leaves a complete, closed   *)
(* file behind, provided the receiver did not die and its stream never        *)
(* failed.  (The proviso on the stream is what EveryFinishIsComplete lacks.)  *)
CompleteWhenFinished ==
  outcome = "finished" /\ crashes = 0 /\ ~stream.fail =>
    ~stream.open /\ Len(written) = LastChunk + 1

(* The sender's own claim: "succeed!" for each packet, and a packet is sent   *)
(* again while it has not succeeded.  Then a finished transfer has stored the *)
(* whole file.                                                                *)
EveryFinishIsComplete ==
  outcome = "finished" => Len(written) = LastChunk + 1

(* The sender is never more than one packet ahead of a receiver that has not  *)
(* died: a packet is left behind only when the receiver has processed it.     *)
NeverAhead == crashes = 0 => pkt.syn <= (IF lastSyn < 0 THEN 0 ELSE lastSyn) + 1

(* A sender that is blocked for an acknowledgement has a timer that runs or   *)
(* has run out: a lost datagram never leaves it blocked for ever.             *)
WaitHasTimer == pc = "wait" => timer # "off"

(* Header.offset wraps for files beyond the int range, and still no data      *)
(* packet is ever taken for a name packet, which would open the file again.   *)
OnlyNameIsMarked ==
  \A i \in 1..Len(toReceiver) :
    toReceiver[i].offset = NameMarker <=> toReceiver[i].syn = 1

(* Once the sender has finished nothing changes the output file any more,     *)
(* neither a duplicate still on its way nor a crash of the receiver.          *)
FinishedFileIsStable == [][outcome = "finished" => written' = written]_vars

(* Every transfer of a readable file comes to an end. *)
Termination == <>(pc = "closed")

-----------------------------------------------------------------------------
(***************************************************************************)
(* The transfer implements FileCopy.  A data packet with sequence number s *)
(* carries chunk s - 2; the sink is sound while the stream takes data, and *)
(* once the file is complete.                                              *)
(***************************************************************************)
Confirmed ==
  IF outcome = "finished" THEN LastChunk + 1
  ELSE IF pkt.syn = 1 THEN 0 ELSE pkt.syn - 2

Sound ==
  \/ stream.open /\ ~stream.fail
  \/ Len(written) = LastChunk + 1

Copy == INSTANCE FileCopy WITH
  Chunks <- LastChunk + 1, confirmed <- Confirmed,
  stored <- Len(written), sound <- Sound

ImplementsFileCopy == Copy!CopySpec
=============================================================================
