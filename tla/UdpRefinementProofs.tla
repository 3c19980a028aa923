------------------------ MODULE UdpRefinementProofs ------------------------
(***************************************************************************)
(* UdpTransfer implements FileCopy on a path that keeps the order of       *)
(* datagrams: the initial states map to initial states, and every step     *)
(* maps to a step of FileCopy or leaves its variables alone.               *)
(***************************************************************************)
EXTENDS UdpTransferProofs

(* What the mapping is made of. *)
LEMMA MappingFacts ==
  ASSUME TypeOK, Inv
  PROVE  /\ LastChunk \in Nat /\ FinSyn = LastChunk + 2
         /\ pkt.syn \in 1..FinSyn
         /\ Len(written) \in 0..(LastChunk + 1)
         /\ stream.open /\ ~stream.fail => Len(written) = lastSyn - 1
         /\ stream.open => Len(written) <= LastChunk /\ lastSyn # -1
         /\ outcome = "finished" => pkt.syn = FinSyn
         /\ outcome = "none" <=> pc # "closed"
<1>1. LastChunk \in Nat /\ FinSyn = LastChunk + 2
  BY FinSynType
<1>2. Len(written) \in Nat /\ Len(written) <= LastChunk + 1
  BY DEF TypeOK, Inv, StreamInv, InOrder
<1> QED  BY <1>1, <1>2 DEF Inv, SenderInv, StreamInv

LEMMA InitMaps == Init => Copy!CopyInit
<1> SUFFICES ASSUME Init PROVE Copy!CopyInit
  OBVIOUS
<1>1. pkt.syn = 1 /\ outcome = "none" /\ ~stream.open /\ Len(written) = 0
  BY DEF Init, SenderInit, ReceiverInit, ClosedStream, NamePacket
<1>2. LastChunk + 1 # 0
  BY FinSynType
<1> QED  BY <1>1, <1>2 DEF Copy!CopyInit, Confirmed, Sound

(* An acknowledgement that matches confirms a chunk, or the name packet. *)
LEMMA AckMaps ==
  ASSUME TypeOK, Inv, NEW i \in 1..Len(toSender), AckMatches(i),
         UNCHANGED receiverVars
  PROVE  Copy!Confirm \/ UNCHANGED Copy!copyVars
<1>1. UNCHANGED <<Len(written), Sound>>
  BY DEF receiverVars, Sound, LastChunk
<1>2. pc = "wait" /\ toSender[i] = pkt.syn /\ pkt.syn \in Nat
  BY DEF AckMatches, Acknowledges, TypeOK, Packet
<1>3. pkt.syn # 1 => (Sound => pkt.syn - 2 < Len(written))
  <2>1. CASE stream.open /\ ~stream.fail
    <3>1. lastSyn = pkt.syn
      BY <1>2, <2>1, MatchFacts, MappingFacts
    <3> QED  BY <1>2, <2>1, <3>1, MappingFacts
  <2>2. CASE Len(written) = LastChunk + 1
    BY <2>2, MappingFacts
  <2> QED  BY <2>1, <2>2 DEF Sound
<1>4. CASE NextPacket
  <2>1. /\ pkt.syn # FinSyn /\ outcome = "none" /\ outcome' = "none"
        /\ syn = pkt.syn + 1 /\ pkt' = DataPacket(syn, pos)
    BY <1>2, <1>4 DEF Inv, SenderInv, NextPacket
  <2>2. pkt'.syn = pkt.syn + 1
    BY <2>1 DEF DataPacket
  <2>3. CASE pkt.syn = 1
    BY <1>1, <2>1, <2>2, <2>3 DEF Copy!copyVars, Confirmed
  <2>4. CASE pkt.syn # 1
    <3>1. Confirmed = pkt.syn - 2 /\ Confirmed' = Confirmed + 1
      <4>1. pkt.syn >= 1 /\ pkt'.syn # 1 /\ pkt'.syn - 2 = pkt.syn - 2 + 1
        BY <1>2, <2>2, MappingFacts
      <4> QED  BY <2>1, <2>4, <4>1 DEF Confirmed
    <3>2. Confirmed < LastChunk + 1
      BY <2>1, <3>1, MappingFacts
    <3> QED  BY <1>1, <1>3, <2>4, <3>1, <3>2 DEF Copy!Confirm
  <2> QED  BY <2>3, <2>4
<1>5. CASE Finish
  <2>1. pkt.syn = FinSyn /\ outcome = "none" /\ outcome' = "finished"
    BY <1>2, <1>5 DEF Inv, SenderInv, Finish
  <2>2. /\ pkt.syn # 1 /\ Confirmed = pkt.syn - 2
        /\ Confirmed < LastChunk + 1 /\ Confirmed + 1 = LastChunk + 1
    BY <2>1, MappingFacts DEF Confirmed
  <2>3. Confirmed' = Confirmed + 1
    BY <2>1, <2>2 DEF Confirmed, LastChunk
  <2> QED  BY <1>1, <1>3, <2>2, <2>3 DEF Copy!Confirm
<1> QED  BY <1>4, <1>5 DEF AckMatches, Acknowledges

(* A packet at the receiver opens the file, stores a chunk, breaks the        *)
(* stream, or is a copy of the last one.                                      *)
LEMMA ReceiveMaps ==
  ASSUME TypeOK, Inv, 1 \in 1..Len(toReceiver), ReceivePacket(1),
         UNCHANGED senderVars
  PROVE  Copy!Open \/ Copy!Store \/ Copy!Break \/ UNCHANGED Copy!copyVars
<1> DEFINE s == toReceiver[1].syn
           p == PacketOf(s)
<1>1. /\ s \in 1..FinSyn /\ s \in {pkt.syn - 1, pkt.syn} /\ lastSyn <= s
      /\ outcome = "finished" => s = FinSyn
      /\ toReceiver[1] = p
      /\ pkt.syn \in Nat
  BY HeadFacts DEF TypeOK, Packet
<1>2. /\ p.offset = NameMarker <=> s = 1
      /\ p.fin <=> s = FinSyn
      /\ s = 1 => p.data_size > 0
      /\ s # 1 => p.data_size > 0 \/ p.fin
  BY <1>1, PacketOfFacts
<1>3. \/ s = 1 /\ OpenFile(p)
      \/ s # 1 /\ s # lastSyn /\ WriteData(p)
      \/ s # 1 /\ s = lastSyn /\ UNCHANGED <<stream, written>>
  BY <1>1, <1>2 DEF ReceivePacket, IsNew
<1>4. UNCHANGED Confirmed
  BY DEF senderVars, Confirmed, LastChunk
<1>5. /\ LastChunk \in Nat /\ FinSyn = LastChunk + 2
      /\ Len(written) \in 0..(LastChunk + 1)
      /\ written \in Seq([from : Nat, len : Nat])
      /\ stream.open /\ ~stream.fail => Len(written) = lastSyn - 1 /\ lastSyn # -1
      /\ stream.open => Len(written) <= LastChunk
      /\ lastSyn # -1 => lastSyn \in {pkt.syn - 1, pkt.syn} /\ lastSyn >= 1
  BY MappingFacts DEF Inv, ReceiverInv, TypeOK
<1>6. Sound' <=> \/ stream'.open /\ ~stream'.fail
                 \/ Len(written') = LastChunk + 1
  BY DEF Sound, LastChunk
<1> HIDE DEF s, p
<1>7. CASE s = 1 /\ OpenFile(p)
  <2>1. Confirmed = 0
    BY <1>1, <1>5, <1>7 DEF Confirmed
  <2>2. CASE ~stream.open
    <3>1. stream'.open /\ ~stream'.fail /\ written' = <<>>
      BY <1>2, <1>7, <2>2 DEF OpenFile
    <3>2. Sound' = TRUE /\ Len(written') = 0
      BY <1>6, <3>1 DEF Sound
    <3> QED  BY <1>4, <2>1, <3>2 DEF Copy!Open
  <2>3. CASE stream.open
    <3>1. stream'.fail /\ written' = written
      BY <1>7, <2>3 DEF OpenFile
    <3>2. Len(written) # LastChunk + 1 /\ Len(written) \in 0..Len(written)
      BY <1>5, <2>3
    <3>3. Sound' = FALSE
      BY <1>6, <3>1, <3>2 DEF Sound
    <3> QED  BY <1>4, <3>1, <3>2, <3>3 DEF Copy!Break
  <2> QED  BY <2>2, <2>3
<1>8. CASE s # 1 /\ s # lastSyn /\ WriteData(p)
  <2>1. CASE stream.open /\ ~stream.fail
    <3> DEFINE piece == [from |-> p.from, len |-> p.data_size]
    <3>1. Len(written) = s - 2 /\ s \in Nat
      BY <1>1, <1>5, <1>8, <2>1
    <3>2. /\ written' = Append(written, piece)
          /\ stream'.open <=> ~p.fin
          /\ ~stream'.fail
      BY <1>8, <2>1 DEF WriteData
    <3>3. Len(written') = Len(written) + 1
      BY <1>5, <3>2
    <3>4. Sound = TRUE
      BY <2>1 DEF Sound
    <3>5. Sound' = TRUE
      BY <1>2, <1>5, <1>6, <3>1, <3>2, <3>3 DEF Sound
    <3>6. Len(written) < LastChunk + 1
      BY <1>5, <2>1
    <3> QED  BY <1>4, <3>3, <3>4, <3>5, <3>6 DEF Copy!Store
  <2>2. CASE ~(stream.open /\ ~stream.fail)
    <3>1. written' = written /\ stream'.fail
      BY <1>2, <1>8, <2>2 DEF WriteData
    <3>2. Sound' = Sound
      BY <1>6, <2>2, <3>1 DEF Sound
    <3> QED  BY <1>4, <3>1, <3>2 DEF Copy!copyVars
  <2> QED  BY <2>1, <2>2
<1>9. CASE s # 1 /\ s = lastSyn /\ UNCHANGED <<stream, written>>
  <2>1. Sound' = Sound
    BY <1>6, <1>9 DEF Sound
  <2> QED  BY <1>4, <1>9, <2>1 DEF Copy!copyVars
<1> QED  BY <1>3, <1>7, <1>8, <1>9

(* The death of the receiver breaks the sink, unless the file is complete. *)
LEMMA CrashMaps ==
  ASSUME TypeOK, Inv, CrashReceiver, UNCHANGED senderVars
  PROVE  Copy!Break \/ UNCHANGED Copy!copyVars
<1>1. UNCHANGED Confirmed
  BY DEF senderVars, Confirmed, LastChunk
<1>2. PICK n \in 0..Len(written) : /\ ~stream.open => n = Len(written)
                                   /\ written' = SubSeq(written, 1, n)
  BY DEF CrashReceiver
<1>3. /\ LastChunk \in Nat /\ Len(written) \in 0..(LastChunk + 1)
      /\ stream.open => Len(written) <= LastChunk
      /\ written \in Seq([from : Nat, len : Nat])
  BY MappingFacts DEF TypeOK
<1>4. Len(written') = n
  <2>1. n \in Nat /\ n <= Len(written) /\ \A i \in 1..n : i \in 1..Len(written)
    BY <1>3
  <2>2. \A i \in 1..n : written[i] \in [from : Nat, len : Nat]
    BY <1>3, <2>1, ElementOfSeq
  <2>3. Len(SubSeq(written, 1, n)) = IF 1 <= n THEN n - 1 + 1 ELSE 0
    BY <2>1, <2>2, SubSeqProperties
  <2> QED  BY <1>2, <2>1, <2>3
<1>5. ~stream'.open
  BY DEF CrashReceiver, ClosedStream
<1>6. Sound' <=> Len(written') = LastChunk + 1
  BY <1>5 DEF Sound, LastChunk
<1>7. CASE Len(written) = LastChunk + 1
  <2>1. n = Len(written)
    BY <1>2, <1>3, <1>7
  <2>2. Sound' = Sound
    BY <1>4, <1>6, <1>7, <2>1 DEF Sound
  <2> QED  BY <1>1, <1>4, <2>1, <2>2 DEF Copy!copyVars
<1>8. CASE Len(written) # LastChunk + 1
  <2>1. Len(written') # LastChunk + 1 /\ Len(written') \in 0..Len(written)
    BY <1>3, <1>4, <1>8
  <2>2. Sound' = FALSE
    BY <1>6, <2>1 DEF Sound
  <2> QED  BY <1>1, <1>8, <2>1, <2>2 DEF Copy!Break
<1> QED  BY <1>7, <1>8

(* Every other step leaves what FileCopy speaks of alone. *)
LEMMA OtherMaps ==
  ASSUME UNCHANGED <<pkt, written, stream>>,
         outcome' = "finished" <=> outcome = "finished"
  PROVE  UNCHANGED Copy!copyVars
BY DEF Copy!copyVars, Confirmed, Sound, LastChunk

(* The transfer of send_file, send_packet and Receiver::run over an ordered,  *)
(* lossy and duplicating path, with a receiver that may die, is the chunk by  *)
(* chunk copy that FileCopy describes.                                        *)
THEOREM TransferImplementsCopy ==
  ASSUME ~Reorder
  PROVE  Spec => ImplementsFileCopy
<1>1. Init => Copy!CopyInit
  BY InitMaps
<1>2. TypeOK /\ Inv /\ [Next]_vars => [Copy!CopyNext]_(Copy!copyVars)
  <2> SUFFICES ASSUME TypeOK, Inv, [Next]_vars
               PROVE  Copy!CopyNext \/ UNCHANGED Copy!copyVars
    OBVIOUS
  <2>0. Len(toReceiver) \in Nat /\ Len(toSender) \in Nat
    BY DEF TypeOK
  <2>1. CASE ReadAck /\ UNCHANGED receiverVars
    <3>1. PICK i \in 1..Len(toSender) : AckMatches(i) \/ AckStale(i)
      BY <2>0, <2>1, DeliverableIsPosition DEF ReadAck
    <3>2. CASE AckMatches(i)
      BY <2>1, <3>2, AckMaps DEF Copy!CopyNext
    <3>3. CASE AckStale(i)
      BY <2>1, <3>3, OtherMaps DEF AckStale, Acknowledges, receiverVars
    <3> QED  BY <3>1, <3>2, <3>3
  <2>2. CASE ReadError /\ UNCHANGED receiverVars
    <3>1. outcome # "finished"
      BY <2>2, MappingFacts DEF ReadError
    <3> QED  BY <2>2, <3>1, OtherMaps DEF ReadError, receiverVars
  <2>3. CASE /\ SendPacket \/ TimerExpires \/ Timeout \/ AlarmSignal
             /\ UNCHANGED receiverVars
    BY <2>3, OtherMaps
    DEF SendPacket, StartWait, TimerExpires, Timeout, AlarmSignal, receiverVars
  <2>4. CASE ReceiveAny /\ UNCHANGED senderVars
    <3>1. PICK i \in Deliverable(toReceiver) : ReceivePacket(i)
      BY <2>4 DEF ReceiveAny
    <3>2. i = 1 /\ 1 \in 1..Len(toReceiver)
      BY <2>0, DeliverableIsPosition
    <3> QED  BY <2>4, <3>1, <3>2, ReceiveMaps DEF Copy!CopyNext
  <2>5. CASE StartReceiver /\ UNCHANGED senderVars
    BY <2>5, OtherMaps DEF StartReceiver, senderVars
  <2>6. CASE CrashReceiver /\ UNCHANGED senderVars
    BY <2>6, CrashMaps DEF Copy!CopyNext
  <2>7. CASE UNCHANGED <<senderVars, receiverVars>>
    BY <2>7, OtherMaps DEF senderVars, receiverVars
  <2> QED
    BY <2>1, <2>2, <2>3, <2>4, <2>5, <2>6, <2>7
    DEF Next, SenderStep, ReceiverStep, Quiescent, vars
<1> QED  BY <1>1, <1>2, Invariance, PTL DEF Spec, ImplementsFileCopy, Copy!CopySpec
=============================================================================
