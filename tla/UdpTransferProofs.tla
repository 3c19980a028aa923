------------------------- MODULE UdpTransferProofs -------------------------
(***************************************************************************)
(* Proofs of the safety properties of UdpTransfer.                         *)
(***************************************************************************)
EXTENDS UdpTransferInv, SequenceTheorems, TLAPS

-----------------------------------------------------------------------------
(* Sequences: what the channel operators return. *)

(* RemoveAt takes out one element and keeps the order of the others. *)
LEMMA RemoveAtProperties ==
  ASSUME NEW S, NEW s \in Seq(S), NEW i \in 1..Len(s)
  PROVE  /\ RemoveAt(s, i) \in Seq(S)
         /\ Len(RemoveAt(s, i)) = Len(s) - 1
         /\ \A j \in 1..(Len(s) - 1) :
              RemoveAt(s, i)[j] = s[IF j < i THEN j ELSE j + 1]
<1> DEFINE front == SubSeq(s, 1, i - 1)
           back  == SubSeq(s, i + 1, Len(s))
<1>0. Len(s) \in Nat /\ \A j \in 1..Len(s) : s[j] \in S
  BY LenProperties, ElementOfSeq
<1>1. /\ front \in Seq(S)
      /\ Len(front) = i - 1
      /\ \A j \in 1..(i - 1) : front[j] = s[j]
  <2>1. \A j \in 1..(i - 1) : s[j] \in S
    BY <1>0
  <2>2. 1 \in Int /\ i - 1 \in Int
    BY <1>0
  <2>3. /\ front \in Seq(S)
        /\ Len(front) = IF 1 <= i - 1 THEN (i - 1) - 1 + 1 ELSE 0
        /\ \A j \in 1..((i - 1) - 1 + 1) : front[j] = s[1 + j - 1]
    BY <2>1, <2>2, SubSeqProperties
  <2> QED  BY <1>0, <2>3
<1>2. /\ back \in Seq(S)
      /\ Len(back) = Len(s) - i
      /\ \A j \in 1..(Len(s) - i) : back[j] = s[i + j]
  <2>1. \A j \in (i + 1)..Len(s) : s[j] \in S
    BY <1>0
  <2>2. i + 1 \in Int /\ Len(s) \in Int
    BY <1>0
  <2>3. /\ back \in Seq(S)
        /\ Len(back) = IF i + 1 <= Len(s) THEN Len(s) - (i + 1) + 1 ELSE 0
        /\ \A j \in 1..(Len(s) - (i + 1) + 1) : back[j] = s[(i + 1) + j - 1]
    BY <2>1, <2>2, SubSeqProperties
  <2> QED  BY <1>0, <2>3
<1>3. RemoveAt(s, i) = front \o back
  BY DEF RemoveAt
<1> HIDE DEF front, back
<1>4. /\ front \o back \in Seq(S)
      /\ Len(front \o back) = Len(front) + Len(back)
      /\ \A j \in 1..(Len(front) + Len(back)) :
           (front \o back)[j] = IF j <= Len(front) THEN front[j]
                                ELSE back[j - Len(front)]
  BY <1>1, <1>2, ConcatProperties
<1> QED  BY <1>0, <1>1, <1>2, <1>3, <1>4

(* A channel from which a datagram was taken is still within its capacity. *)
LEMMA RemoveAtKeepsChannel ==
  ASSUME NEW S, NEW s \in Seq(S), Len(s) <= Capacity, NEW i \in 1..Len(s)
  PROVE  RemoveAt(s, i) \in Seq(S) /\ Len(RemoveAt(s, i)) <= Capacity
<1>1. RemoveAt(s, i) \in Seq(S) /\ Len(RemoveAt(s, i)) = Len(s) - 1
  BY RemoveAtProperties
<1>2. Len(s) \in Nat /\ Capacity \in Nat
  BY LenProperties, UdpNetworkAssumption DEF UdpNetworkAssumption
<1> QED
  BY <1>1, <1>2

(* InsertAt(s, i, s[i]) repeats element i and keeps the order. *)
LEMMA InsertAtProperties ==
  ASSUME NEW S, NEW s \in Seq(S), NEW i \in 1..Len(s)
  PROVE  /\ InsertAt(s, i, s[i]) \in Seq(S)
         /\ Len(InsertAt(s, i, s[i])) = Len(s) + 1
         /\ \A j \in 1..(Len(s) + 1) :
              InsertAt(s, i, s[i])[j] = s[IF j <= i THEN j ELSE j - 1]
<1> DEFINE front == SubSeq(s, 1, i - 1)
           back  == SubSeq(s, i, Len(s))
<1>0. Len(s) \in Nat /\ \A j \in 1..Len(s) : s[j] \in S
  BY LenProperties, ElementOfSeq
<1>1. /\ front \in Seq(S)
      /\ Len(front) = i - 1
      /\ \A j \in 1..(i - 1) : front[j] = s[j]
  <2>1. \A j \in 1..(i - 1) : s[j] \in S
    BY <1>0
  <2>2. 1 \in Int /\ i - 1 \in Int
    BY <1>0
  <2>3. /\ front \in Seq(S)
        /\ Len(front) = IF 1 <= i - 1 THEN (i - 1) - 1 + 1 ELSE 0
        /\ \A j \in 1..((i - 1) - 1 + 1) : front[j] = s[1 + j - 1]
    BY <2>1, <2>2, SubSeqProperties
  <2> QED  BY <1>0, <2>3
<1>2. /\ back \in Seq(S)
      /\ Len(back) = Len(s) - i + 1
      /\ \A j \in 1..(Len(s) - i + 1) : back[j] = s[i + j - 1]
  <2>1. \A j \in i..Len(s) : s[j] \in S
    BY <1>0
  <2>2. i \in Int /\ Len(s) \in Int
    BY <1>0
  <2>3. /\ back \in Seq(S)
        /\ Len(back) = IF i <= Len(s) THEN Len(s) - i + 1 ELSE 0
        /\ \A j \in 1..(Len(s) - i + 1) : back[j] = s[i + j - 1]
    BY <2>1, <2>2, SubSeqProperties
  <2> QED  BY <1>0, <2>3
<1> DEFINE one == <<s[i]>>
<1>3. InsertAt(s, i, s[i]) = (front \o one) \o back
  BY DEF InsertAt
<1>4. one \in Seq(S) /\ Len(one) = 1 /\ one[1] = s[i]
  BY <1>0
<1> HIDE DEF front, one, back
<1>5. /\ front \o one \in Seq(S)
      /\ Len(front \o one) = i
      /\ \A j \in 1..i : (front \o one)[j] = s[j]
  <2>1. /\ front \o one \in Seq(S)
        /\ Len(front \o one) = Len(front) + Len(one)
        /\ \A j \in 1..(Len(front) + Len(one)) :
             (front \o one)[j] = IF j <= Len(front) THEN front[j]
                                 ELSE one[j - Len(front)]
    BY <1>1, <1>4, ConcatProperties
  <2> QED  BY <1>0, <1>1, <1>4, <2>1
<1> DEFINE upto == front \o one
<1> HIDE DEF upto
<1>6. /\ upto \o back \in Seq(S)
      /\ Len(upto \o back) = Len(upto) + Len(back)
      /\ \A j \in 1..(Len(upto) + Len(back)) :
           (upto \o back)[j] = IF j <= Len(upto) THEN upto[j]
                               ELSE back[j - Len(upto)]
  <2>1. upto \in Seq(S)
    BY <1>5 DEF upto
  <2> QED  BY <1>2, <2>1, ConcatProperties
<1>7. InsertAt(s, i, s[i]) = upto \o back /\ Len(upto) = i
      /\ \A j \in 1..i : upto[j] = s[j]
  BY <1>3, <1>5 DEF upto
<1>8. \A j \in 1..(Len(s) + 1) : j > i => back[j - i] = s[j - 1]
  BY <1>0, <1>2
<1> QED  BY <1>0, <1>2, <1>6, <1>7, <1>8

(* Post appends the message or changes nothing. *)
LEMMA PostProperties ==
  ASSUME NEW S, NEW s \in Seq(S), NEW m \in S
  PROVE  /\ Post(s, m) \in Seq(S)
         /\ Len(s) <= Capacity => Len(Post(s, m)) <= Capacity
         /\ Len(Post(s, m)) \in {Len(s), Len(s) + 1}
         /\ \A j \in 1..Len(s) : Post(s, m)[j] = s[j]
         /\ Len(Post(s, m)) = Len(s) + 1 => Post(s, m)[Len(s) + 1] = m
<1>1. Len(s) \in Nat /\ Capacity \in Nat
  BY LenProperties, UdpNetworkAssumption
<1>2. /\ Append(s, m) \in Seq(S)
      /\ Len(Append(s, m)) = Len(s) + 1
      /\ \A j \in 1..Len(s) : Append(s, m)[j] = s[j]
      /\ Append(s, m)[Len(s) + 1] = m
  BY AppendProperties
<1> QED  BY <1>1, <1>2 DEF Post

(* A receive takes an element of the channel, the first when order is kept. *)
LEMMA DeliverableIsPosition ==
  ASSUME NEW ch, Len(ch) \in Nat, NEW i \in Deliverable(ch)
  PROVE  i \in 1..Len(ch) /\ (~Reorder => i = 1)
BY DEF Deliverable

-----------------------------------------------------------------------------
(* Arithmetic of file positions. *)

(* The remainder of a division differs from the dividend by a multiple. *)
LEMMA Remainder ==
  ASSUME NEW n \in Nat, NEW m \in Nat, m > 0
  PROVE  \E q \in Int : n % m = n - m * q /\ n % m \in Int
<1>1. n % m = n - m * (n \div m) /\ n \div m \in Int /\ n % m \in Int
  OBVIOUS
<1> QED  BY <1>1

(* LastChunk is the quotient of the file size and the chunk size. *)
LEMMA LastChunkProperties ==
  /\ LastChunk \in Nat
  /\ LastChunk * MaxDataSize <= FileSize
  /\ FileSize - LastChunk * MaxDataSize < MaxDataSize
BY UdpFileAssumption, SMTT(30) DEF LastChunk

(* A chunk before the last one is full. *)
LEMMA ChunkIsFull ==
  ASSUME NEW k \in Nat, k < LastChunk
  PROVE  (k + 1) * MaxDataSize <= FileSize /\ k * MaxDataSize \in Nat
         /\ k * MaxDataSize + MaxDataSize = (k + 1) * MaxDataSize
BY LastChunkProperties, UdpFileAssumption, SMTT(30)

(* The marker of the name packet is odd, every chunk begins at an even        *)
(* position, and so does its truncation to an int.                            *)
LEMMA OffsetIsNoMarker ==
  ASSUME NEW k \in Nat
  PROVE  AsInt(k * MaxDataSize) \in Int /\ AsInt(k * MaxDataSize) # NameMarker
<1> DEFINE n == k * MaxDataSize + HalfInt
           m == 2 * HalfInt
<1>1. PICK a \in Nat, b \in Nat : MaxDataSize = 2 * a /\ HalfInt = 2 * b
  BY UdpFileAssumption
<1>2. k * MaxDataSize = 2 * (k * a) /\ k * a \in Nat
  BY <1>1
<1>3. n \in Nat /\ m \in Nat \ {0} /\ n = 2 * (k * a + b)
  BY <1>1, <1>2, UdpFileAssumption
<1>4. PICK q \in Int : n % m = n - m * q /\ n % m \in Int
  <2> HIDE DEF n, m
  <2>1. n \in Nat /\ m \in Nat /\ m > 0
    BY <1>3
  <2> QED  BY <2>1, Remainder
<1>5. m * q = 2 * (HalfInt * q) /\ HalfInt * q \in Int
  BY UdpFileAssumption
<1>6. n % m = 2 * (k * a + b - HalfInt * q)
  BY <1>1, <1>2, <1>3, <1>4, <1>5
<1>7. AsInt(k * MaxDataSize) = 2 * (k * a + b - HalfInt * q - b)
  BY <1>1, <1>2, <1>5, <1>6 DEF AsInt
<1> QED  BY <1>1, <1>2, <1>5, <1>7 DEF NameMarker

(* One read of the file yields a packet and moves on inside the file. *)
LEMMA DataPacketType ==
  ASSUME NEW s \in Nat, NEW p \in 0..FileSize
  PROVE  DataPacket(s, p) \in Packet /\ p + BytesAt(p) \in 0..FileSize
<1>1. BytesAt(p) \in Nat /\ p + BytesAt(p) \in 0..FileSize
  BY UdpFileAssumption DEF BytesAt
<1>2. AsInt(p) \in Int
  BY UdpFileAssumption DEF AsInt
<1>3. AtEof(p) \in BOOLEAN
  BY DEF AtEof
<1> QED  BY <1>1, <1>2, <1>3, UdpFileAssumption DEF DataPacket, Packet

-----------------------------------------------------------------------------
(* Type correctness. *)

LEMMA InitTypeOK == Init => TypeOK
<1> SUFFICES ASSUME Init PROVE TypeOK
  OBVIOUS
<1>1. NamePacket \in Packet
  BY DEF NamePacket, Packet, NameMarker, NameLength
<1>2. /\ <<>> \in Seq(Packet) /\ <<>> \in Seq(Nat)
      /\ <<>> \in Seq([from : Nat, len : Nat]) /\ Len(<<>>) = 0
  OBVIOUS
<1>3. FileSize \in Nat /\ Capacity \in Nat /\ MaxCrashes \in Nat
  BY UdpFileAssumption, UdpNetworkAssumption, UdpReceiverAssumption
<1>4. /\ pc \in {"send", "wait", "closed"} /\ pkt \in Packet /\ syn \in Nat
      /\ pos \in 0..FileSize /\ connecting \in BOOLEAN
      /\ timer \in {"off", "armed", "fired"}
      /\ outcome \in {"none", "finished", "aborted"}
  BY <1>1, <1>3 DEF Init, SenderInit
<1>5. /\ up \in BOOLEAN /\ lastSyn \in Nat \cup {-1}
      /\ stream \in [open : BOOLEAN, fail : BOOLEAN]
      /\ written \in Seq([from : Nat, len : Nat]) /\ crashes \in 0..MaxCrashes
  BY <1>2, <1>3 DEF Init, ReceiverInit, ClosedStream
<1>6. /\ toReceiver \in Seq(Packet) /\ Len(toReceiver) <= Capacity
      /\ toSender \in Seq(Nat) /\ Len(toSender) <= Capacity
      /\ soError \in BOOLEAN
  <2>1. toReceiver = <<>> /\ toSender = <<>> /\ soError = FALSE
    BY DEF Init, NetInit
  <2>2. Len(<<>>) <= Capacity
    BY <1>2, <1>3
  <2> QED  BY <1>2, <2>1, <2>2, Zenon
<1> QED  BY <1>4, <1>5, <1>6 DEF TypeOK

LEMMA NextTypeOK == TypeOK /\ [Next]_vars => TypeOK'
<1> SUFFICES ASSUME TypeOK, [Next]_vars PROVE TypeOK'
  OBVIOUS
<1> USE DEF TypeOK
<1>0. Len(toReceiver) \in Nat /\ Len(toSender) \in Nat
  OBVIOUS
<1>1. CASE SendPacket /\ UNCHANGED receiverVars
  BY <1>1, PostProperties DEF SendPacket, StartWait, receiverVars
<1>2. CASE ReadAck /\ UNCHANGED receiverVars
  <2>1. PICK i \in 1..Len(toSender) : AckMatches(i) \/ AckStale(i)
    BY <1>0, <1>2, DeliverableIsPosition DEF ReadAck
  <2>2. RemoveAt(toSender, i) \in Seq(Nat) /\ Len(RemoveAt(toSender, i)) <= Capacity
    BY <1>0, RemoveAtProperties, UdpNetworkAssumption
  <2>3. CASE AckMatches(i) /\ NextPacket
    <3>1. /\ DataPacket(syn, pos) \in Packet
          /\ pos + BytesAt(pos) \in 0..FileSize
      BY DataPacketType
    <3> QED
      BY <1>2, <2>2, <2>3, <3>1 DEF AckMatches, Acknowledges, NextPacket, LeaveWait, receiverVars
  <2>4. CASE AckMatches(i) /\ Finish
    BY <1>2, <2>2, <2>4 DEF AckMatches, Acknowledges, Finish, LeaveWait, receiverVars
  <2>5. CASE AckStale(i)
    BY <1>2, <2>2, <2>5 DEF AckStale, Acknowledges, LeaveWait, receiverVars
  <2> QED  BY <2>1, <2>3, <2>4, <2>5 DEF AckMatches, Acknowledges
<1>3. CASE ReadError /\ UNCHANGED receiverVars
  BY <1>3 DEF ReadError, LeaveWait, receiverVars
<1>4. CASE TimerExpires /\ UNCHANGED receiverVars
  BY <1>4 DEF TimerExpires, receiverVars, netVars
<1>5. CASE Timeout /\ UNCHANGED receiverVars
  BY <1>5 DEF Timeout, receiverVars, netVars
<1>6. CASE AlarmSignal /\ UNCHANGED receiverVars
  BY <1>6 DEF AlarmSignal, receiverVars, netVars
<1>7. CASE ReceiveAny /\ UNCHANGED senderVars
  <2>1. PICK i \in 1..Len(toReceiver) : ReceivePacket(i)
    BY <1>0, <1>7, DeliverableIsPosition DEF ReceiveAny
  <2> DEFINE p == toReceiver[i]
  <2>2. p \in Packet
    BY ElementOfSeq
  <2>3. /\ RemoveAt(toReceiver, i) \in Seq(Packet)
        /\ Len(RemoveAt(toReceiver, i)) <= Capacity
    BY <1>0, RemoveAtProperties, UdpNetworkAssumption
  <2>4. p.syn \in Nat /\ p.from \in Nat /\ p.data_size \in Nat /\ p.fin \in BOOLEAN
    BY <2>2 DEF Packet
  <2>5. Post(toSender, p.syn) \in Seq(Nat) /\ Len(Post(toSender, p.syn)) <= Capacity
    BY <2>4, PostProperties
  <2>6. /\ \/ OpenFile(p)
           \/ WriteData(p)
           \/ UNCHANGED <<stream, written>>
        /\ toReceiver' = RemoveAt(toReceiver, i)
        /\ toSender' = Post(toSender, p.syn)
        /\ lastSyn' = p.syn
        /\ UNCHANGED <<up, crashes, soError>>
    BY <2>1 DEF ReceivePacket, IsNew
  <2> HIDE DEF p
  <2>7. /\ stream' \in [open : BOOLEAN, fail : BOOLEAN]
        /\ written' \in Seq([from : Nat, len : Nat])
    <3>1. [from |-> p.from, len |-> p.data_size] \in [from : Nat, len : Nat]
      BY <2>4
    <3>2. Append(written, [from |-> p.from, len |-> p.data_size])
            \in Seq([from : Nat, len : Nat])
      BY <3>1, AppendProperties
    <3>3. CASE OpenFile(p)
      <4>1. written' \in {<<>>, written}
        BY <3>3 DEF OpenFile
      <4>2. stream' \in [open : BOOLEAN, fail : BOOLEAN]
        <5>1. CASE ~stream.open /\ p.data_size > 0
          <6>1. stream' = [open |-> TRUE, fail |-> FALSE]
            BY <3>3, <5>1 DEF OpenFile
          <6> QED  BY <6>1
        <5>2. CASE ~(~stream.open /\ p.data_size > 0)
          <6>1. stream' = [open |-> stream.open, fail |-> TRUE]
            BY <3>3, <5>2 DEF OpenFile
          <6> QED  BY <6>1
        <5> QED  BY <5>1, <5>2
      <4>3. <<>> \in Seq([from : Nat, len : Nat])
        OBVIOUS
      <4> QED  BY <4>1, <4>2, <4>3, Zenon
    <3>4. CASE WriteData(p)
      BY <3>2, <3>4, <2>4 DEF WriteData
    <3> QED  BY <2>6, <3>3, <3>4
  <2> QED
    BY <1>7, <2>3, <2>4, <2>5, <2>6, <2>7 DEF senderVars
<1>8. CASE StartReceiver /\ UNCHANGED senderVars
  BY <1>8 DEF StartReceiver, senderVars, netVars
<1>9. CASE CrashReceiver /\ UNCHANGED senderVars
  <2>1. PICK n \in 0..Len(written) : written' = SubSeq(written, 1, n)
    BY <1>9 DEF CrashReceiver
  <2>2. written' \in Seq([from : Nat, len : Nat]) /\ n \in Int
    <3>1. Len(written) \in Nat /\ n \in Nat /\ n <= Len(written)
      BY LenProperties
    <3>2. \A j \in 1..n : j \in 1..Len(written)
      BY <3>1
    <3>3. \A j \in 1..n : written[j] \in [from : Nat, len : Nat]
      BY <3>2, ElementOfSeq
    <3> QED  BY <2>1, <3>1, <3>3, SubSeqProperties
  <2>3. crashes' \in 0..MaxCrashes
    BY <1>9, UdpReceiverAssumption DEF CrashReceiver
  <2>4. stream' \in [open : BOOLEAN, fail : BOOLEAN]
    BY <1>9 DEF CrashReceiver, ClosedStream
  <2> QED
    BY <1>9, <2>2, <2>3, <2>4 DEF CrashReceiver, senderVars, netVars
<1>10. CASE (LosePacket \/ Unreachable) /\ UNCHANGED <<senderVars, receiverVars>>
  <2>1. PICK i \in 1..Len(toReceiver) : toReceiver' = RemoveAt(toReceiver, i)
    BY <1>0, <1>10, DeliverableIsPosition DEF LosePacket, Unreachable
  <2>2. toReceiver' \in Seq(Packet) /\ Len(toReceiver') <= Capacity
    <3>1. toReceiver \in Seq(Packet) /\ Len(toReceiver) <= Capacity
      BY DEF TypeOK
    <3>2. /\ RemoveAt(toReceiver, i) \in Seq(Packet)
          /\ Len(RemoveAt(toReceiver, i)) <= Capacity
      BY <3>1, RemoveAtKeepsChannel
    <3> QED  BY <2>1, <3>2, Zenon
  <2>3. soError' \in BOOLEAN /\ UNCHANGED toSender
    BY <1>10 DEF LosePacket, Unreachable
  <2> QED  BY <1>10, <2>2, <2>3 DEF senderVars, receiverVars
<1>11. CASE LoseAck /\ UNCHANGED <<senderVars, receiverVars>>
  <2>1. toSender' \in Seq(Nat) /\ Len(toSender') <= Capacity
    <3>1. PICK i \in 1..Len(toSender) : toSender' = RemoveAt(toSender, i)
      BY <1>11 DEF LoseAck
    <3>2. toSender \in Seq(Nat) /\ Len(toSender) <= Capacity
      BY DEF TypeOK
    <3>3. /\ RemoveAt(toSender, i) \in Seq(Nat)
          /\ Len(RemoveAt(toSender, i)) <= Capacity
      BY <3>2, RemoveAtKeepsChannel
    <3> QED  BY <3>1, <3>3, Zenon
  <2> QED  BY <1>11, <2>1 DEF LoseAck, senderVars, receiverVars
<1>12. CASE DuplicatePacket /\ UNCHANGED <<senderVars, receiverVars>>
  <2>1. toReceiver' \in Seq(Packet) /\ Len(toReceiver') <= Capacity
    BY <1>0, <1>12, InsertAtProperties, UdpNetworkAssumption DEF DuplicatePacket
  <2> QED  BY <1>12, <2>1 DEF DuplicatePacket, senderVars, receiverVars
<1>13. CASE DuplicateAck /\ UNCHANGED <<senderVars, receiverVars>>
  <2>1. toSender' \in Seq(Nat) /\ Len(toSender') <= Capacity
    BY <1>0, <1>13, InsertAtProperties, UdpNetworkAssumption DEF DuplicateAck
  <2> QED  BY <1>13, <2>1 DEF DuplicateAck, senderVars, receiverVars
<1>14. CASE UNCHANGED vars
  BY <1>14 DEF vars, senderVars, receiverVars, netVars
<1> QED
  BY <1>1, <1>2, <1>3, <1>4, <1>5, <1>6, <1>7, <1>8, <1>9, <1>10, <1>11, <1>12,
     <1>13, <1>14
  DEF Next, SenderStep, ReceiverStep, NetworkFault, Quiescent

(* Every variable keeps its type: no packet, position, flag or counter of the *)
(* transfer leaves its range, whatever the file size, variant and network.    *)
THEOREM TypeCorrect == Spec => []TypeOK
<1>1. Init => TypeOK
  BY InitTypeOK
<1>2. TypeOK /\ [Next]_vars => TypeOK'
  BY NextTypeOK
<1> QED  BY <1>1, <1>2, PTL DEF Spec

-----------------------------------------------------------------------------
(* The packets of a transfer. *)

LEMMA FinSynType == LastChunk \in Nat /\ FinSyn \in Nat /\ FinSyn = LastChunk + 2
BY LastChunkProperties DEF FinSyn

(* What the reads of the file put into the data packet with number s. *)
LEMMA DataPacketFacts ==
  ASSUME NEW s \in 2..FinSyn
  PROVE  /\ (s - 2) * MaxDataSize \in 0..FileSize
         /\ AtEof((s - 2) * MaxDataSize) <=> s = FinSyn
         /\ BytesAt((s - 2) * MaxDataSize) = Chunk(s - 2).len
         /\ s # FinSyn => /\ BytesAt((s - 2) * MaxDataSize) = MaxDataSize
                          /\ (s - 2) * MaxDataSize + MaxDataSize
                               = (s - 1) * MaxDataSize
<1> DEFINE k == s - 2
           at == k * MaxDataSize
<1>1. k \in 0..LastChunk /\ (s = FinSyn <=> k = LastChunk) /\ s - 1 = k + 1
  BY FinSynType
<1>2. FileSize \in Nat /\ MaxDataSize \in Nat /\ MaxDataSize > 0
  BY UdpFileAssumption
<1>3. CASE k = LastChunk
  <2>1. at \in 0..FileSize /\ FileSize - at < MaxDataSize
    BY <1>1, <1>2, <1>3, LastChunkProperties
  <2> QED  BY <1>1, <1>2, <1>3, <2>1 DEF AtEof, BytesAt, Chunk
<1>4. CASE k # LastChunk
  <2>1. /\ (k + 1) * MaxDataSize <= FileSize
        /\ at \in Nat
        /\ at + MaxDataSize = (k + 1) * MaxDataSize
    BY <1>1, <1>4, ChunkIsFull, LastChunkProperties
  <2>2. FileSize - at >= MaxDataSize /\ at \in 0..FileSize
    BY <1>2, <2>1
  <2>3. BytesAt(at) = MaxDataSize /\ ~AtEof(at)
    BY <1>2, <2>2 DEF AtEof, BytesAt
  <2> QED  BY <1>1, <1>4, <2>1, <2>2, <2>3 DEF Chunk
<1> QED  BY <1>3, <1>4

(* The packet with number s: which one it is can be read off its header, and  *)
(* the data packets carry the chunks of the file in turn.                     *)
LEMMA PacketOfFacts ==
  ASSUME NEW s \in 1..FinSyn
  PROVE  /\ PacketOf(s).syn = s
         /\ PacketOf(s).offset = NameMarker <=> s = 1
         /\ s = 1 => PacketOf(s).data_size > 0
         /\ PacketOf(s).fin <=> s = FinSyn
         /\ s # 1 => /\ [from |-> PacketOf(s).from, len |-> PacketOf(s).data_size]
                         = Chunk(s - 2)
                     /\ PacketOf(s).data_size > 0 \/ PacketOf(s).fin
<1>1. CASE s = 1
  <2>1. FinSyn # 1
    BY FinSynType
  <2> QED  BY <1>1, <2>1 DEF PacketOf, NamePacket, NameMarker, NameLength
<1>2. CASE s # 1
  <2> DEFINE at == (s - 2) * MaxDataSize
  <2>1. s \in 2..FinSyn
    BY <1>2, FinSynType
  <2>2. PacketOf(s) = DataPacket(s, at)
    BY <1>2 DEF PacketOf
  <2>3. /\ PacketOf(s).syn = s /\ PacketOf(s).offset = AsInt(at)
        /\ PacketOf(s).fin = AtEof(at)
        /\ PacketOf(s).from = at /\ PacketOf(s).data_size = BytesAt(at)
    BY <2>2 DEF DataPacket
  <2>4. AsInt(at) # NameMarker
    <3>1. s - 2 \in Nat
      BY <2>1, FinSynType
    <3> QED  BY <3>1, OffsetIsNoMarker
  <2>5. /\ AtEof(at) <=> s = FinSyn
        /\ BytesAt(at) = Chunk(s - 2).len
        /\ s # FinSyn => BytesAt(at) > 0
    <3>1. MaxDataSize \in Nat /\ MaxDataSize > 0
      BY UdpFileAssumption
    <3> QED  BY <2>1, <3>1, DataPacketFacts
  <2>6. Chunk(s - 2) = [from |-> at, len |-> Chunk(s - 2).len]
    BY DEF Chunk
  <2> QED  BY <1>2, <2>3, <2>4, <2>5, <2>6
<1> QED  BY <1>1, <1>2

(* The packet built after packet s, and where the input stream then stands. *)
LEMMA NextPacketFacts ==
  ASSUME NEW s \in 1..FinSyn, s # FinSyn
  PROVE  /\ DataPacket(s + 1, (s - 1) * MaxDataSize) = PacketOf(s + 1)
         /\ AtEof((s - 1) * MaxDataSize) <=> s + 1 = FinSyn
         /\ s + 1 # FinSyn =>
              (s - 1) * MaxDataSize + BytesAt((s - 1) * MaxDataSize)
                = s * MaxDataSize
<1>1. /\ s + 1 \in 2..FinSyn /\ s + 1 # 1
      /\ (s + 1) - 2 = s - 1 /\ (s + 1) - 1 = s
  BY FinSynType
<1>2. PacketOf(s + 1) = DataPacket(s + 1, ((s + 1) - 2) * MaxDataSize)
  BY <1>1 DEF PacketOf
<1>3. /\ AtEof(((s + 1) - 2) * MaxDataSize) <=> s + 1 = FinSyn
      /\ s + 1 # FinSyn =>
           /\ BytesAt(((s + 1) - 2) * MaxDataSize) = MaxDataSize
           /\ ((s + 1) - 2) * MaxDataSize + MaxDataSize
                = ((s + 1) - 1) * MaxDataSize
  BY <1>1, DataPacketFacts
<1> QED  BY <1>1, <1>2, <1>3

-----------------------------------------------------------------------------
(* The inductive invariant. *)

(* Every element of `new' comes from `old', and in the same order. *)
Drawn(new, old) ==
  /\ Len(new) \in Nat
  /\ \A i, j \in 1..Len(new) : i <= j =>
       \E a, b \in 1..Len(old) : a <= b /\ new[i] = old[a] /\ new[j] = old[b]

LEMMA RemoveAtDraws ==
  ASSUME NEW S, NEW s \in Seq(S), NEW k \in 1..Len(s)
  PROVE  Drawn(RemoveAt(s, k), s)
<1> DEFINE r == RemoveAt(s, k)
           src(j) == IF j < k THEN j ELSE j + 1
<1>1. /\ Len(s) \in Nat
      /\ Len(r) = Len(s) - 1
      /\ \A j \in 1..(Len(s) - 1) : r[j] = s[src(j)]
  BY RemoveAtProperties, LenProperties
<1>2. ASSUME NEW i \in 1..Len(r), NEW j \in 1..Len(r), i <= j
      PROVE  \E a, b \in 1..Len(s) : a <= b /\ r[i] = s[a] /\ r[j] = s[b]
  <2> HIDE DEF r
  <2>1. /\ src(i) \in 1..Len(s) /\ src(j) \in 1..Len(s) /\ src(i) <= src(j)
    BY <1>1, <1>2
  <2>2. r[i] = s[src(i)] /\ r[j] = s[src(j)]
    BY <1>1
  <2> QED  BY <2>1, <2>2
<1> QED  BY <1>1, <1>2 DEF Drawn

LEMMA InsertAtDraws ==
  ASSUME NEW S, NEW s \in Seq(S), NEW k \in 1..Len(s)
  PROVE  Drawn(InsertAt(s, k, s[k]), s)
<1> DEFINE r == InsertAt(s, k, s[k])
           src(j) == IF j <= k THEN j ELSE j - 1
<1>1. /\ Len(s) \in Nat
      /\ Len(r) = Len(s) + 1
      /\ \A j \in 1..(Len(s) + 1) : r[j] = s[src(j)]
  BY InsertAtProperties, LenProperties
<1>2. ASSUME NEW i \in 1..Len(r), NEW j \in 1..Len(r), i <= j
      PROVE  \E a, b \in 1..Len(s) : a <= b /\ r[i] = s[a] /\ r[j] = s[b]
  <2> HIDE DEF r
  <2>1. /\ src(i) \in 1..Len(s) /\ src(j) \in 1..Len(s) /\ src(i) <= src(j)
    BY <1>1, <1>2
  <2>2. r[i] = s[src(i)] /\ r[j] = s[src(j)]
    BY <1>1
  <2> QED  BY <2>1, <2>2
<1> QED  BY <1>1, <1>2 DEF Drawn

(* After a Post every element is an old one in its place, or the new one in   *)
(* the last place.                                                            *)
LEMMA PostElements ==
  ASSUME NEW S, NEW s \in Seq(S), NEW m \in S
  PROVE  \A i \in 1..Len(Post(s, m)) :
           \/ i \in 1..Len(s) /\ Post(s, m)[i] = s[i]
           \/ i = Len(s) + 1 /\ Post(s, m)[i] = m
<1> DEFINE new == Post(s, m)
<1>1. Len(s) \in Nat
  BY LenProperties
<1>2. /\ Len(new) \in {Len(s), Len(s) + 1}
      /\ \A j \in 1..Len(s) : new[j] = s[j]
      /\ Len(new) = Len(s) + 1 => new[Len(s) + 1] = m
  BY PostProperties
<1>3. SUFFICES ASSUME NEW i \in 1..Len(new)
               PROVE  \/ i \in 1..Len(s) /\ new[i] = s[i]
                      \/ i = Len(s) + 1 /\ new[i] = m
  OBVIOUS
<1> HIDE DEF new
<1>4. CASE Len(new) = Len(s)
  BY <1>2, <1>4
<1>5. CASE Len(new) = Len(s) + 1
  <2>1. i \in 1..Len(s) \/ i = Len(s) + 1
    BY <1>1, <1>5
  <2> QED  BY <1>2, <1>5, <2>1
<1> QED  BY <1>2, <1>4, <1>5

LEMMA SameDraws ==
  ASSUME NEW s, Len(s) \in Nat
  PROVE  Drawn(s, s)
BY DEF Drawn

LEMMA InitInv == Init => Inv
<1> SUFFICES ASSUME Init PROVE Inv
  OBVIOUS
<1> USE DEF Init, SenderInit, ReceiverInit, NetInit
<1>1. pkt = NamePacket /\ pkt.syn = 1 /\ PacketOf(1) = NamePacket
  BY DEF NamePacket, PacketOf
<1>2. FinSyn \in Nat /\ FinSyn >= 2 /\ LastChunk \in Nat
  BY FinSynType
<1>3. SenderInv
  <2>1. (pkt.syn - 1) * MaxDataSize = 0
    BY <1>1, UdpFileAssumption
  <2> QED  BY <1>1, <1>2, <2>1 DEF SenderInv
<1>4. PacketsInv /\ AcksInv
  BY DEF PacketsInv, AcksInv
<1>5. ReceiverInv
  BY <1>1 DEF ReceiverInv
<1>6. StreamInv
  BY <1>2 DEF StreamInv, InOrder, ClosedStream
<1> QED  BY <1>3, <1>4, <1>5, <1>6 DEF Inv

(* Losing or repeating a datagram does not disturb the invariant. *)
LEMMA NetworkInv ==
  ASSUME TypeOK, Inv,
         Drawn(toReceiver', toReceiver), Drawn(toSender', toSender),
         UNCHANGED <<senderVars, receiverVars>>
  PROVE  Inv'
<1> USE DEF senderVars, receiverVars
<1>1. SenderInv'
  BY DEF Inv, SenderInv, PacketOf, FinSyn, DataPacket, BytesAt, AtEof
<1>2. PacketsInv'
  <2>1. ASSUME NEW i \in 1..Len(toReceiver'), NEW j \in 1..Len(toReceiver'), i <= j
        PROVE  /\ toReceiver'[i] = PacketOf(toReceiver'[i].syn)
               /\ toReceiver'[i].syn \in {pkt.syn - 1, pkt.syn}
               /\ toReceiver'[i].syn >= 1
               /\ outcome = "finished" => toReceiver'[i].syn = FinSyn
               /\ lastSyn <= toReceiver'[i].syn
               /\ toReceiver'[i].syn <= toReceiver'[j].syn
    <3>1. PICK a, b \in 1..Len(toReceiver) :
            a <= b /\ toReceiver'[i] = toReceiver[a] /\ toReceiver'[j] = toReceiver[b]
      BY <2>1 DEF Drawn
    <3> QED  BY <3>1 DEF Inv, PacketsInv
  <2>2. \A i \in 1..Len(toReceiver') : i <= i
    BY DEF Drawn
  <2> QED  BY <2>1, <2>2 DEF PacketsInv
<1>3. AcksInv'
  <2>1. ASSUME NEW i \in 1..Len(toSender')
        PROVE  \E a \in 1..Len(toSender) : toSender'[i] = toSender[a]
    BY DEF Drawn
  <2>2. ASSUME NEW i \in 1..Len(toReceiver')
        PROVE  \E a \in 1..Len(toReceiver) : toReceiver'[i] = toReceiver[a]
    BY DEF Drawn
  <2> QED  BY <2>1, <2>2 DEF Inv, AcksInv
<1>4. ReceiverInv' /\ StreamInv'
  BY DEF Inv, ReceiverInv, StreamInv, InOrder, FinSyn, LastChunk, Chunk
<1> QED  BY <1>1, <1>2, <1>3, <1>4 DEF Inv

(* Steps of timers and of a starting receiver leave all it speaks of alone. *)
LEMMA QuietInv ==
  ASSUME TypeOK, Inv,
         UNCHANGED <<pkt, syn, pos, connecting, outcome, lastSyn, stream,
                     written, crashes, toReceiver, toSender>>,
         (pc' = "closed") <=> (pc = "closed"),
         up => up'
  PROVE  Inv'
<1>1. SenderInv'
  BY DEF Inv, SenderInv, PacketOf, FinSyn, DataPacket, BytesAt, AtEof
<1>2. PacketsInv' /\ AcksInv'
  BY DEF Inv, PacketsInv, AcksInv, PacketOf, FinSyn
<1>3. ReceiverInv' /\ StreamInv'
  BY DEF Inv, ReceiverInv, StreamInv, InOrder, FinSyn, LastChunk, Chunk
<1> QED  BY <1>1, <1>2, <1>3 DEF Inv

LEMMA SendPacketInv ==
  ASSUME TypeOK, Inv, SendPacket, UNCHANGED receiverVars
  PROVE  Inv'
<1>0. /\ pc = "send" /\ pc' = "wait"
      /\ toReceiver' \in {toReceiver, Post(toReceiver, pkt)}
      /\ UNCHANGED <<pkt, syn, pos, connecting, outcome, toSender>>
      /\ UNCHANGED receiverVars
  BY DEF SendPacket, StartWait
<1> USE <1>0 DEF receiverVars
<1>1. SenderInv'
  BY DEF Inv, SenderInv, PacketOf, FinSyn, DataPacket, BytesAt, AtEof
<1>2. PacketsInv' /\ AcksInv'
  <2>1. /\ pkt \in Packet /\ toReceiver \in Seq(Packet) /\ Len(toReceiver) \in Nat
        /\ pkt.syn \in Nat
    BY DEF TypeOK, Packet
  <2>2. pkt = PacketOf(pkt.syn) /\ pkt.syn >= 1 /\ outcome = "none"
    BY DEF Inv, SenderInv
  <2>3. lastSyn <= pkt.syn /\ \A i \in 1..Len(toSender) : toSender[i] <= pkt.syn
    BY <2>1, <2>2 DEF Inv, ReceiverInv, AcksInv
  <2>4. \A i \in 1..Len(toReceiver) : toReceiver[i].syn <= pkt.syn
    BY <2>1 DEF Inv, PacketsInv
  <2>5. CASE toReceiver' = toReceiver
    BY <2>5 DEF Inv, PacketsInv, AcksInv, PacketOf, FinSyn
  <2>6. CASE toReceiver' = Post(toReceiver, pkt)
    <3>1. \A i \in 1..Len(Post(toReceiver, pkt)) :
            \/ i \in 1..Len(toReceiver) /\ Post(toReceiver, pkt)[i] = toReceiver[i]
            \/ i = Len(toReceiver) + 1 /\ Post(toReceiver, pkt)[i] = pkt
      BY <2>1, PostElements, Zenon
    <3>2. \A i \in 1..Len(toReceiver') :
            \/ i \in 1..Len(toReceiver) /\ toReceiver'[i] = toReceiver[i]
            \/ i = Len(toReceiver) + 1 /\ toReceiver'[i] = pkt
      BY <2>6, <3>1, Zenon
    <3>3. PacketsInv'
      <4> SUFFICES ASSUME NEW i \in 1..Len(toReceiver')
                   PROVE  /\ toReceiver'[i] = PacketOf(toReceiver'[i].syn)
                          /\ toReceiver'[i].syn \in {pkt.syn - 1, pkt.syn}
                          /\ toReceiver'[i].syn >= 1
                          /\ outcome = "finished" => toReceiver'[i].syn = FinSyn
                          /\ lastSyn <= toReceiver'[i].syn
                          /\ \A j \in 1..Len(toReceiver') :
                               i <= j => toReceiver'[i].syn <= toReceiver'[j].syn
        BY DEF PacketsInv
      <4>1. CASE i \in 1..Len(toReceiver) /\ toReceiver'[i] = toReceiver[i]
        BY <2>1, <2>4, <3>2, <4>1 DEF Inv, PacketsInv
      <4>2. CASE i = Len(toReceiver) + 1 /\ toReceiver'[i] = pkt
        BY <2>1, <2>2, <2>3, <3>2, <4>2
      <4> QED  BY <3>2, <4>1, <4>2
    <3>4. AcksInv'
      BY <2>1, <2>3, <3>2 DEF Inv, AcksInv
    <3> QED  BY <3>3, <3>4
  <2> QED  BY <2>5, <2>6
<1>3. ReceiverInv' /\ StreamInv'
  BY DEF Inv, ReceiverInv, StreamInv, InOrder, FinSyn, LastChunk, Chunk
<1> QED  BY <1>1, <1>2, <1>3 DEF Inv

(* The acknowledgement that matches is newer than nothing still on its way:   *)
(* the receiver has the present packet, and all that is left are its copies.  *)
LEMMA MatchFacts ==
  ASSUME TypeOK, Inv, NEW i \in 1..Len(toSender), toSender[i] = pkt.syn
  PROVE  /\ \A j \in 1..Len(toReceiver) : toReceiver[j].syn = pkt.syn
         /\ lastSyn # -1 => lastSyn = pkt.syn
         /\ crashes = 0 => lastSyn # -1
<1>1. pkt.syn \in Nat
  BY DEF TypeOK, Packet
<1>2. \A j \in 1..Len(toReceiver) :
        toReceiver[j].syn \in {pkt.syn - 1, pkt.syn} /\ pkt.syn <= toReceiver[j].syn
  BY DEF Inv, PacketsInv, AcksInv
<1>3. lastSyn # -1 => lastSyn \in {pkt.syn - 1, pkt.syn} /\ pkt.syn <= lastSyn
  BY DEF Inv, ReceiverInv, AcksInv
<1> QED  BY <1>1, <1>2, <1>3 DEF Inv, AcksInv

LEMMA ReadAckInv ==
  ASSUME TypeOK, Inv, NEW i \in 1..Len(toSender), AckMatches(i) \/ AckStale(i),
         UNCHANGED receiverVars
  PROVE  Inv'
<1> USE DEF receiverVars
<1>1. Drawn(toSender', toSender) /\ UNCHANGED toReceiver
  BY RemoveAtDraws DEF AckMatches, AckStale, Acknowledges, TypeOK
<1>2. \A k \in 1..Len(toSender') :
        \E a \in 1..Len(toSender) : toSender'[k] = toSender[a]
  BY <1>1 DEF Drawn
<1>3. pkt.syn \in Nat /\ FinSyn \in Nat /\ pkt.syn \in 1..FinSyn
  BY FinSynType DEF Inv, SenderInv, TypeOK, Packet
<1>4. CASE AckMatches(i) /\ NextPacket
  <2> USE <1>4 DEF AckMatches, Acknowledges, NextPacket
  <2>1. pkt.syn # FinSyn /\ syn = pkt.syn + 1 /\ pos = (pkt.syn - 1) * MaxDataSize
    BY DEF Inv, SenderInv
  <2>2. /\ pkt' = PacketOf(pkt.syn + 1)
        /\ connecting' <=> pkt.syn + 1 # FinSyn
        /\ pkt.syn + 1 # FinSyn => pos' = pkt.syn * MaxDataSize
    BY <1>3, <2>1, NextPacketFacts
  <2>3. pkt'.syn = pkt.syn + 1 /\ pkt.syn + 1 \in 1..FinSyn
    <3>1. pkt.syn + 1 \in 1..FinSyn
      BY <1>3, <2>1
    <3> QED  BY <2>2, <3>1, PacketOfFacts
  <2>4. SenderInv'
    <3>1. (pkt.syn + 1) - 1 = pkt.syn
      BY <1>3
    <3>2. outcome' = "none" /\ pc' = "send" /\ syn' = pkt.syn + 2
      BY <1>3, <2>1 DEF Inv, SenderInv
    <3>3. FinSyn' = FinSyn /\ PacketOf(pkt.syn)' = PacketOf(pkt.syn + 1)
      BY <2>3 DEF FinSyn, PacketOf, DataPacket, BytesAt, AtEof
    <3> QED  BY <1>3, <2>2, <2>3, <3>1, <3>2, <3>3 DEF SenderInv
  <2>5. PacketsInv'
    <3>1. \A j \in 1..Len(toReceiver) :
            toReceiver[j].syn = pkt.syn /\ pkt.syn = pkt'.syn - 1 /\ pkt.syn >= 1
      BY <1>3, <2>3, MatchFacts
    <3>2. outcome' # "finished"
      BY DEF Inv, SenderInv
    <3> QED  BY <1>1, <3>1, <3>2 DEF Inv, PacketsInv
  <2>6. AcksInv'
    <3>1. \A k \in 1..Len(toSender) : toSender[k] \in Nat /\ toSender[k] <= pkt.syn
      BY DEF Inv, AcksInv, TypeOK
    <3>2. \A k \in 1..Len(toSender) : toSender[k] <= pkt'.syn
      BY <1>3, <2>3, <3>1
    <3> QED  BY <1>1, <1>2, <3>2 DEF Inv, AcksInv
  <2>7. ReceiverInv'
    BY <1>3, <2>3, MatchFacts DEF Inv, ReceiverInv, SenderInv
  <2>8. StreamInv'
    BY DEF Inv, StreamInv, InOrder, FinSyn, LastChunk, Chunk
  <2> QED  BY <2>4, <2>5, <2>6, <2>7, <2>8 DEF Inv
<1>5. CASE AckMatches(i) /\ Finish
  <2> USE <1>5 DEF AckMatches, Acknowledges, Finish
  <2>1. pkt.syn = FinSyn
    BY DEF Inv, SenderInv
  <2>2. SenderInv'
    BY <2>1 DEF Inv, SenderInv, PacketOf, FinSyn, DataPacket, BytesAt, AtEof
  <2>3. PacketsInv'
    BY <1>1, <2>1, MatchFacts DEF Inv, PacketsInv, PacketOf, FinSyn
  <2>4. AcksInv'
    BY <1>1, <1>2 DEF Inv, AcksInv
  <2>5. ReceiverInv'
    BY <2>1, MatchFacts DEF Inv, ReceiverInv
  <2>6. StreamInv'
    BY DEF Inv, StreamInv, InOrder, FinSyn, LastChunk, Chunk
  <2> QED  BY <2>2, <2>3, <2>4, <2>5, <2>6 DEF Inv
<1>6. CASE AckStale(i)
  <2> USE <1>6 DEF AckStale, Acknowledges
  <2>1. SenderInv'
    BY DEF Inv, SenderInv, PacketOf, FinSyn, DataPacket, BytesAt, AtEof
  <2>2. PacketsInv'
    BY <1>1 DEF Inv, PacketsInv, PacketOf, FinSyn
  <2>3. AcksInv'
    BY <1>1, <1>2 DEF Inv, AcksInv
  <2>4. ReceiverInv' /\ StreamInv'
    BY DEF Inv, ReceiverInv, StreamInv, InOrder, FinSyn, LastChunk, Chunk
  <2> QED  BY <2>1, <2>2, <2>3, <2>4 DEF Inv
<1> QED  BY <1>4, <1>5, <1>6 DEF AckMatches, Acknowledges

LEMMA ReadErrorInv ==
  ASSUME TypeOK, Inv, ReadError, UNCHANGED receiverVars
  PROVE  Inv'
<1> USE DEF ReadError, receiverVars
<1>1. SenderInv'
  BY DEF Inv, SenderInv, PacketOf, FinSyn, DataPacket, BytesAt, AtEof
<1>2. PacketsInv' /\ AcksInv'
  BY DEF Inv, PacketsInv, AcksInv, SenderInv, PacketOf, FinSyn
<1>3. ReceiverInv' /\ StreamInv'
  BY DEF Inv, ReceiverInv, StreamInv, InOrder, FinSyn, LastChunk, Chunk
<1> QED  BY <1>1, <1>2, <1>3 DEF Inv

(* What the receiver can meet at the head of an ordered channel: the packet   *)
(* it processed last, or the next one; everything behind it is as new.        *)
LEMMA HeadFacts ==
  ASSUME TypeOK, Inv, 1 \in 1..Len(toReceiver)
  PROVE  LET s == toReceiver[1].syn IN
         /\ toReceiver[1] = PacketOf(s)
         /\ s \in 1..FinSyn
         /\ s \in {pkt.syn - 1, pkt.syn}
         /\ lastSyn <= s
         /\ outcome = "finished" => s = FinSyn
         /\ \A j \in 1..Len(toReceiver) : s <= toReceiver[j].syn
         /\ \A k \in 1..Len(toSender) : toSender[k] <= s
<1> DEFINE s == toReceiver[1].syn
<1>1. pkt.syn \in 1..FinSyn /\ FinSyn \in Nat
  BY FinSynType DEF Inv, SenderInv
<1>2. s \in {pkt.syn - 1, pkt.syn} /\ s >= 1
  BY DEF Inv, PacketsInv
<1>3. s \in 1..FinSyn
  BY <1>1, <1>2
<1>4. \A j \in 1..Len(toReceiver) : 1 <= j
  BY DEF TypeOK
<1> QED  BY <1>2, <1>3, <1>4 DEF Inv, PacketsInv, AcksInv

(* The output file after the packet with number s has been processed. *)
LEMMA ReceiveStreamInv ==
  ASSUME TypeOK, Inv, 1 \in 1..Len(toReceiver), ReceivePacket(1)
  PROVE  StreamInv'
<1> DEFINE s == toReceiver[1].syn
           p == PacketOf(s)
           piece == [from |-> p.from, len |-> p.data_size]
<1>1. /\ s \in 1..FinSyn /\ s \in {pkt.syn - 1, pkt.syn} /\ lastSyn <= s
      /\ pkt.syn \in Nat
  BY HeadFacts DEF TypeOK, Packet
<1>2. toReceiver[1] = p
  BY HeadFacts
<1>3. FinSyn = LastChunk + 2 /\ LastChunk \in Nat
  BY FinSynType
<1>4. /\ p.offset = NameMarker <=> s = 1
      /\ p.fin <=> s = FinSyn
      /\ s = 1 => p.data_size > 0
      /\ s # 1 => piece = Chunk(s - 2) /\ (p.data_size > 0 \/ p.fin)
  BY <1>1, PacketOfFacts
<1>5. /\ \/ s = 1 /\ OpenFile(p)
         \/ s # 1 /\ s # lastSyn /\ WriteData(p)
         \/ s # 1 /\ s = lastSyn /\ UNCHANGED <<stream, written>>
      /\ lastSyn' = s
      /\ UNCHANGED crashes
  BY <1>2, <1>4 DEF ReceivePacket, IsNew
<1>6. /\ Len(written) \in Nat /\ written \in Seq([from : Nat, len : Nat])
      /\ Len(written) <= LastChunk + 1
      /\ \A i \in 1..Len(written) : written[i] = Chunk(i - 1)
  BY DEF TypeOK, Inv, StreamInv, InOrder
<1>7. /\ stream.open => lastSyn # -1 /\ lastSyn < FinSyn /\ Len(written) <= LastChunk
      /\ stream.open /\ ~stream.fail => Len(written) = lastSyn - 1
      /\ crashes = 0 /\ ~stream.open /\ ~stream.fail =>
           lastSyn = -1 \/ Len(written) = LastChunk + 1
      /\ lastSyn # -1 => lastSyn \in {pkt.syn - 1, pkt.syn} /\ lastSyn >= 1
  BY DEF Inv, StreamInv, ReceiverInv
<1> HIDE DEF s, p
<1>8. SUFFICES /\ Len(written') <= LastChunk + 1
               /\ \A i \in 1..Len(written') : written'[i] = Chunk(i - 1)
               /\ stream'.open => s < FinSyn /\ Len(written') <= LastChunk
               /\ stream'.open /\ ~stream'.fail => Len(written') = s - 1
               /\ ~stream'.open /\ ~stream'.fail =>
                    \/ crashes # 0
                    \/ Len(written') = LastChunk + 1
  <2>1. lastSyn' # -1
    BY <1>1, <1>5
  <2> QED  BY <1>5, <2>1 DEF StreamInv, InOrder, Chunk, LastChunk, FinSyn
<1>9. CASE s = 1 /\ OpenFile(p)
  <2>1. s < FinSyn
    BY <1>3, <1>9
  <2>2. CASE ~stream.open
    <3>1. stream'.open /\ ~stream'.fail /\ written' = <<>>
      BY <1>4, <1>9, <2>2 DEF OpenFile
    <3> QED  BY <1>3, <1>9, <2>1, <3>1
  <2>3. CASE stream.open
    <3>1. stream'.open /\ stream'.fail /\ written' = written
      BY <1>9, <2>3 DEF OpenFile
    <3> QED  BY <1>6, <1>7, <2>1, <2>3, <3>1
  <2> QED  BY <2>2, <2>3
<1>10. CASE s # 1 /\ s # lastSyn /\ WriteData(p)
  <2>1. CASE stream.open /\ ~stream.fail
    <3>1. s = lastSyn + 1 /\ Len(written) = s - 2 /\ s >= 2
      BY <1>1, <1>7, <1>10, <2>1
    <3>2. /\ written' = Append(written, piece)
          /\ stream'.open <=> ~p.fin
          /\ ~stream'.fail
      BY <1>10, <2>1 DEF WriteData
    <3>3. piece = Chunk(s - 2)
      BY <1>4, <1>10
    <3>4. /\ Len(written') = s - 1
          /\ \A i \in 1..(s - 2) : written'[i] = written[i]
          /\ written'[s - 1] = Chunk(s - 2)
      BY <1>1, <1>6, <3>1, <3>2, <3>3, AppendProperties
    <3>5. \A i \in 1..(s - 1) : written'[i] = Chunk(i - 1)
      <4>1. s \in Nat /\ s >= 2
        BY <1>1, <1>3, <3>1
      <4>2. ASSUME NEW i \in 1..(s - 1)
            PROVE  written'[i] = Chunk(i - 1)
        <5>1. CASE i = s - 1
          <6>1. i - 1 = s - 2
            BY <4>1, <5>1
          <6> QED  BY <3>4, <5>1, <6>1
        <5>2. CASE i # s - 1
          <6>1. i \in 1..(s - 2)
            BY <4>1, <5>2
          <6> QED  BY <1>6, <3>1, <3>4, <6>1
        <5> QED  BY <5>1, <5>2
      <4> QED  BY <4>2
    <3>6. s - 1 <= LastChunk + 1 /\ (s = FinSyn => s - 1 = LastChunk + 1)
          /\ (s # FinSyn => s < FinSyn /\ s - 1 <= LastChunk)
      BY <1>1, <1>3
    <3> QED  BY <1>4, <3>2, <3>4, <3>5, <3>6
  <2>2. CASE stream.fail
    <3>1. written' = written /\ stream'.fail
      BY <1>10, <2>2 DEF WriteData
    <3>2. stream'.open => stream.open /\ ~p.fin
      BY <1>10 DEF WriteData
    <3>3. s # FinSyn => s < FinSyn
      BY <1>1, <1>3
    <3> QED  BY <1>4, <1>6, <1>7, <3>1, <3>2, <3>3
  <2>3. CASE ~stream.open /\ ~stream.fail
    <3>1. written' = written /\ stream'.fail /\ ~stream'.open
      BY <1>4, <1>10, <2>3 DEF WriteData
    <3> QED  BY <1>6, <3>1
  <2> QED  BY <2>1, <2>2, <2>3
<1>11. CASE s # 1 /\ s = lastSyn /\ UNCHANGED <<stream, written>>
  <2>1. lastSyn # -1
    BY <1>1, <1>11
  <2> QED  BY <1>6, <1>7, <1>11, <2>1
<1> QED  BY <1>5, <1>9, <1>10, <1>11

LEMMA ReceiveInv ==
  ASSUME TypeOK, Inv, 1 \in 1..Len(toReceiver), ReceivePacket(1),
         UNCHANGED senderVars
  PROVE  Inv'
<1> DEFINE s == toReceiver[1].syn
<1>1. /\ up /\ up' = up /\ lastSyn' = s
      /\ UNCHANGED <<pc, pkt, syn, pos, connecting, outcome, crashes>>
      /\ toReceiver' = RemoveAt(toReceiver, 1)
      /\ toSender' = Post(toSender, s)
  BY DEF ReceivePacket, IsNew, senderVars
<1>2. /\ s \in 1..FinSyn /\ s \in {pkt.syn - 1, pkt.syn}
      /\ outcome = "finished" => s = FinSyn
      /\ \A j \in 1..Len(toReceiver) : s <= toReceiver[j].syn
      /\ \A k \in 1..Len(toSender) : toSender[k] <= s
      /\ pkt.syn \in Nat
  BY HeadFacts DEF TypeOK, Packet
<1>3. Drawn(toReceiver', toReceiver)
  BY <1>1, RemoveAtDraws DEF TypeOK
<1>4. \A k \in 1..Len(toSender') :
        toSender'[k] = s \/ \E a \in 1..Len(toSender) : toSender'[k] = toSender[a]
  <2> DEFINE new == Post(toSender, s)
  <2>1. s \in Nat /\ toSender \in Seq(Nat)
    BY <1>2 DEF TypeOK
  <2> HIDE DEF s
  <2>2. \A k \in 1..Len(new) :
          \/ k \in 1..Len(toSender) /\ new[k] = toSender[k]
          \/ k = Len(toSender) + 1 /\ new[k] = s
    BY <2>1, PostElements, Zenon
  <2> HIDE DEF new
  <2>3. \A k \in 1..Len(new) :
          new[k] = s \/ \E a \in 1..Len(toSender) : new[k] = toSender[a]
    BY <2>2
  <2>4. toSender' = new
    BY <1>1 DEF new
  <2> QED  BY <2>3, <2>4, Zenon
<1> HIDE DEF s
<1>5. SenderInv'
  BY <1>1 DEF Inv, SenderInv, PacketOf, FinSyn, DataPacket, BytesAt, AtEof
<1>6. PacketsInv'
  <2>1. ASSUME NEW i \in 1..Len(toReceiver'), NEW j \in 1..Len(toReceiver'), i <= j
        PROVE  /\ toReceiver'[i] = PacketOf(toReceiver'[i].syn)
               /\ toReceiver'[i].syn \in {pkt.syn - 1, pkt.syn}
               /\ toReceiver'[i].syn >= 1
               /\ outcome = "finished" => toReceiver'[i].syn = FinSyn
               /\ s <= toReceiver'[i].syn
               /\ toReceiver'[i].syn <= toReceiver'[j].syn
    <3>1. PICK a, b \in 1..Len(toReceiver) :
            a <= b /\ toReceiver'[i] = toReceiver[a] /\ toReceiver'[j] = toReceiver[b]
      BY <1>3, <2>1 DEF Drawn
    <3> QED  BY <1>2, <3>1 DEF Inv, PacketsInv
  <2>2. \A i \in 1..Len(toReceiver') : i <= i
    BY <1>3 DEF Drawn
  <2> QED  BY <1>1, <2>1, <2>2 DEF PacketsInv
<1>7. AcksInv'
  <2>1. s <= pkt.syn /\ s # -1
    BY <1>2
  <2>2. \A k \in 1..Len(toSender') : toSender'[k] <= s
    BY <1>2, <1>4
  <2>3. \A j \in 1..Len(toReceiver') :
          \E b \in 1..Len(toReceiver) : toReceiver'[j] = toReceiver[b]
    BY <1>3 DEF Drawn
  <2>4. \A k \in 1..Len(toSender'), j \in 1..Len(toReceiver') :
          toSender'[k] <= toReceiver'[j].syn /\ toSender'[k] <= pkt.syn
    <3>1. \A k \in 1..Len(toSender') : toSender'[k] = s \/
            \E a \in 1..Len(toSender) :
              toSender'[k] = toSender[a] /\ toSender[a] <= pkt.syn
      BY <1>4 DEF Inv, AcksInv
    <3> QED  BY <1>2, <1>4, <2>1, <2>3, <3>1 DEF Inv, AcksInv
  <2>5. \A k \in 1..Len(toSender') : toSender'[k] <= pkt.syn
    BY <1>4, <2>1 DEF Inv, AcksInv
  <2> QED  BY <1>1, <2>1, <2>2, <2>4, <2>5 DEF AcksInv
<1>8. ReceiverInv'
  BY <1>1, <1>2 DEF ReceiverInv, FinSyn
<1>9. StreamInv'
  BY ReceiveStreamInv
<1> QED  BY <1>5, <1>6, <1>7, <1>8, <1>9 DEF Inv

LEMMA CrashInv ==
  ASSUME TypeOK, Inv, CrashReceiver, UNCHANGED senderVars
  PROVE  Inv'
<1> USE DEF CrashReceiver, senderVars, netVars
<1>1. crashes' # 0 /\ lastSyn' = -1 /\ ~up' /\ ~stream'.open
  BY DEF TypeOK, ClosedStream
<1>2. SenderInv'
  BY DEF Inv, SenderInv, PacketOf, FinSyn, DataPacket, BytesAt, AtEof
<1>3. PacketsInv'
  <2>1. \A i \in 1..Len(toReceiver) : toReceiver[i].syn \in Nat
    <3>1. \A i \in 1..Len(toReceiver) : toReceiver[i] \in Packet
      BY ElementOfSeq DEF TypeOK
    <3> QED  BY <3>1 DEF Packet
  <2>2. \A i \in 1..Len(toReceiver) : -1 <= toReceiver[i].syn
    BY <2>1
  <2> QED  BY <2>2 DEF Inv, PacketsInv, PacketOf, FinSyn
<1>4. AcksInv' /\ ReceiverInv'
  BY <1>1 DEF Inv, AcksInv, ReceiverInv
<1>5. InOrder'
  <2>1. Len(written) \in Nat /\ Len(written) <= LastChunk + 1 /\ LastChunk \in Nat
        /\ \A i \in 1..Len(written) : written[i] = Chunk(i - 1)
    BY FinSynType DEF TypeOK, Inv, StreamInv, InOrder
  <2>2. PICK n \in 0..Len(written) : written' = SubSeq(written, 1, n)
    OBVIOUS
  <2>3. n \in Nat /\ n <= Len(written) /\ \A i \in 1..n : i \in 1..Len(written)
    BY <2>1
  <2>4. \A i \in 1..n : written[i] \in [from : Nat, len : Nat]
    BY <2>3, ElementOfSeq DEF TypeOK
  <2>5. Len(written') = n /\ \A i \in 1..n : written'[i] = written[i]
    <3> DEFINE cut == SubSeq(written, 1, n)
    <3>1. /\ Len(cut) = IF 1 <= n THEN n - 1 + 1 ELSE 0
          /\ \A i \in 1..(n - 1 + 1) : cut[i] = written[1 + i - 1]
      BY <2>3, <2>4, SubSeqProperties
    <3> HIDE DEF cut
    <3>2. Len(cut) = n /\ \A i \in 1..n : cut[i] = written[i]
      BY <2>3, <3>1
    <3> QED  BY <2>2, <3>2 DEF cut
  <2> QED  BY <2>1, <2>3, <2>5 DEF InOrder, Chunk, LastChunk
<1> QED  BY <1>1, <1>2, <1>3, <1>4, <1>5 DEF Inv, StreamInv

LEMMA NextInv ==
  ASSUME ~Reorder
  PROVE  TypeOK /\ Inv /\ [Next]_vars => Inv'
<1> SUFFICES ASSUME TypeOK, Inv, [Next]_vars PROVE Inv'
  OBVIOUS
<1>0. /\ toReceiver \in Seq(Packet) /\ Len(toReceiver) \in Nat
      /\ toSender \in Seq(Nat) /\ Len(toSender) \in Nat
  BY DEF TypeOK
<1>1. CASE SendPacket /\ UNCHANGED receiverVars
  BY <1>1, SendPacketInv
<1>2. CASE ReadAck /\ UNCHANGED receiverVars
  <2>1. PICK i \in 1..Len(toSender) : AckMatches(i) \/ AckStale(i)
    BY <1>0, <1>2, DeliverableIsPosition DEF ReadAck
  <2> QED  BY <1>2, <2>1, ReadAckInv
<1>3. CASE ReadError /\ UNCHANGED receiverVars
  BY <1>3, ReadErrorInv
<1>4. CASE (TimerExpires \/ Timeout \/ AlarmSignal) /\ UNCHANGED receiverVars
  <2>1. /\ UNCHANGED <<pkt, syn, pos, connecting, outcome, lastSyn, stream,
                       written, crashes, toReceiver, toSender, up>>
        /\ pc' = "closed" <=> pc = "closed"
    BY <1>4 DEF TimerExpires, Timeout, AlarmSignal, receiverVars, netVars
  <2> QED  BY <2>1, QuietInv
<1>5. CASE ReceiveAny /\ UNCHANGED senderVars
  <2>1. PICK i \in Deliverable(toReceiver) : ReceivePacket(i)
    BY <1>5 DEF ReceiveAny
  <2>2. i = 1 /\ 1 \in 1..Len(toReceiver)
    BY <1>0, DeliverableIsPosition
  <2> QED  BY <1>5, <2>1, <2>2, ReceiveInv
<1>6. CASE StartReceiver /\ UNCHANGED senderVars
  <2>1. /\ UNCHANGED <<pkt, syn, pos, connecting, outcome, lastSyn, stream,
                       written, crashes, toReceiver, toSender, pc>>
        /\ up => up'
    BY <1>6 DEF StartReceiver, senderVars, netVars
  <2> QED  BY <2>1, QuietInv
<1>7. CASE CrashReceiver /\ UNCHANGED senderVars
  BY <1>7, CrashInv
<1>8. CASE (LosePacket \/ Unreachable \/ DuplicatePacket)
           /\ UNCHANGED <<senderVars, receiverVars>>
  <2>1. Drawn(toReceiver', toReceiver)
    BY <1>0, <1>8, DeliverableIsPosition, RemoveAtDraws, InsertAtDraws
    DEF LosePacket, Unreachable, DuplicatePacket
  <2>2. Drawn(toSender', toSender)
    BY <1>0, <1>8, SameDraws DEF LosePacket, Unreachable, DuplicatePacket
  <2> QED  BY <1>8, <2>1, <2>2, NetworkInv
<1>9. CASE (LoseAck \/ DuplicateAck) /\ UNCHANGED <<senderVars, receiverVars>>
  <2>1. Drawn(toSender', toSender)
    BY <1>0, <1>9, RemoveAtDraws, InsertAtDraws DEF LoseAck, DuplicateAck
  <2>2. Drawn(toReceiver', toReceiver)
    BY <1>0, <1>9, SameDraws DEF LoseAck, DuplicateAck
  <2> QED  BY <1>9, <2>1, <2>2, NetworkInv
<1>10. CASE UNCHANGED vars
  <2>1. /\ UNCHANGED <<pkt, syn, pos, connecting, outcome, lastSyn, stream,
                       written, crashes, toReceiver, toSender, pc, up>>
    BY <1>10 DEF vars, senderVars, receiverVars, netVars
  <2> QED  BY <2>1, QuietInv
<1> QED
  BY <1>1, <1>2, <1>3, <1>4, <1>5, <1>6, <1>7, <1>8, <1>9, <1>10
  DEF Next, SenderStep, ReceiverStep, NetworkFault, Quiescent

LEMMA Invariance ==
  ASSUME ~Reorder
  PROVE  Spec => [](TypeOK /\ Inv)
<1>1. Init => TypeOK /\ Inv
  BY InitTypeOK, InitInv
<1>2. TypeOK /\ Inv /\ [Next]_vars => (TypeOK /\ Inv)'
  BY NextTypeOK, NextInv
<1> QED  BY <1>1, <1>2, PTL DEF Spec

-----------------------------------------------------------------------------
(* The properties. *)

(* On a path that keeps the order of datagrams the receiver's output file is  *)
(* always a prefix of the input file: Receiver::run's test of header.syn is   *)
(* enough to store each chunk once and in its turn.                           *)
THEOREM OutputIsPrefix ==
  ASSUME ~Reorder
  PROVE  Spec => []InOrder
<1>1. TypeOK /\ Inv => InOrder
  BY DEF Inv, StreamInv
<1> QED  BY <1>1, Invariance, PTL

(* The sender of send_file is never more than one packet ahead of Receiver::run. *)
THEOREM SenderNeverAhead ==
  ASSUME ~Reorder
  PROVE  Spec => []NeverAhead
<1>1. TypeOK /\ Inv => NeverAhead
  <2> SUFFICES ASSUME TypeOK, Inv PROVE NeverAhead
    OBVIOUS
  <2>1. pkt.syn \in Nat
    BY DEF TypeOK, Packet
  <2>2. CASE lastSyn = -1
    BY <2>2 DEF Inv, ReceiverInv, NeverAhead
  <2>3. CASE lastSyn # -1
    <3>1. lastSyn \in {pkt.syn - 1, pkt.syn} /\ lastSyn >= 1
      BY <2>3 DEF Inv, ReceiverInv
    <3> QED  BY <2>1, <3>1 DEF NeverAhead
  <2> QED  BY <2>2, <2>3
<1> QED  BY <1>1, Invariance, PTL

(* A transfer that ends by the last acknowledgement has stored and closed the *)
(* whole file, unless the receiver died or its stream had failed.             *)
THEOREM FinishedIsComplete ==
  ASSUME ~Reorder
  PROVE  Spec => []CompleteWhenFinished
<1>1. TypeOK /\ Inv => CompleteWhenFinished
  <2> SUFFICES ASSUME TypeOK, Inv, outcome = "finished", crashes = 0, ~stream.fail
               PROVE  ~stream.open /\ Len(written) = LastChunk + 1
    BY DEF CompleteWhenFinished
  <2>1. lastSyn # -1 /\ lastSyn = FinSyn /\ FinSyn \in Nat
    BY FinSynType DEF Inv, ReceiverInv
  <2>2. ~stream.open
    BY <2>1 DEF Inv, StreamInv
  <2> QED  BY <2>1, <2>2 DEF Inv, StreamInv
<1> QED  BY <1>1, Invariance, PTL

(* After the last acknowledgement the output file is final: neither a late    *)
(* copy of a packet nor the death of the receiver changes it.                 *)
THEOREM FinishedIsFinal ==
  ASSUME ~Reorder
  PROVE  Spec => FinishedFileIsStable
<1>1. ASSUME TypeOK, Inv, [Next]_vars, outcome = "finished"
      PROVE  written' = written
  <2>1. ~stream.open
    BY <1>1, FinSynType DEF Inv, ReceiverInv, StreamInv
  <2>2. CASE ReceiveAny
    <3>1. PICK i \in Deliverable(toReceiver) : ReceivePacket(i)
      BY <2>2 DEF ReceiveAny
    <3>2. i = 1 /\ 1 \in 1..Len(toReceiver)
      BY <1>1, DeliverableIsPosition DEF TypeOK
    <3> DEFINE s == toReceiver[1].syn
    <3>3. s = FinSyn /\ toReceiver[1] = PacketOf(s) /\ s \in 1..FinSyn /\ s # 1
      BY <1>1, <3>2, HeadFacts, FinSynType
    <3>4. toReceiver[1].offset # NameMarker
      BY <3>3, PacketOfFacts
    <3> QED  BY <2>1, <3>1, <3>2, <3>4 DEF ReceivePacket, IsNew, WriteData
  <2>3. CASE CrashReceiver
    <3>1. written' = SubSeq(written, 1, Len(written))
      BY <2>1, <2>3 DEF CrashReceiver
    <3> QED  BY <1>1, <3>1, SubSeqFull DEF TypeOK
  <2> QED
    BY <1>1, <2>2, <2>3
    DEF Next, SenderStep, ReceiverStep, StartReceiver, Quiescent, receiverVars, vars
<1>2. TypeOK /\ Inv /\ [Next]_vars => [outcome = "finished" => written' = written]_vars
  BY <1>1
<1> QED  BY <1>2, Invariance, PTL DEF Spec, FinishedFileIsStable

(* No variant of send_packet blocks in its read without a timer behind it.    *)
(* This needs no order of datagrams.                                          *)
THEOREM WaitIsTimed == Spec => []WaitHasTimer
<1> DEFINE Timed == WaitHasTimer /\ (Variant = "alarm" => timer # "off")
<1>1. Init => Timed
  BY DEF Init, SenderInit, WaitHasTimer
<1>2. Timed /\ [Next]_vars => Timed'
  <2> SUFFICES ASSUME Timed, [Next]_vars PROVE Timed'
    OBVIOUS
  <2>1. CASE SenderStep
    BY <2>1 DEF SenderStep, SendPacket, StartWait, ReadAck, AckMatches, Acknowledges, NextPacket, Finish,
       AckStale, ReadError, TimerExpires, Timeout, AlarmSignal, LeaveWait, WaitHasTimer
  <2>2. CASE UNCHANGED senderVars
    BY <2>2 DEF senderVars, WaitHasTimer
  <2> QED  BY <2>1, <2>2 DEF Next, Quiescent, vars
<1> QED  BY <1>1, <1>2, PTL DEF Spec

(* What is drawn from a channel is marked as it was. *)
LEMMA DrawnMarks ==
  ASSUME OnlyNameIsMarked, Drawn(toReceiver', toReceiver)
  PROVE  OnlyNameIsMarked'
<1>1. ASSUME NEW i \in 1..Len(toReceiver')
      PROVE  \E a \in 1..Len(toReceiver) : toReceiver'[i] = toReceiver[a]
  BY DEF Drawn
<1> QED  BY <1>1 DEF OnlyNameIsMarked

(* The next chunk starts where this one ends, unless this is the last. *)
LEMMA NextPacketMarks ==
  ASSUME TypeOK, MarkInv, NextPacket, Drawn(toReceiver', toReceiver)
  PROVE  MarkInv'
<1>1. /\ connecting /\ pkt' = DataPacket(syn, pos) /\ syn' = syn + 1
      /\ pos' = pos + BytesAt(pos) /\ connecting' = ~AtEof(pos)
  BY DEF NextPacket
<1>2. PICK k \in 0..pos : pos = k * MaxDataSize
  BY <1>1 DEF MarkInv
<1>3. syn \in Nat /\ syn >= 2 /\ pos \in Nat /\ k \in Nat
  BY DEF MarkInv, TypeOK
<1>4. pkt'.syn # 1 /\ pkt'.offset # NameMarker
  <2>1. pkt'.syn = syn /\ pkt'.offset = AsInt(k * MaxDataSize)
    BY <1>1, <1>2 DEF DataPacket
  <2> QED  BY <1>3, <2>1, OffsetIsNoMarker
<1>5. ASSUME connecting' PROVE \E j \in 0..pos' : pos' = j * MaxDataSize
  <2>1. BytesAt(pos) = MaxDataSize
    BY <1>1, <1>5 DEF AtEof, BytesAt
  <2>2. MaxDataSize \in Nat /\ MaxDataSize >= 1
    BY UdpFileAssumption
  <2>3. (k + 1) * MaxDataSize = k * MaxDataSize + MaxDataSize
    BY <1>3, <2>2
  <2>4. pos' = (k + 1) * MaxDataSize /\ pos' = pos + MaxDataSize
    BY <1>1, <1>2, <2>1, <2>3
  <2>5. k + 1 \in 0..pos'
    BY <1>2, <1>3, <2>2, <2>4
  <2> QED  BY <2>4, <2>5
<1>6. syn' >= 2
  BY <1>1, <1>3
<1>7. OnlyNameIsMarked'
  BY DrawnMarks DEF MarkInv
<1> QED  BY <1>4, <1>5, <1>6, <1>7 DEF MarkInv

(* The other steps leave the sender's place in its file alone, or end. *)
LEMMA OtherMarks ==
  ASSUME MarkInv, UNCHANGED <<pkt, syn, pos>>, connecting' => connecting,
         Drawn(toReceiver', toReceiver)
  PROVE  MarkInv'
<1>1. OnlyNameIsMarked'
  BY DrawnMarks DEF MarkInv
<1> QED  BY <1>1 DEF MarkInv

LEMMA SendPacketMarks ==
  ASSUME TypeOK, MarkInv, SendPacket
  PROVE  MarkInv'
<1>1. /\ toReceiver' \in {toReceiver, Post(toReceiver, pkt)}
      /\ UNCHANGED <<pkt, syn, pos, connecting>>
  BY DEF SendPacket
<1>2. toReceiver \in Seq(Packet) /\ pkt \in Packet
  BY DEF TypeOK
<1>3. ASSUME NEW i \in 1..Len(toReceiver')
      PROVE  toReceiver'[i].offset = NameMarker <=> toReceiver'[i].syn = 1
  <2>1. \/ i \in 1..Len(toReceiver) /\ toReceiver'[i] = toReceiver[i]
        \/ toReceiver'[i] = pkt
    BY <1>1, <1>2, PostElements
  <2> QED  BY <2>1 DEF MarkInv, OnlyNameIsMarked
<1> QED  BY <1>1, <1>3 DEF MarkInv, OnlyNameIsMarked

(* A data packet is never taken for a name packet, in whatever order packets   *)
(* come: chunks start at even positions, also after Header.offset wraps, and   *)
(* the marker is odd.                                                          *)
THEOREM NameIsMarked == Spec => []OnlyNameIsMarked
<1>1. ASSUME Init PROVE MarkInv
  <2>1. pkt.offset = NameMarker /\ pkt.syn = 1 /\ syn = 2 /\ pos = 0
    BY <1>1 DEF Init, SenderInit, NamePacket
  <2>2. 0 \in 0..pos /\ pos = 0 * MaxDataSize
    BY <2>1, UdpFileAssumption
  <2>3. toReceiver = <<>>
    BY <1>1 DEF Init, NetInit
  <2> QED  BY <2>1, <2>2, <2>3 DEF MarkInv, OnlyNameIsMarked
<1>2. ASSUME TypeOK, MarkInv, [Next]_vars PROVE MarkInv'
  <2>0. toReceiver \in Seq(Packet) /\ Len(toReceiver) \in Nat
    BY <1>2 DEF TypeOK
  <2>1. CASE SendPacket
    BY <1>2, <2>1, SendPacketMarks
  <2>2. CASE ReadAck
    <3>1. toReceiver' = toReceiver
      BY <2>2 DEF ReadAck, AckMatches, AckStale
    <3>2. Drawn(toReceiver', toReceiver)
      BY <2>0, <3>1, SameDraws
    <3>3. \/ NextPacket
          \/ UNCHANGED <<pkt, syn, pos, connecting>>
      BY <2>2 DEF ReadAck, AckMatches, AckStale, Finish
    <3> QED  BY <1>2, <3>2, <3>3, NextPacketMarks, OtherMarks
  <2>3. CASE ReadError \/ TimerExpires \/ Timeout \/ AlarmSignal
    <3>1. toReceiver' = toReceiver /\ UNCHANGED <<pkt, syn, pos>> /\ (connecting' => connecting)
      BY <2>3 DEF ReadError, TimerExpires, Timeout, AlarmSignal, netVars
    <3>2. Drawn(toReceiver', toReceiver)
      BY <2>0, <3>1, SameDraws
    <3> QED  BY <1>2, <3>1, <3>2, OtherMarks
  <2>4. CASE UNCHANGED senderVars
    <3>1. UNCHANGED <<pkt, syn, pos, connecting>>
      BY <2>4 DEF senderVars
    <3>2. CASE toReceiver' = toReceiver
      BY <1>2, <2>0, <3>1, <3>2, SameDraws, OtherMarks
    <3>3. CASE \E i \in 1..Len(toReceiver) : toReceiver' = RemoveAt(toReceiver, i)
      BY <1>2, <2>0, <3>1, <3>3, RemoveAtDraws, OtherMarks
    <3>4. CASE DuplicatePacket
      BY <1>2, <2>0, <2>4, <3>1, <3>4, InsertAtDraws, OtherMarks DEF DuplicatePacket
    <3>5. \/ toReceiver' = toReceiver
          \/ \E i \in 1..Len(toReceiver) : toReceiver' = RemoveAt(toReceiver, i)
          \/ DuplicatePacket
          \/ SenderStep
      BY <1>2, <2>0, DeliverableIsPosition
      DEF Next, ReceiverStep, ReceiveAny, ReceivePacket, StartReceiver, CrashReceiver,
          NetworkFault, LosePacket, LoseAck, DuplicateAck, Unreachable, Quiescent,
          vars, netVars
    <3> QED  BY <2>1, <2>2, <2>3, <3>2, <3>3, <3>4, <3>5 DEF SenderStep
  <2> QED
    BY <1>2, <2>1, <2>2, <2>3, <2>4
    DEF Next, SenderStep, Quiescent, vars
<1>3. TypeOK /\ MarkInv /\ [Next]_vars => MarkInv'
  BY <1>2
<1>4. MarkInv => OnlyNameIsMarked
  BY DEF MarkInv
<1> QED  BY <1>1, <1>3, <1>4, TypeCorrect, PTL DEF Spec

(* The inductive invariant of UdpTransferInv holds: at most one packet is      *)
(* ahead, what is under way is the last packet and the one before, and the     *)
(* output stream holds what the receiver's last packet says.                   *)
THEOREM TransferInvariant ==
  ASSUME ~Reorder
  PROVE  Spec => []Inv
BY Invariance, PTL
=============================================================================
