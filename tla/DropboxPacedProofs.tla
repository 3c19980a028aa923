------------------------- MODULE DropboxPacedProofs -------------------------
(***************************************************************************)
(* What holds of the dropbox when the server reads each request before the *)
(* client's 50 ms are over (~Slow): uploads lose nothing, descriptors are  *)
(* clean when they are used again and, when no two users have a file name  *)
(* in common (Apart), what was announced stays as it is.                   *)
(***************************************************************************)
EXTENDS DropboxProofs

(* Nothing happens at a connection, but that its client may let go of it.      *)
LEMMA PacedSame ==
  ASSUME NEW c \in Conns, PacedOK(c),
         toServer'[c] = toServer[c], receiving'[c] = receiving[c],
         fail_count'[c] = fail_count[c],
         uploading'[c] = uploading[c] \/ uploading'[c] = NoFile,
         far'[c] = "open" => far[c] = "open"
  PROVE  PacedOK(c)'
<1>1. uploading'[c] = uploading[c] \/ (~InUse(uploading'[c]) /\ uploading'[c].current = 0)
  BY NoFileFacts DEF NoFile, FileInfo
<1>2. RequestOK(c)'
  BY <1>1 DEF PacedOK, RequestOK
<1>3. EmptyOK(c)'
  BY DEF PacedOK, EmptyOK
<1>4. ArrivesOK(c)'
  BY <1>1 DEF PacedOK, ArrivesOK
<1> QED
  BY <1>2, <1>3, <1>4 DEF PacedOK

(* A connection over which the server receives nothing. *)
LEMMA PacedAtRest ==
  ASSUME NEW c \in Conns, fail_count'[c] = 0, ~InUse(receiving'[c]),
         \A i \in 1..Len(toServer'[c]) : toServer'[c][i].type # "put"
  PROVE  PacedOK(c)'
  BY DEF PacedOK, RequestOK, EmptyOK, ArrivesOK

(* The count of a connection that receives nothing is 0. *)
LEMMA NoCount ==
  ASSUME Inv, NEW c \in Conns, PacedOK(c), ~InUse(receiving[c])
  PROVE  fail_count[c] = 0
<1>1. fail_count[c] \in Nat
  BY DEF Inv, TypeOK, ServerTypeOK
<1> QED
  BY <1>1 DEF PacedOK, EmptyOK

(* The server's steps leave the other connections alone. *)
LEMMA PacedElsewhere ==
  ASSUME PacedInv, NEW c \in Conns, PacedOK(c)', UNCHANGED clientVars,
         \A d \in Conns : d # c =>
           /\ toServer'[d] = toServer[d] /\ receiving'[d] = receiving[d]
           /\ fail_count'[d] = fail_count[d]
           /\ far'[d] = "open" => far[d] = "open"
  PROVE  PacedInv'
<1> SUFFICES ASSUME NEW d \in Conns, d # c PROVE PacedOK(d)'
  BY DEF PacedInv
<1>1. PacedOK(d) /\ uploading'[d] = uploading[d]
  BY DEF PacedInv, clientVars
<1> QED
  BY <1>1, PacedSame

-----------------------------------------------------------------------------
(* The server *)

LEMMA AcceptPaced ==
  ASSUME PacedInv, NEW c \in Conns, Accept(c), UNCHANGED clientVars
  PROVE  PacedInv'
<1>1. /\ toServer' = toServer /\ far' = far
      /\ receiving' = receiving /\ fail_count' = fail_count
  BY DEF Accept, serverVars, tableVars
<1>2. PacedOK(c)'
  BY <1>1, PacedSame DEF PacedInv, clientVars
<1> QED
  BY <1>1, <1>2, PacedElsewhere

(* The server closes a connection over which it receives nothing any more.     *)
LEMMA ClosePaced ==
  ASSUME Inv, PacedInv, NEW c \in Conns, CloseNear(c), UNCHANGED clientVars,
         fail_count'[c] = 0, ~InUse(receiving'[c]),
         \A d \in Conns : d # c =>
           receiving'[d] = receiving[d] /\ fail_count'[d] = fail_count[d],
         \A d \in Conns : far'[d] = "open" => far[d] = "open"
  PROVE  PacedInv'
<1>1. /\ Len(toServer'[c]) = 0
      /\ \A d \in Conns : d # c => toServer'[d] = toServer[d]
  BY CloseNearFacts DEF Inv, TypeOK
<1>2. \A i \in 1..Len(toServer'[c]) : FALSE
  BY <1>1
<1>3. PacedOK(c)'
  BY <1>2, PacedAtRest
<1> QED
  BY <1>1, <1>3, PacedElsewhere

LEMMA DisconnectPaced ==
  ASSUME Inv, PacedInv, NEW c \in Conns, Disconnect(c), UNCHANGED clientVars,
         ~InUse(receiving[c])
  PROVE  PacedInv'
<1>1. /\ CloseNear(c) /\ far' = far /\ receiving' = receiving /\ fail_count' = fail_count
  BY DEF Disconnect
<1>2. fail_count[c] = 0
  BY NoCount DEF PacedInv
<1> QED
  BY <1>1, <1>2, ClosePaced

(* A command is read, or a request to download. *)
LEMMA ReadPaced ==
  ASSUME Inv, PacedInv, NEW c \in Conns, NEW n \in 1..Len(toServer[c]), Consume(c, n),
         UNCHANGED clientVars, ~InUse(receiving[c]),
         receiving' = receiving, fail_count' = fail_count,
         \A d \in Conns : far'[d] = "open" => far[d] = "open"
  PROVE  PacedInv'
<1>1. \A d \in Conns : d # c => toServer'[d] = toServer[d]
  <2>1. Len(toServer[c]) \in Nat
    BY DEF Inv, TypeOK, StreamsTypeOK
  <2> QED
    BY <2>1, ConsumeFacts DEF Inv, TypeOK
<1>2. \A i \in 1..Len(toServer'[c]) : toServer'[c][i].type # "put"
  <2>1. StreamOK(c) /\ StreamsTypeOK
    BY DEF Inv, NearInv, TypeOK
  <2>2. \A i \in 1..Len(toServer'[c]) : toServer'[c][i].type \in CommandTypes \cup {"data"}
    BY <2>1, RestFacts
  <2> QED
    BY <2>2 DEF CommandTypes
<1>3. fail_count[c] = 0
  BY NoCount DEF PacedInv
<1>4. PacedOK(c)'
  BY <1>2, <1>3, PacedAtRest
<1> QED
  BY <1>1, <1>4, PacedElsewhere

LEMMA PutPaced ==
  ASSUME Inv, PacedInv, NEW c \in Conns, NEW n \in 1..Len(toServer[c]), Put(c, n),
         UNCHANGED clientVars
  PROVE  PacedInv'
<1> DEFINE request == CommandOf(c, n)
<1>1. /\ n = 1 /\ Consume(c, n) /\ request.type = "put" /\ ~InUse(receiving[c])
      /\ StartReceive(c, request.user, request, <<>>)
      /\ far' = far /\ fail_count' = fail_count
  BY DEF Put, Reads
<1>2. request = toServer[c][1] /\ toServer[c][1] \in Requests \cup Units
  BY <1>1, CommandFacts DEF Inv, TypeOK
<1>3. request.file \in Names /\ request.size \in Nat /\ request.user \in Owners
  BY <1>1, <1>2, RequestFacts, OwnersHaveNames
<1>4. Len(toServer[c]) \in Nat
  BY DEF Inv, TypeOK, StreamsTypeOK
<1>5. Len(toServer[c]) = 1 /\ uploading[c].current = 0 /\ fail_count[c] = 0
  <2>1. 1 \in 1..Len(toServer[c])
    BY <1>4
  <2>2. RequestOK(c) /\ PacedOK(c)
    BY DEF PacedInv, PacedOK
  <2> QED
    BY <1>1, <1>2, <2>1, <2>2, NoCount DEF RequestOK
<1>6. /\ Len(toServer'[c]) = 0
      /\ \A d \in Conns : d # c => toServer'[d] = toServer[d]
  <2>1. StreamsTypeOK /\ n \in 0..Len(toServer[c])
    BY <1>4 DEF Inv, TypeOK
  <2>2. /\ Len(toServer'[c]) = Len(toServer[c]) - n
        /\ \A d \in Conns : d # c => toServer'[d] = toServer[d]
    BY <1>1, <2>1, ConsumeFacts
  <2> QED
    BY <1>1, <1>5, <2>2
<1> HIDE DEF request
<1>7. <<>> \in Seq(Units) /\ Len(<<>>) = 0
  OBVIOUS
<1>8. /\ receiving'[c].current = 0
      /\ \A d \in Conns \ {c} : receiving'[d] = receiving[d]
  <2>1. /\ receiving'[c].current = Len(<<>>)
        /\ \A d \in Conns \ {c} : receiving'[d] = receiving[d]
    BY <1>1, <1>3, <1>7, StartReceiveFacts DEF Inv, TypeOK
  <2> QED
    BY <1>7, <2>1
<1>9. uploading' = uploading
  BY DEF clientVars
<1>10. PacedOK(c)'
  <2>1. \A i \in 1..Len(toServer'[c]) : FALSE
    BY <1>6
  <2>2. RequestOK(c)' /\ EmptyOK(c)'
    BY <1>1, <1>5, <2>1 DEF RequestOK, EmptyOK
  <2>3. ArrivesOK(c)'
    BY <1>5, <1>6, <1>8, <1>9 DEF ArrivesOK
  <2> QED
    BY <2>2, <2>3 DEF PacedOK
<1> QED
  BY <1>1, <1>6, <1>8, <1>10, PacedElsewhere

(* A request is never read together with data. *)
LEMMA NothingCoalesces ==
  ASSUME Inv, PacedInv, NEW c \in Conns, NEW n \in 1..Len(toServer[c])
  PROVE  ~PutWithData(c, n)
<1> SUFFICES ASSUME PutWithData(c, n) PROVE FALSE
  OBVIOUS
<1>1. n > 1 /\ CommandOf(c, n).type = "put"
  BY DEF PutWithData, Reads
<1>2. CommandOf(c, n) = toServer[c][1]
  BY <1>1, CommandFacts DEF Inv, TypeOK
<1>3. Len(toServer[c]) \in Nat /\ 1 \in 1..Len(toServer[c])
  BY DEF Inv, TypeOK, StreamsTypeOK
<1>4. Len(toServer[c]) = 1
  BY <1>1, <1>2, <1>3 DEF PacedInv, PacedOK, RequestOK
<1> QED
  BY <1>1, <1>4

LEMMA ReceiveMorePaced ==
  ASSUME Inv, PacedInv, NEW c \in Conns, NEW n \in 0..Chunk, ReceiveMore(c, n),
         UNCHANGED clientVars
  PROVE  PacedInv'
<1> DEFINE m == IF n = 0 THEN Len(toServer[c]) ELSE n
<1>1. /\ ReadsData(c, n) /\ CountEmpty(c, n) /\ Consume(c, m)
      /\ receiving' = [receiving EXCEPT ![c].current = @ + n]
      /\ far' = far
  BY DEF ReceiveMore
<1>2. /\ InUse(receiving[c]) /\ receiving[c] \in FileInfos
      /\ n \in 0..Len(toServer[c])
  BY <1>1, ReadsDataFacts
<1>3. Len(toServer[c]) \in Nat
  BY DEF Inv, TypeOK, StreamsTypeOK
<1>4. n \in Nat /\ m \in 0..Len(toServer[c])
  BY <1>2, <1>3
<1>5. n = 0 => EndOfStream(c)
  BY <1>1 DEF ReadsData
<1> HIDE DEF m
<1>6. /\ \A d \in Conns : d # c => toServer'[d] = toServer[d]
      /\ Len(toServer'[c]) = Len(toServer[c]) - m
      /\ \A i \in 1..Len(toServer'[c]) :
           i + m \in 1..Len(toServer[c]) /\ toServer'[c][i] = toServer[c][i + m]
  BY <1>1, <1>4, ConsumeFacts DEF Inv, TypeOK
<1>7. /\ \A d \in Conns : d # c => receiving'[d] = receiving[d]
      /\ InUse(receiving'[c]) /\ receiving'[c].current = receiving[c].current + n
  <2> DEFINE info == [receiving[c] EXCEPT !.current = @ + n]
  <2>1. info.current = receiving[c].current + n /\ InUse(info)
    BY <1>2, <1>4, MovedFacts
  <2> HIDE DEF info
  <2>2. receiving' = [receiving EXCEPT ![c] = info]
    BY <1>1 DEF info
  <2> QED
    BY <2>1, <2>2 DEF Inv, TypeOK, ServerTypeOK
<1>8. \A d \in Conns : d # c => fail_count'[d] = fail_count[d]
  BY <1>1 DEF CountEmpty, Inv, TypeOK, ServerTypeOK
<1>9. PacedOK(c) /\ uploading'[c] = uploading[c]
  BY DEF PacedInv, clientVars
<1>10. RequestOK(c)'
  <2>1. \A i \in 1..Len(toServer[c]) : toServer[c][i].type = "data"
    BY <1>2, BusyFacts
  <2>2. \A i \in 1..Len(toServer'[c]) : toServer'[c][i].type = "data"
    BY <1>6, <2>1
  <2> QED
    BY <2>2 DEF RequestOK
<1>11. ASSUME n = 0 PROVE far[c] # "open" /\ m = Len(toServer[c])
  BY <1>5, <1>11 DEF EndOfStream, m
<1>12. ASSUME n # 0 PROVE m = n /\ fail_count'[c] = fail_count[c]
  BY <1>1, <1>4, <1>12 DEF CountEmpty, m
<1>13. EmptyOK(c)'
  <2>1. CASE n = 0
    <3>1. Len(toServer'[c]) = 0
      BY <1>3, <1>6, <1>11, <2>1
    <3> QED
      BY <1>1, <1>7, <1>11, <2>1, <3>1 DEF EmptyOK
  <2>2. CASE n # 0
    <3>1. Len(toServer[c]) # 0
      BY <1>2, <1>3, <2>2
    <3>2. ~(fail_count[c] > 0)
      BY <1>9, <3>1 DEF PacedOK, EmptyOK
    <3> QED
      BY <1>12, <2>2, <3>2 DEF EmptyOK
  <2> QED
    BY <2>1, <2>2
<1>14. ArrivesOK(c)'
  <2>1. CASE n = 0
    <3>1. ~InUse(uploading[c])
      BY <1>11, <2>1 DEF Inv, FarInv, FarOK
    <3> QED
      BY <1>9, <3>1 DEF ArrivesOK
  <2>2. CASE n # 0
    <3>1. ArrivesOK(c) /\ receiving[c].current \in Nat
      BY <1>2, <1>9, InUseFacts DEF PacedOK
    <3>2. Len(toServer'[c]) = Len(toServer[c]) - n
      BY <1>6, <1>12, <2>2
    <3>3. receiving'[c].current + Len(toServer'[c]) = receiving[c].current + Len(toServer[c])
      BY <1>3, <1>4, <1>7, <3>1, <3>2
    <3> QED
      BY <1>2, <1>9, <3>1, <3>3 DEF ArrivesOK
  <2> QED
    BY <2>1, <2>2
<1>15. PacedOK(c)'
  BY <1>10, <1>13, <1>14 DEF PacedOK
<1> QED
  BY <1>1, <1>6, <1>7, <1>8, <1>15, PacedElsewhere

LEMMA FinishReceivePaced ==
  ASSUME Inv, PacedInv, NEW c \in Conns, NEW n \in 0..Chunk, FinishReceive(c, n),
         UNCHANGED clientVars
  PROVE  PacedInv'
<1>1. /\ ReadsData(c, n) /\ CountEmpty(c, n) /\ CloseNear(c)
      /\ receiving' = [receiving EXCEPT ![c] = NoFile]
      /\ n = 0 => fail_count[c] = 2
  BY DEF FinishReceive
<1>2. \A d \in Conns : far'[d] = "open" => far[d] = "open"
  BY DEF FinishReceive, Write
<1>3. n \in 0..Len(toServer[c])
  BY <1>1, ReadsDataFacts
<1>4. fail_count'[c] = 0
  <2>1. fail_count \in [Conns -> Nat]
    BY DEF Inv, TypeOK, ServerTypeOK
  <2>2. CASE n = 0
    <3>1. fail_count' = [fail_count EXCEPT ![c] = (@ + 1) % 3]
      BY <1>1, <2>2 DEF CountEmpty
    <3>2. (fail_count[c] + 1) % 3 = 0
      BY <1>1, <2>2
    <3> QED
      BY <2>1, <3>1, <3>2
  <2>3. CASE n # 0
    <3>1. n \in Nat /\ n > 0
      BY <2>3, BoundsFacts
    <3>2. fail_count' = fail_count
      BY <1>1, <3>1 DEF CountEmpty
    <3>3. Len(toServer[c]) # 0
      BY <1>3, <3>1
    <3>4. ~(fail_count[c] > 0)
      BY <3>3 DEF PacedInv, PacedOK, EmptyOK
    <3>5. fail_count[c] \in Nat
      BY <2>1
    <3> QED
      BY <3>2, <3>4, <3>5
  <2> QED
    BY <2>2, <2>3
<1>5. /\ ~InUse(receiving'[c])
      /\ \A d \in Conns : d # c => receiving'[d] = receiving[d]
  BY <1>1, NoFileFacts DEF Inv, TypeOK, ServerTypeOK
<1>6. \A d \in Conns : d # c => fail_count'[d] = fail_count[d]
  BY <1>1 DEF CountEmpty, Inv, TypeOK, ServerTypeOK
<1> QED
  BY <1>1, <1>2, <1>4, <1>5, <1>6, ClosePaced

LEMMA SendChunkPaced ==
  ASSUME Inv, PacedInv, NEW c \in Conns, SendChunk(c), UNCHANGED clientVars
  PROVE  PacedInv'
<1>1. /\ toServer' = toServer /\ receiving' = receiving /\ fail_count' = fail_count
      /\ \A d \in Conns : far'[d] = "open" => far[d] = "open"
  BY DEF SendChunk, Write, tableVars
<1>2. PacedOK(c)'
  BY <1>1, PacedSame DEF PacedInv, clientVars
<1> QED
  BY <1>1, <1>2, PacedElsewhere

LEMMA FinishSendPaced ==
  ASSUME Inv, PacedInv, NEW c \in Conns, FinishSend(c), UNCHANGED clientVars
  PROVE  PacedInv'
<1>1. /\ InUse(sending[c]) /\ CloseNear(c) /\ far' = far
      /\ receiving' = receiving /\ fail_count' = fail_count
  BY DEF FinishSend, tableVars
<1>2. ~InUse(receiving[c])
  BY <1>1 DEF Inv, NearInv, NearOK
<1>3. fail_count[c] = 0
  BY <1>2, NoCount DEF PacedInv
<1> QED
  BY <1>1, <1>2, <1>3, ClosePaced

LEMMA ServerPaced ==
  ASSUME Inv, PacedInv, NEW c \in Conns, Server(c)
  PROVE  PacedInv'
<1>1. UNCHANGED clientVars
  BY DEF Server
<1>2. CASE Accept(c)
  BY <1>1, <1>2, AcceptPaced
<1>3. CASE Hangup(c)
  BY <1>1, <1>3, DisconnectPaced DEF Hangup
<1>4. ASSUME NEW n \in 1..Len(toServer[c]), Leave(c, n)
      PROVE  PacedInv'
  BY <1>1, <1>4, DisconnectPaced DEF Leave, Reads
<1>5. ASSUME NEW n \in 1..Len(toServer[c]), Ignore(c, n)
      PROVE  PacedInv'
  <2>1. /\ Consume(c, n) /\ ~InUse(receiving[c]) /\ far' = far
        /\ receiving' = receiving /\ fail_count' = fail_count
    BY <1>5 DEF Ignore, Reads, serverVars, tableVars
  <2> QED
    BY <1>1, <2>1, ReadPaced
<1>6. ASSUME NEW n \in 1..Len(toServer[c]), Name(c, n)
      PROVE  PacedInv'
  <2>1. /\ Consume(c, n) /\ ~InUse(receiving[c])
        /\ \A d \in Conns : far'[d] = "open" => far[d] = "open"
        /\ receiving' = receiving /\ fail_count' = fail_count
    BY <1>6 DEF Name, Reads, Write
  <2> QED
    BY <1>1, <2>1, ReadPaced
<1>7. ASSUME NEW n \in 1..Len(toServer[c]), Get(c, n)
      PROVE  PacedInv'
  <2>1. /\ Consume(c, n) /\ ~InUse(receiving[c]) /\ far' = far
        /\ receiving' = receiving /\ fail_count' = fail_count
    BY <1>7 DEF Get, Reads, tableVars
  <2> QED
    BY <1>1, <2>1, ReadPaced
<1>8. CASE HandleClient(c)
  BY <1>1, <1>3, <1>4, <1>5, <1>6, <1>7, <1>8, PutPaced, NothingCoalesces
     DEF HandleClient
<1>9. CASE ReceiveFile(c)
  BY <1>1, <1>9, ReceiveMorePaced, FinishReceivePaced DEF ReceiveFile
<1>10. CASE SendFile(c)
  BY <1>1, <1>10, SendChunkPaced, FinishSendPaced DEF SendFile
<1> QED
  BY <1>2, <1>8, <1>9, <1>10 DEF Server, ServerStep

-----------------------------------------------------------------------------
(* The clients *)

LEMMA OpenPaced ==
  ASSUME Inv, PacedInv, NEW p \in Procs, NEW line \in Requests, Open(p, line),
         UNCHANGED serverVars,
         \A d \in Conns : d # Fresh => uploading'[d] = uploading[d],
         line.type = "put" => uploading'[Fresh].current = 0
  PROVE  PacedInv'
<1>1. PICK k :
      /\ k = Fresh
      /\ Usable # {} /\ Len(toServer'[k]) = 1 /\ toServer'[k][1] = line
      /\ \A d \in Conns : d # k => far'[d] = far[d] /\ toServer'[d] = toServer[d]
  BY OpenFacts
<1>2. k \in Conns /\ Idle(k)
  BY <1>1, FreshFacts
<1>3. receiving' = receiving /\ fail_count' = fail_count
  BY DEF serverVars, tableVars
<1>4. fail_count[k] = 0 /\ ~InUse(receiving[k])
  BY <1>2, NoCount DEF PacedInv, Idle
<1>5. PacedOK(k)'
  <2>1. RequestOK(k)'
    BY <1>1 DEF RequestOK
  <2> QED
    BY <1>3, <1>4, <2>1 DEF PacedOK, EmptyOK, ArrivesOK
<1>6. ASSUME NEW d \in Conns, d # k PROVE PacedOK(d)'
  BY <1>1, <1>3, <1>6, PacedSame DEF PacedInv
<1> QED
  BY <1>5, <1>6 DEF PacedInv

LEMMA StartPaced ==
  ASSUME Inv, PacedInv, NEW p \in Procs, Start(p), UNCHANGED serverVars
  PROVE  PacedInv'
<1> DEFINE line == [type |-> "name", user |-> UserOf[p]]
<1>1. Open(p, line) /\ uploading' = uploading
  BY DEF Start
<1>2. line \in Requests /\ line.type = "name"
  BY LineFacts, DropboxAssumption DEF DropboxAssumption
<1> HIDE DEF line
<1> QED
  BY <1>1, <1>2, OpenPaced

LEMMA TypePutPaced ==
  ASSUME Inv, PacedInv, NEW p \in Procs, NEW f \in Files, TypePut(p, f),
         UNCHANGED serverVars
  PROVE  PacedInv'
<1> DEFINE name == <<f, 0>>
           size == Len(disk[p][name])
           line == PutLine(name, size, UserOf[p])
           info == FileInfo(name, size)
<1>1. Open(p, line) /\ uploading' = [uploading EXCEPT ![Fresh] = info]
  BY DEF TypePut
<1>2. name \in Names
  BY BoundsFacts DEF Names
<1> HIDE DEF name
<1>3. size \in Nat
  <2>1. disk[p][name] \in Seq(Units)
    BY <1>2 DEF Inv, TypeOK, ClientTypeOK
  <2> QED
    BY <2>1
<1> HIDE DEF size
<1>4. line \in Requests
  BY <1>2, <1>3, LineFacts, DropboxAssumption DEF DropboxAssumption
<1>5. info.current = 0
  BY <1>2, <1>3, FileInfoFacts
<1> HIDE DEF line, info
<1>6. PICK k : k = Fresh /\ Usable # {}
  BY <1>1, <1>4, OpenFacts
<1>7. k \in Conns
  BY <1>6, FreshFacts
<1>8. uploading'[k] = info /\ \A d \in Conns : d # k => uploading'[d] = uploading[d]
  BY <1>1, <1>6, <1>7 DEF Inv, TypeOK, ClientTypeOK
<1> QED
  BY <1>1, <1>4, <1>5, <1>6, <1>8, OpenPaced

LEMMA ReadNewPaced ==
  ASSUME Inv, PacedInv, NEW p \in Procs, NEW n \in 1..Capacity, ReadNew(p, n),
         UNCHANGED serverVars
  PROVE  PacedInv'
<1> DEFINE head == Head(toClient[fd_cmd[p]])
           line == [type |-> "get", file |-> head.file]
<1>1. Response(p, n) /\ head.type = "put" /\ Open(p, line) /\ uploading' = uploading
  BY DEF ReadNew
<1>2. head \in Notices \cup Units
  BY <1>1, ResponseFacts
<1> HIDE DEF head
<1>3. line \in Requests /\ line.type = "get"
  BY <1>1, <1>2, NoticeFacts, LineFacts
<1> HIDE DEF line
<1> QED
  BY <1>1, <1>3, OpenPaced

(* A step of a client that writes to none of its connections. *)
LEMMA SilentPaced ==
  ASSUME PacedInv, UNCHANGED serverVars, toServer' = toServer,
         \A c \in Conns :
           /\ uploading'[c] = uploading[c] \/ uploading'[c] = NoFile
           /\ far'[c] = "open" => far[c] = "open"
  PROVE  PacedInv'
<1>1. receiving' = receiving /\ fail_count' = fail_count
  BY DEF serverVars, tableVars
<1> QED
  BY <1>1, PacedSame DEF PacedInv

(* Closing connections opens none. *)
LEMMA ReleaseOpensNone ==
  ASSUME NEW S, NEW unread, Release(S, unread)
  PROVE  \A c \in Conns : far'[c] = "open" => far[c] = "open"
  BY DEF Release, CloseFar

LEMMA DieFacts ==
  ASSUME NEW p, Die(p)
  PROVE  \A c \in Conns :
           /\ uploading'[c] = uploading[c] \/ uploading'[c] = NoFile
           /\ far'[c] = "open" => far[c] = "open"
<1>1. \A c \in Conns : uploading'[c] = uploading[c] \/ uploading'[c] = NoFile
  BY DEF Die
<1>2. Release(Mine(p), {c \in Conns : toClient[c] # <<>>})
  BY DEF Die
<1> QED
  BY <1>1, <1>2, ReleaseOpensNone

(* The user types something else than a request. *)
LEMMA TellPaced ==
  ASSUME Inv, PacedInv, NEW p \in Procs, state[p] = "connected",
         NEW type \in {"sleep", "exit"}, Tell(p, type), UNCHANGED serverVars,
         \A c \in Conns :
           /\ uploading'[c] = uploading[c] \/ uploading'[c] = NoFile
           /\ far'[c] = "open" => far[c] = "open"
  PROVE  PacedInv'
<1>1. receiving' = receiving /\ fail_count' = fail_count
  BY DEF serverVars, tableVars
<1>2. PICK k : k = fd_cmd[p]
  OBVIOUS
<1>3. k \in Conns /\ Idle(k)
  BY <1>2 DEF Inv, ProcsInv, ProcOK
<1>4. \A i \in 1..Len(toServer[k]) : toServer[k][i].type \in CommandTypes
  BY <1>2 DEF Inv, ProcsInv, ProcOK
<1>5. Adds(k)
  BY <1>3, TellFacts
<1>6. \A d \in Conns : d # k => toServer'[d] = toServer[d]
  BY <1>2 DEF Tell, Inv, TypeOK, StreamsTypeOK
<1>7. \A i \in 1..Len(toServer'[k]) : toServer'[k][i].type # "put"
  BY <1>3, <1>4, <1>5 DEF Adds, CommandTypes
<1>8. PacedOK(k)'
  <2>1. fail_count[k] = 0 /\ ~InUse(receiving[k])
    BY <1>3, NoCount DEF PacedInv, Idle
  <2> QED
    BY <1>1, <1>3, <1>7, <2>1, PacedAtRest
<1>9. ASSUME NEW d \in Conns, d # k PROVE PacedOK(d)'
  BY <1>1, <1>6, <1>9, PacedSame DEF PacedInv
<1> QED
  BY <1>8, <1>9 DEF PacedInv

LEMMA UploadChunkPaced ==
  ASSUME ~Slow, Inv, PacedInv, NEW c \in Conns, UploadChunk(c), UNCHANGED serverVars
  PROVE  PacedInv'
<1> DEFINE info == uploading[c]
           units == NextUnits(disk[owner[c]][info.file_name], info)
<1>1. /\ InUse(info) /\ Writable(c) /\ RequestWasRead(c)
      /\ uploading' = [uploading EXCEPT ![c] = AfterRead(info, units)]
      /\ toServer' = [toServer EXCEPT ![c] = Fit(@, units)]
      /\ far' = far
  BY DEF UploadChunk
<1>2. info \in FileInfos /\ info.file_name \in Names
  BY <1>1, InUseFacts DEF Inv, TypeOK, ClientTypeOK
<1>3. owner[c] \in Procs
  BY <1>1, OwnerFacts
<1>4. disk[owner[c]][info.file_name] \in Seq(Units)
  BY <1>2, <1>3 DEF Inv, TypeOK, ClientTypeOK
<1>5. /\ units \in Seq(Units) /\ Len(units) \in 0..Chunk
      /\ AfterRead(info, units).current = info.current + Len(units)
  BY <1>2, <1>4, NextUnitsFacts
<1>6. /\ uploading'[c].current = info.current + Len(units)
      /\ \A d \in Conns : d # c => uploading'[d] = uploading[d]
  BY <1>1, <1>5 DEF Inv, TypeOK, ClientTypeOK
<1> HIDE DEF units
<1>7. receiving' = receiving /\ fail_count' = fail_count
  BY DEF serverVars, tableVars
<1>8. /\ toServer \in [Conns -> Seq(Requests \cup Units)]
      /\ \A d \in Conns : Len(toServer[d]) <= Capacity
  BY DEF Inv, TypeOK, StreamsTypeOK
<1>9. units \in Seq(Requests \cup Units) /\ \A i \in 1..Len(units) : units[i].type = "data"
  BY <1>5, UnitFacts
<1>10. toServer'[c] = Fit(toServer[c], units)
  BY <1>1, <1>8
<1>11. \A i \in 1..Len(toServer'[c]) : toServer'[c][i].type # "put"
  <2>1. \A i \in 1..Len(Fit(toServer[c], units)) :
          \/ i \in 1..Len(toServer[c]) /\ Fit(toServer[c], units)[i] = toServer[c][i]
          \/ /\ i - Len(toServer[c]) \in 1..Len(units)
             /\ Fit(toServer[c], units)[i] = units[i - Len(toServer[c])]
    BY <1>8, <1>9, FitFacts
  <2> HIDE DEF Fit
  <2>2. \A i \in 1..Len(toServer[c]) : toServer[c][i].type # "put"
    BY <1>1 DEF RequestWasRead
  <2> QED
    BY <1>9, <1>10, <2>1, <2>2
<1>12. ASSUME InUse(receiving[c])
       PROVE  Len(toServer'[c]) = Len(toServer[c]) + Len(units)
  <2>1. near[c] = "open"
    BY <1>12, BusyFacts
  <2>2. Len(toServer[c]) + Chunk <= Capacity
    BY <1>1, <2>1 DEF Writable, HasRoom
  <2>3. Len(toServer[c]) \in Nat
    BY <1>8
  <2>4. Len(toServer[c]) + Len(units) <= Capacity
    BY <1>5, <2>2, <2>3, BoundsFacts
  <2> QED
    BY <1>8, <1>9, <1>10, <2>4, FitWhole
<1>13. PacedOK(c)
  BY DEF PacedInv
<1>14. far[c] = "open"
  BY <1>1 DEF Inv, FarInv, FarOK
<1>15. PacedOK(c)'
  <2>1. RequestOK(c)'
    BY <1>11 DEF RequestOK
  <2>2. EmptyOK(c)'
    BY <1>7, <1>13, <1>14 DEF PacedOK, EmptyOK
  <2>3. ArrivesOK(c)'
    <3> SUFFICES ASSUME InUse(receiving[c])
                 PROVE  receiving[c].current + Len(toServer'[c]) = uploading'[c].current
      BY <1>7 DEF ArrivesOK
    <3>1. receiving[c].current + Len(toServer[c]) = info.current
      BY <1>1, <1>13 DEF PacedOK, ArrivesOK
    <3>2. receiving[c].current \in Nat
      BY InUseFacts DEF Inv, TypeOK, ServerTypeOK
    <3>3. Len(toServer[c]) \in Nat /\ Len(units) \in Nat
      BY <1>5, <1>8
    <3> QED
      BY <1>6, <1>12, <3>1, <3>2, <3>3
  <2> QED
    BY <2>1, <2>2, <2>3 DEF PacedOK
<1>16. ASSUME NEW d \in Conns, d # c PROVE PacedOK(d)'
  <2>1. toServer'[d] = toServer[d]
    BY <1>1, <1>8, <1>16
  <2> QED
    BY <1>1, <1>6, <1>7, <1>16, <2>1, PacedSame DEF PacedInv
<1> QED
  BY <1>15, <1>16 DEF PacedInv

LEMMA ClientsPaced ==
  ASSUME ~Slow, Inv, PacedInv, Clients
  PROVE  PacedInv'
<1>1. UNCHANGED serverVars /\ ClientStep
  BY DEF Clients
<1>2. ASSUME NEW c \in Conns, FinishUpload(c) PROVE PacedInv'
  <2>1. /\ toServer' = toServer /\ Release({c}, {})
        /\ uploading' = [uploading EXCEPT ![c] = NoFile]
    BY <1>2 DEF FinishUpload
  <2>2. \A d \in Conns : uploading'[d] = uploading[d] \/ uploading'[d] = NoFile
    BY <2>1 DEF Inv, TypeOK, ClientTypeOK
  <2>3. \A d \in Conns : far'[d] = "open" => far[d] = "open"
    BY <2>1, ReleaseOpensNone
  <2> QED
    BY <1>1, <2>1, <2>2, <2>3, SilentPaced
<1>3. ASSUME NEW c \in Conns, NEW n \in 0..Chunk,
             DownloadMore(c, n) \/ FinishDownload(c, n)
      PROVE  PacedInv'
  <2>1. toServer' = toServer /\ uploading' = uploading
    BY <1>3 DEF DownloadMore, FinishDownload, ReadsUnits
  <2>2. \A d \in Conns : far'[d] = "open" => far[d] = "open"
    BY <1>3, ReleaseOpensNone DEF DownloadMore, FinishDownload
  <2> QED
    BY <1>1, <2>1, <2>2, SilentPaced
<1>4. ASSUME NEW p \in Procs, Die(p), toServer' = toServer PROVE PacedInv'
  BY <1>1, <1>4, DieFacts, SilentPaced
<1>5. ASSUME NEW c \in Conns, DivideByZero(c) PROVE PacedInv'
  BY <1>4, <1>5, OwnerFacts DEF DivideByZero
<1>6. ASSUME NEW p \in Procs, NEW n \in 1..Capacity, ReadKnown(p, n) PROVE PacedInv'
  <2>1. toServer' = toServer /\ uploading' = uploading /\ far' = far
    BY <1>6 DEF ReadKnown, clientVars
  <2> QED
    BY <1>1, <2>1, SilentPaced
<1>7. ASSUME NEW p \in Procs, TypeSleep(p) PROVE PacedInv'
  <2>1. /\ state[p] = "connected" /\ Tell(p, "sleep")
        /\ uploading' = uploading /\ far' = far
    BY <1>7 DEF TypeSleep, clientVars
  <2> QED
    BY <1>1, <2>1, TellPaced
<1>8. ASSUME NEW p \in Procs, TypeExit(p) PROVE PacedInv'
  <2>1. state[p] = "connected" /\ Tell(p, "exit") /\ Die(p)
    BY <1>8 DEF TypeExit
  <2> QED
    BY <1>1, <2>1, DieFacts, TellPaced
<1>9. ASSUME NEW c \in Conns, Transfer(c) PROVE PacedInv'
  BY <1>1, <1>2, <1>3, <1>5, <1>9, UploadChunkPaced DEF Transfer
<1>10. ASSUME NEW p \in Procs, ServerResponse(p) PROVE PacedInv'
  BY <1>1, <1>6, <1>10, ReadNewPaced DEF ServerResponse
<1>11. ASSUME NEW p \in Procs, Input(p) PROVE PacedInv'
  BY <1>1, <1>4, <1>7, <1>8, <1>11, StartPaced, TypePutPaced DEF Input, Killed
<1> QED
  BY <1>1, <1>9, <1>10, <1>11 DEF ClientStep

-----------------------------------------------------------------------------
(* The paced invariant *)

LEMMA InitPaced ==
  ASSUME Init
  PROVE  PacedInv
<1> SUFFICES ASSUME NEW c \in Conns PROVE PacedOK(c)
  BY DEF PacedInv
<1>1. toServer[c] = <<>>
  BY DEF Init, StreamsInit
<1>2. Len(toServer[c]) = 0
  BY <1>1
<1>3. fail_count[c] = 0 /\ ~InUse(receiving[c])
  BY NoFileFacts DEF Init, ServerInit
<1>4. \A i \in 1..Len(toServer[c]) : FALSE
  BY <1>2
<1> QED
  BY <1>3, <1>4 DEF PacedOK, RequestOK, EmptyOK, ArrivesOK

LEMMA NextPaced ==
  ASSUME ~Slow, Inv, PacedInv, [Next]_vars
  PROVE  PacedInv'
<1>1. CASE UNCHANGED vars
  <2>1. /\ toServer' = toServer /\ uploading' = uploading /\ far' = far
        /\ UNCHANGED serverVars
    BY <1>1 DEF vars, streamVars, clientVars
  <2> QED
    BY <2>1, SilentPaced
<1> QED
  BY <1>1, ServerPaced, ClientsPaced DEF Next, Over

LEMMA PacedInvariance ==
  ASSUME ~Slow
  PROVE  Spec => [](Inv /\ PacedInv)
<1>1. Init => Inv /\ PacedInv
  BY InitInv, InitPaced
<1>2. Inv /\ PacedInv /\ [Next]_vars => (Inv /\ PacedInv)'
  BY NextKeeps, NextPaced
<1> QED
  BY <1>1, <1>2, PTL DEF Spec

(* What a client has read of a file that it uploads is what the server has     *)
(* stored and what is under way: the 50 ms of the workaround are all it takes. *)
THEOREM UploadsArrive == ~Slow => (Spec => []UploadArrives)
<1> SUFFICES ASSUME ~Slow PROVE Spec => []UploadArrives
  OBVIOUS
<1>1. Inv /\ PacedInv => UploadArrives
  BY DEF PacedInv, PacedOK, ArrivesOK, UploadArrives
<1> QED
  BY <1>1, PacedInvariance, PTL

(* A descriptor that the server has not open is clean when it is used again.   *)
THEOREM DescriptorsAreFresh == ~Slow => (Spec => []FreshDescriptors)
<1> SUFFICES ASSUME ~Slow PROVE Spec => []FreshDescriptors
  OBVIOUS
<1>1. ASSUME Inv, PacedInv PROVE FreshDescriptors
  <2> SUFFICES ASSUME NEW c \in Conns, near[c] # "open"
               PROVE  /\ ~InUse(receiving[c]) /\ ~InUse(sending[c])
                      /\ fail_count[c] = 0 /\ name_map[c] = ""
    BY DEF FreshDescriptors, clients
  <2>1. ~InUse(receiving[c]) /\ ~InUse(sending[c]) /\ name_map[c] = ""
    BY <1>1 DEF Inv, NearInv, NearOK
  <2>2. fail_count[c] = 0
    BY <1>1, <2>1, NoCount DEF PacedInv
  <2> QED
    BY <2>1, <2>2
<1>2. Inv /\ PacedInv => FreshDescriptors
  BY <1>1
<1> QED
  BY <1>2, PacedInvariance, PTL

-----------------------------------------------------------------------------
(* With users who share no names besides, what was announced stays as it was. *)

(* No announced file is written. *)
Stays == \A n \in shared : n \in shared' /\ folder'[n] = folder[n]

(* Requests to upload come from old ones or ask for the user's own files. *)
AsksOwn ==
  \A c \in Conns : \A i \in 1..Len(toServer'[c]) :
    \/ OwnRequest(toServer'[c][i])
    \/ \E j \in 1..Len(toServer[c]) : toServer'[c][i] = toServer[c][j]

LEMMA AsksAreOwn ==
  ASSUME SharedInv, AsksOwn
  PROVE  \A c \in Conns : \A i \in 1..Len(toServer'[c]) : OwnRequest(toServer'[c][i])
  BY DEF SharedInv, AsksOwn

(* The parts of SharedInv in the next state. *)
LEMMA SharedNext ==
  ASSUME \A c \in Conns : \A i \in 1..Len(toServer'[c]) : OwnRequest(toServer'[c][i]),
         \A u \in Owners : \A n \in client_files'[u] : Owns(u, n[1]),
         shared' \subseteq Stored',
         \A c \in Conns : InUse(receiving'[c]) =>
           /\ receiving'[c].file_name \in client_files'[fd_file_map'[c]] \ shared'
           /\ \A d \in Conns \ {c} : receiving'[d].file_name # receiving'[c].file_name
  PROVE  SharedInv'
  BY DEF SharedInv, OwnRequest, Owns, OwnName, InUse

(* The tables of uploads are not touched. *)
LEMMA SharedSame ==
  ASSUME SharedInv, AsksOwn,
         client_files' = client_files, fd_file_map' = fd_file_map,
         receiving' = receiving, folder' = folder, shared' = shared
  PROVE  SharedInv' /\ Stays
<1>1. \A c \in Conns : \A i \in 1..Len(toServer'[c]) : OwnRequest(toServer'[c][i])
  BY AsksAreOwn
<1>2. Stored' = Stored
  BY DEF Stored
<1> QED
  BY <1>1, <1>2, SharedNext DEF SharedInv, Stays, OwnName

LEMMA AsksOld ==
  ASSUME \A c \in Conns : \A i \in 1..Len(toServer'[c]) :
           \E j \in 1..Len(toServer[c]) : toServer'[c][i] = toServer[c][j]
  PROVE  AsksOwn
  BY DEF AsksOwn

(* Reading a connection or closing it brings no requests. *)
LEMMA ConsumeAsksNone ==
  ASSUME StreamsTypeOK, NEW c \in Conns, NEW n \in 0..Len(toServer[c]), Consume(c, n)
  PROVE  AsksOwn
<1>1. /\ \A d \in Conns : d # c => toServer'[d] = toServer[d]
      /\ \A i \in 1..Len(toServer'[c]) :
           i + n \in 1..Len(toServer[c]) /\ toServer'[c][i] = toServer[c][i + n]
  BY ConsumeFacts
<1>2. ASSUME NEW d \in Conns, NEW i \in 1..Len(toServer'[d])
      PROVE  \E j \in 1..Len(toServer[d]) : toServer'[d][i] = toServer[d][j]
  BY <1>1
<1> QED
  BY <1>2, AsksOld

LEMMA CloseAsksNone ==
  ASSUME StreamsTypeOK, NEW c \in Conns, CloseNear(c)
  PROVE  AsksOwn
<1>1. /\ \A d \in Conns : d # c => toServer'[d] = toServer[d]
      /\ Len(toServer'[c]) = 0
  BY CloseNearFacts
<1>2. ASSUME NEW d \in Conns, NEW i \in 1..Len(toServer'[d])
      PROVE  \E j \in 1..Len(toServer[d]) : toServer'[d][i] = toServer[d][j]
  BY <1>1
<1> QED
  BY <1>2, AsksOld

-----------------------------------------------------------------------------
(* The server *)

(* A new upload gets a name that no user has. *)
LEMMA NameIsFresh ==
  ASSUME Apart, SharedInv, NEW user, NEW f \in Files, Owns(user, f), HasName(user, f)
  PROVE  user \in Users /\ StoredName(user, f) \in Names \ Stored
<1> DEFINE name == StoredName(user, f)
<1>1. name \in Names /\ name \notin client_files[user] /\ name[1] = f
  BY StoredNameIsNew DEF StoredName
<1> HIDE DEF name
<1>2. user \in Users
  BY DropboxAssumption DEF DropboxAssumption, Owns
<1>3. ASSUME NEW v \in Owners, name \in client_files[v] PROVE FALSE
  <2>1. Owns(v, f)
    BY <1>1, <1>3 DEF SharedInv
  <2>2. v \in Users
    BY <2>1, DropboxAssumption DEF DropboxAssumption, Owns
  <2> QED
    BY <1>1, <1>2, <1>3, <2>1, <2>2 DEF Apart
<1> QED
  BY <1>1, <1>2, <1>3 DEF Stored, name

(* Two files that are being received have not one name. *)
LEMMA OwnNameFacts ==
  ASSUME Inv, SharedInv, NEW c \in Conns, InUse(receiving[c])
  PROVE  /\ fd_file_map[c] \in Owners
         /\ receiving[c].file_name \in client_files[fd_file_map[c]]
         /\ receiving[c].file_name \in Stored \ shared
         /\ \A d \in Conns \ {c} : receiving[d].file_name # receiving[c].file_name
<1>1. fd_file_map[c] \in Owners
  BY DEF Inv, TypeOK, ServerTypeOK
<1> QED
  BY <1>1 DEF SharedInv, OwnName, Stored

LEMMA PutShares ==
  ASSUME Apart, Inv, SharedInv, NEW c \in Conns,
         NEW n \in 1..Len(toServer[c]), Put(c, n)
  PROVE  SharedInv' /\ Stays
<1> DEFINE request == CommandOf(c, n)
           name == StoredName(request.user, request.file[1])
<1>1. /\ Consume(c, n) /\ request.type = "put" /\ shared' = shared
      /\ StartReceive(c, request.user, request, <<>>)
  BY DEF Put, Reads
<1>2. request = toServer[c][1] /\ toServer[c][1] \in Requests \cup Units
  BY <1>1, CommandFacts DEF Inv, TypeOK
<1>3. request.file \in Names /\ request.size \in Nat /\ request.user \in Owners
  BY <1>1, <1>2, RequestFacts, OwnersHaveNames
<1>4. Owns(request.user, request.file[1])
  <2>1. 1 \in 1..Len(toServer[c])
    BY DEF Inv, TypeOK, StreamsTypeOK
  <2> QED
    BY <1>1, <1>2, <2>1 DEF SharedInv, OwnRequest
<1>5. request.user \in Users /\ name \in Names \ Stored /\ name[1] = request.file[1]
  <2>1. HasName(request.user, request.file[1]) /\ request.file[1] \in Files
    BY <1>1, <1>3 DEF StartReceive, Names
  <2> QED
    BY <1>4, <2>1, NameIsFresh DEF StoredName
<1>6. /\ client_files' = [client_files EXCEPT ![request.user] = @ \cup {name}]
      /\ fd_file_map' = [fd_file_map EXCEPT ![c] = request.user]
  BY <1>1 DEF StartReceive
<1>7. folder' = [folder EXCEPT ![name] = <<>>]
  BY <1>1 DEF StartReceive
<1> HIDE DEF request
<1>8. <<>> \in Seq(Units)
  OBVIOUS
<1>9. /\ receiving'[c].file_name = name
      /\ \A d \in Conns \ {c} : receiving'[d] = receiving[d]
  BY <1>1, <1>3, <1>8, StartReceiveFacts DEF Inv, TypeOK
<1> HIDE DEF name
<1> DEFINE user == request.user
<1> HIDE DEF user
<1>10. /\ user \in Owners
       /\ client_files'[user] = client_files[user] \cup {name}
       /\ \A v \in Owners \ {user} : client_files'[v] = client_files[v]
       /\ fd_file_map'[c] = user /\ \A d \in Conns \ {c} : fd_file_map'[d] = fd_file_map[d]
  BY <1>3, <1>6 DEF Inv, TypeOK, ServerTypeOK, user
<1>11. AsksOwn
  <2>1. StreamsTypeOK /\ n \in 0..Len(toServer[c])
    BY DEF Inv, TypeOK, StreamsTypeOK
  <2> QED
    BY <1>1, <2>1, ConsumeAsksNone
<1>12. \A d \in Conns : receiving[d].file_name # name
  <2> SUFFICES ASSUME NEW d \in Conns PROVE receiving[d].file_name # name
    OBVIOUS
  <2>1. receiving[d] \in FileInfos
    BY DEF Inv, TypeOK, ServerTypeOK
  <2>2. CASE InUse(receiving[d])
    BY <1>5, <2>2, OwnNameFacts
  <2>3. CASE ~InUse(receiving[d])
    BY <1>5, <2>1, <2>3, InUseFacts
  <2> QED
    BY <2>2, <2>3
<1>13. \A d \in Conns : \A i \in 1..Len(toServer'[d]) : OwnRequest(toServer'[d][i])
  BY <1>11, AsksAreOwn
<1>14. /\ \A v \in Owners : \A m \in client_files'[v] : Owns(v, m[1])
       /\ shared' \subseteq Stored'
  <2>1. ASSUME NEW v \in Owners, NEW m \in client_files'[v] PROVE Owns(v, m[1])
    BY <1>4, <1>5, <1>10, <2>1 DEF SharedInv, user
  <2>2. Stored \subseteq Stored'
    BY <1>10 DEF Stored
  <2> QED
    BY <1>1, <2>1, <2>2 DEF SharedInv
<1>15. ASSUME NEW d \in Conns, InUse(receiving'[d])
       PROVE  /\ receiving'[d].file_name \in client_files'[fd_file_map'[d]] \ shared'
              /\ \A e \in Conns \ {d} :
                   receiving'[e].file_name # receiving'[d].file_name
  <2>1. CASE d = c
    <3>1. name \notin shared
      BY <1>5 DEF SharedInv
    <3>2. \A e \in Conns \ {c} : receiving'[e].file_name # name
      BY <1>9, <1>12
    <3> QED
      BY <1>1, <1>9, <1>10, <2>1, <3>1, <3>2
  <2>2. CASE d # c
    <3>1. InUse(receiving[d])
      BY <1>9, <1>15, <2>2
    <3>2. /\ fd_file_map[d] \in Owners
          /\ receiving[d].file_name \in client_files[fd_file_map[d]] \ shared
          /\ \A e \in Conns \ {d} : receiving[e].file_name # receiving[d].file_name
      BY <3>1, OwnNameFacts
    <3>3. \A e \in Conns \ {d} : receiving'[e].file_name # receiving'[d].file_name
      BY <1>9, <1>12, <2>2, <3>2
    <3> QED
      BY <1>1, <1>9, <1>10, <2>2, <3>2, <3>3
  <2> QED
    BY <2>1, <2>2
<1>16. SharedInv'
  BY <1>13, <1>14, <1>15, SharedNext
<1>17. Stays
  <2> SUFFICES ASSUME NEW m \in shared PROVE m \in shared' /\ folder'[m] = folder[m]
    BY DEF Stays
  <2>1. m # name /\ m \in Names
    BY <1>5 DEF SharedInv, Inv, TypeOK, ServerTypeOK
  <2> QED
    BY <1>1, <1>7, <2>1 DEF Inv, TypeOK, ServerTypeOK
<1> QED
  BY <1>16, <1>17

(* Data is written to files that were not announced. *)
LEMMA ReadsDataStays ==
  ASSUME Inv, SharedInv, NEW c \in Conns, NEW n \in 0..Chunk, ReadsData(c, n),
         shared \subseteq shared'
  PROVE  Stays
<1> DEFINE name == receiving[c].file_name
           file == WriteAt(folder[name], receiving[c].current, First(toServer[c], n))
<1>1. InUse(receiving[c]) /\ folder' = [folder EXCEPT ![name] = file]
  BY DEF ReadsData
<1> HIDE DEF file
<1>2. name \notin shared
  BY <1>1, OwnNameFacts
<1>3. folder \in [Names -> Seq(Units)] /\ shared \subseteq Names
  BY DEF Inv, TypeOK, ServerTypeOK
<1> QED
  BY <1>1, <1>2, <1>3 DEF Stays

LEMMA ReceiveMoreShares ==
  ASSUME Inv, SharedInv, NEW c \in Conns, NEW n \in 0..Chunk, ReceiveMore(c, n)
  PROVE  SharedInv' /\ Stays
<1> DEFINE m == IF n = 0 THEN Len(toServer[c]) ELSE n
           info == [receiving[c] EXCEPT !.current = @ + n]
<1>1. /\ ReadsData(c, n) /\ Consume(c, m)
      /\ receiving' = [receiving EXCEPT ![c].current = @ + n]
      /\ client_files' = client_files /\ fd_file_map' = fd_file_map /\ shared' = shared
  BY DEF ReceiveMore
<1>2. InUse(receiving[c]) /\ receiving[c] \in FileInfos /\ n \in 0..Len(toServer[c])
  BY <1>1, ReadsDataFacts
<1>3. n \in Nat /\ m \in 0..Len(toServer[c])
  <2>1. Len(toServer[c]) \in Nat
    BY DEF Inv, TypeOK, StreamsTypeOK
  <2> QED
    BY <1>2, <2>1
<1>4. info.file_name = receiving[c].file_name
  BY <1>2, <1>3, MovedFacts
<1> HIDE DEF m, info
<1>5. \A d \in Conns : receiving'[d].file_name = receiving[d].file_name
  <2>1. receiving' = [receiving EXCEPT ![c] = info]
    BY <1>1 DEF info
  <2> QED
    BY <1>4, <2>1 DEF Inv, TypeOK, ServerTypeOK
<1>6. AsksOwn
  BY <1>1, <1>3, ConsumeAsksNone DEF Inv, TypeOK
<1>7. \A d \in Conns : \A i \in 1..Len(toServer'[d]) : OwnRequest(toServer'[d][i])
  BY <1>6, AsksAreOwn
<1>8. SharedInv'
  <2>1. Stored' = Stored
    BY <1>1 DEF Stored
  <2> QED
    BY <1>1, <1>5, <1>7, <2>1, SharedNext DEF SharedInv, OwnName, InUse
<1>9. Stays
  BY <1>1, ReadsDataStays
<1> QED
  BY <1>8, <1>9

LEMMA FinishReceiveShares ==
  ASSUME Inv, SharedInv, NEW c \in Conns, NEW n \in 0..Chunk, FinishReceive(c, n)
  PROVE  SharedInv' /\ Stays
<1>1. /\ ReadsData(c, n) /\ CloseNear(c)
      /\ receiving' = [receiving EXCEPT ![c] = NoFile]
      /\ client_files' = client_files /\ fd_file_map' = fd_file_map
  BY DEF FinishReceive
<1>2. shared' = shared \/ shared' = shared \cup {receiving[c].file_name}
  BY DEF FinishReceive
<1>3. InUse(receiving[c])
  BY <1>1, ReadsDataFacts
<1>4. /\ ~InUse(receiving'[c]) /\ \A d \in Conns : d # c => receiving'[d] = receiving[d]
  BY <1>1, NoFileFacts DEF Inv, TypeOK, ServerTypeOK
<1>5. AsksOwn
  BY <1>1, CloseAsksNone DEF Inv, TypeOK
<1>6. \A d \in Conns : \A i \in 1..Len(toServer'[d]) : OwnRequest(toServer'[d][i])
  BY <1>5, AsksAreOwn
<1>7. /\ receiving[c].file_name \in Stored \ shared
      /\ \A d \in Conns \ {c} : receiving[d].file_name # receiving[c].file_name
  BY <1>3, OwnNameFacts
<1>8. /\ \A u \in Owners : \A m \in client_files'[u] : Owns(u, m[1])
      /\ shared' \subseteq Stored'
  <2>1. Stored' = Stored
    BY <1>1 DEF Stored
  <2> QED
    BY <1>1, <1>2, <1>7, <2>1 DEF SharedInv
<1>9. ASSUME NEW d \in Conns, InUse(receiving'[d])
      PROVE  /\ receiving'[d].file_name \in client_files'[fd_file_map'[d]] \ shared'
             /\ \A e \in Conns \ {d} :
                  receiving'[e].file_name # receiving'[d].file_name
  <2>1. d # c /\ receiving'[d] = receiving[d] /\ InUse(receiving[d])
    BY <1>4, <1>9
  <2>2. /\ receiving[d].file_name \in client_files[fd_file_map[d]] \ shared
        /\ \A e \in Conns \ {d} : receiving[e].file_name # receiving[d].file_name
    BY <2>1, OwnNameFacts
  <2>3. receiving'[c].file_name # receiving[d].file_name
    BY <1>4, <2>1 DEF InUse
  <2>4. \A e \in Conns \ {d} : receiving'[e].file_name # receiving'[d].file_name
    BY <1>4, <2>1, <2>2, <2>3
  <2> QED
    BY <1>1, <1>2, <1>7, <2>1, <2>2, <2>4
<1>10. SharedInv'
  BY <1>6, <1>8, <1>9, SharedNext
<1>11. Stays
  BY <1>1, <1>2, ReadsDataStays
<1> QED
  BY <1>10, <1>11

(* The server's other steps know nothing of uploads. *)
LEMMA ServerShares ==
  ASSUME Apart, Inv, PacedInv, SharedInv, NEW c \in Conns, Server(c)
  PROVE  SharedInv' /\ Stays
<1>1. StreamsTypeOK
  BY DEF Inv, TypeOK
<1>2. \A n \in 1..Len(toServer[c]) : n \in 0..Len(toServer[c])
  BY <1>1 DEF StreamsTypeOK
<1>3. ASSUME toServer' = toServer PROVE AsksOwn
  BY <1>3, AsksOld
<1>4. CASE Accept(c)
  BY <1>3, <1>4, SharedSame DEF Accept, serverVars, tableVars
<1>5. CASE Disconnect(c)
  BY <1>1, <1>5, CloseAsksNone, SharedSame DEF Disconnect
<1>6. ASSUME NEW n \in 1..Len(toServer[c]), Ignore(c, n)
      PROVE  SharedInv' /\ Stays
  BY <1>1, <1>2, <1>6, ConsumeAsksNone, SharedSame DEF Ignore, serverVars, tableVars
<1>7. ASSUME NEW n \in 1..Len(toServer[c]), Name(c, n)
      PROVE  SharedInv' /\ Stays
  BY <1>1, <1>2, <1>7, ConsumeAsksNone, SharedSame DEF Name
<1>8. ASSUME NEW n \in 1..Len(toServer[c]), Get(c, n)
      PROVE  SharedInv' /\ Stays
  BY <1>1, <1>2, <1>8, ConsumeAsksNone, SharedSame DEF Get, tableVars
<1>9. CASE HandleClient(c)
  BY <1>5, <1>6, <1>7, <1>8, <1>9, PutShares, NothingCoalesces
     DEF HandleClient, Hangup, Leave
<1>10. CASE ReceiveFile(c)
  BY <1>10, ReceiveMoreShares, FinishReceiveShares DEF ReceiveFile
<1>11. CASE SendChunk(c)
  BY <1>3, <1>11, SharedSame DEF SendChunk, tableVars
<1>12. CASE FinishSend(c)
  BY <1>1, <1>12, CloseAsksNone, SharedSame DEF FinishSend, tableVars
<1> QED
  BY <1>4, <1>9, <1>10, <1>11, <1>12 DEF Server, ServerStep, SendFile

-----------------------------------------------------------------------------
(* The clients *)

(* A line that opens a connection is the only item there. *)
LEMMA OpenAsksOwn ==
  ASSUME Inv, NEW p \in Procs, NEW line \in Requests, Open(p, line),
         OwnRequest(line)
  PROVE  AsksOwn
<1>1. PICK k :
      /\ Len(toServer'[k]) = 1 /\ toServer'[k][1] = line
      /\ \A d \in Conns : d # k => toServer'[d] = toServer[d]
  BY OpenFacts
<1>2. ASSUME NEW c \in Conns, NEW i \in 1..Len(toServer'[c])
      PROVE  \/ OwnRequest(toServer'[c][i])
             \/ \E j \in 1..Len(toServer[c]) : toServer'[c][i] = toServer[c][j]
  <2>1. CASE c = k
    BY <1>1, <1>2, <2>1
  <2>2. CASE c # k
    BY <1>1, <1>2, <2>2
  <2> QED
    BY <2>1, <2>2
<1> QED
  BY <1>2 DEF AsksOwn

(* Commands and data are no requests to upload. *)
LEMMA AddsAskNone ==
  ASSUME \A c \in Conns : Adds(c)
  PROVE  AsksOwn
  BY DEF Adds, AsksOwn, OwnRequest

(* What a client uploads is data. *)
LEMMA UploadAsksNone ==
  ASSUME Inv, NEW c \in Conns, UploadChunk(c)
  PROVE  AsksOwn
<1> DEFINE info == uploading[c]
           units == NextUnits(disk[owner[c]][info.file_name], info)
<1>1. InUse(info) /\ toServer' = [toServer EXCEPT ![c] = Fit(@, units)]
  BY DEF UploadChunk
<1>2. info \in FileInfos /\ info.file_name \in Names
  BY <1>1, InUseFacts DEF Inv, TypeOK, ClientTypeOK
<1>3. owner[c] \in Procs
  BY <1>1, OwnerFacts
<1>4. disk[owner[c]][info.file_name] \in Seq(Units)
  BY <1>2, <1>3 DEF Inv, TypeOK, ClientTypeOK
<1>5. units \in Seq(Units)
  BY <1>2, <1>4, NextUnitsFacts
<1> HIDE DEF info, units
<1>6. /\ toServer \in [Conns -> Seq(Requests \cup Units)]
      /\ \A d \in Conns : Len(toServer[d]) <= Capacity
  BY DEF Inv, TypeOK, StreamsTypeOK
<1>7. units \in Seq(Requests \cup Units) /\ \A i \in 1..Len(units) : units[i].type = "data"
  BY <1>5, UnitFacts
<1>8. \A i \in 1..Len(Fit(toServer[c], units)) :
        \/ i \in 1..Len(toServer[c]) /\ Fit(toServer[c], units)[i] = toServer[c][i]
        \/ /\ i - Len(toServer[c]) \in 1..Len(units)
           /\ Fit(toServer[c], units)[i] = units[i - Len(toServer[c])]
  BY <1>6, <1>7, FitFacts
<1>9. toServer'[c] = Fit(toServer[c], units)
  BY <1>1, <1>6
<1> HIDE DEF Fit
<1>10. \A d \in Conns : d # c => toServer'[d] = toServer[d]
  BY <1>1, <1>6
<1>11. \A i \in 1..Len(toServer'[c]) :
         \/ i \in 1..Len(toServer[c]) /\ toServer'[c][i] = toServer[c][i]
         \/ toServer'[c][i].type = "data"
  BY <1>7, <1>8, <1>9
<1> QED
  BY <1>10, <1>11 DEF AsksOwn, OwnRequest

LEMMA TellAsksNone ==
  ASSUME Inv, NEW p \in Procs, state[p] = "connected",
         NEW type \in {"sleep", "exit"}, Tell(p, type)
  PROVE  AsksOwn
  BY TellFacts, AddsAskNone

LEMMA ClientsAskOwn ==
  ASSUME Inv, Clients
  PROVE  AsksOwn
<1>1. ASSUME toServer' = toServer PROVE AsksOwn
  BY <1>1, AsksOld
<1>2. ASSUME NEW c \in Conns, Transfer(c) PROVE AsksOwn
  BY <1>1, <1>2, UploadAsksNone
     DEF Transfer, FinishUpload, DownloadMore, FinishDownload, ReadsUnits, DivideByZero
<1>3. ASSUME NEW p \in Procs, NEW n \in 1..Capacity, ReadNew(p, n) PROVE AsksOwn
  <2> DEFINE head == Head(toClient[fd_cmd[p]])
             line == [type |-> "get", file |-> head.file]
  <2>1. Response(p, n) /\ head.type = "put" /\ Open(p, line)
    BY <1>3 DEF ReadNew
  <2>2. head \in Notices \cup Units
    BY <2>1, ResponseFacts
  <2> HIDE DEF head
  <2>3. line \in Requests /\ line.type = "get"
    BY <2>1, <2>2, NoticeFacts, LineFacts
  <2> HIDE DEF line
  <2> QED
    BY <2>1, <2>3, OpenAsksOwn DEF OwnRequest
<1>4. ASSUME NEW p \in Procs, ServerResponse(p) PROVE AsksOwn
  BY <1>1, <1>3, <1>4 DEF ServerResponse, ReadKnown
<1>5. ASSUME NEW p \in Procs, Start(p) PROVE AsksOwn
  <2> DEFINE line == [type |-> "name", user |-> UserOf[p]]
  <2>1. Open(p, line)
    BY <1>5 DEF Start
  <2>2. line \in Requests /\ line.type = "name"
    BY LineFacts, DropboxAssumption DEF DropboxAssumption
  <2> HIDE DEF line
  <2> QED
    BY <2>1, <2>2, OpenAsksOwn DEF OwnRequest
<1>6. ASSUME NEW p \in Procs, NEW f \in Files, TypePut(p, f) PROVE AsksOwn
  <2> DEFINE name == <<f, 0>>
             size == Len(disk[p][name])
             line == PutLine(name, size, UserOf[p])
  <2>1. Open(p, line)
    BY <1>6 DEF TypePut
  <2>2. name \in Names
    BY BoundsFacts DEF Names
  <2> HIDE DEF name
  <2>3. size \in Nat
    <3>1. disk[p][name] \in Seq(Units)
      BY <2>2 DEF Inv, TypeOK, ClientTypeOK
    <3> QED
      BY <3>1
  <2> HIDE DEF size
  <2>4. line \in Requests /\ line.user = UserOf[p] /\ line.file = name
    BY <2>2, <2>3, LineFacts, DropboxAssumption DEF DropboxAssumption, PutLine
  <2>5. OwnRequest(line)
    BY <1>6, <2>4 DEF TypePut, OwnRequest, Owns, name
  <2> HIDE DEF line
  <2> QED
    BY <2>1, <2>4, <2>5, OpenAsksOwn
<1>7. ASSUME NEW p \in Procs, Input(p) PROVE AsksOwn
  BY <1>1, <1>5, <1>6, <1>7, TellAsksNone DEF Input, TypeSleep, TypeExit, Killed
<1> QED
  BY <1>2, <1>4, <1>7 DEF Clients, ClientStep

-----------------------------------------------------------------------------
(* The shared folder *)

LEMMA InitShares ==
  ASSUME Init
  PROVE  SharedInv
<1>1. ASSUME NEW c \in Conns, NEW i \in 1..Len(toServer[c]) PROVE FALSE
  <2>1. toServer[c] = <<>>
    BY DEF Init, StreamsInit
  <2>2. Len(toServer[c]) = 0
    BY <2>1
  <2> QED
    BY <2>2
<1>2. shared = {} /\ \A c \in Conns : ~InUse(receiving[c])
  BY NoFileFacts DEF Init, ServerInit
<1>3. \A u \in Owners : client_files[u] = {}
  BY DEF Init, ServerInit
<1> QED
  BY <1>1, <1>2, <1>3 DEF SharedInv, OwnName

LEMMA NextShares ==
  ASSUME Apart, Inv, PacedInv, SharedInv, [Next]_vars
  PROVE  SharedInv' /\ Stays
<1>1. CASE UNCHANGED vars
  <2>1. toServer' = toServer /\ UNCHANGED serverVars
    BY <1>1 DEF vars, streamVars
  <2> QED
    BY <2>1, AsksOld, SharedSame DEF serverVars, tableVars
<1>2. CASE Clients
  <2>1. UNCHANGED serverVars
    BY <1>2 DEF Clients
  <2> QED
    BY <1>2, <2>1, ClientsAskOwn, SharedSame DEF serverVars, tableVars
<1> QED
  BY <1>1, <1>2, ServerShares DEF Next, Over

(* When no two users have a file name in common, a file that sync_peers        *)
(* announced is never written again and stays announced: the server finds a    *)
(* name for each file that is put.                                             *)
THEOREM SharedFilesStay ==
  ASSUME ~Slow, Apart
  PROVE  Spec => SharedStays
<1>1. Init => SharedInv
  BY InitShares
<1>2. Inv /\ PacedInv /\ SharedInv /\ [Next]_vars => SharedInv' /\ Stays
  BY NextShares
<1>3. Spec => [](Inv /\ PacedInv)
  BY PacedInvariance
<1>4. Stays => \A n \in shared : n \in shared' /\ folder'[n] = folder[n]
  BY DEF Stays
<1> QED
  BY <1>1, <1>2, <1>3, <1>4, PTL DEF Spec, SharedStays

(* The pace of an upload: the request is alone on its connection, reads that   *)
(* bring nothing are counted at its end only, and nothing of it is lost.       *)
THEOREM UploadsArePaced == ~Slow => (Spec => []PacedInv)
<1> SUFFICES ASSUME ~Slow PROVE Spec => []PacedInv
  OBVIOUS
<1> QED
  BY PacedInvariance, PTL

(* When no two users have a file name in common, who uploads has a name of its *)
(* user's for itself, which was not announced: no two of handle_client's open  *)
(* streams are of one file.                                                    *)
THEOREM UploadsHaveNames ==
  ASSUME ~Slow, Apart
  PROVE  Spec => []SharedInv
<1>1. Init => SharedInv
  BY InitShares
<1>2. Inv /\ PacedInv /\ SharedInv /\ [Next]_vars => SharedInv'
  BY NextShares
<1> QED
  BY <1>1, <1>2, PacedInvariance, PTL DEF Spec
=============================================================================
