-------------------------- MODULE ChatServerProofs --------------------------
(***************************************************************************)
(* Proofs about the chat server, for every set of descriptors, names and   *)
(* lines.  Inv is inductive: a lemma for each thing a handler does (write, *)
(* disconnect, take a line, rename), then one lemma per action.            *)
(***************************************************************************)
EXTENDS ChatServerInv, SequenceTheorems, WellFoundedInduction, TLAPS

PeerStates == {"none", "up", "closed", "poked", "reset"}

(* 0 and -1 are not descriptors of clients. *)
LEMMA NoSpecialFd == Listener \notin Fds /\ Bad \notin Fds /\ Listener # Bad
  BY ChatKernelAssumption DEF ChatKernelAssumption, Listener, Bad

(* accept() returns a free descriptor when there is one. *)
LEMMA AcceptedIsFree ==
  ASSUME FreeFds # {}
  PROVE  Accepted \in FreeFds
<1>1. FreeFds \subseteq Nat
  BY ChatKernelAssumption DEF ChatKernelAssumption, FreeFds
<1> DEFINE Less == {ss \in Nat \X Nat : ss[1] < ss[2]}
<1>2. IsWellFoundedOn(Less, Nat)
  BY NatLessThanWellFounded DEF OpToRel
<1>3. \E x \in FreeFds : \A y \in FreeFds : <<y, x>> \notin Less
  <2> HIDE DEF Less
  <2> QED
    BY <1>1, <1>2, WFMin, Zenon
<1>4. PICK x \in FreeFds : \A y \in FreeFds : <<y, x>> \notin Less
  BY <1>3
<1>5. ASSUME NEW y \in FreeFds PROVE x <= y
  <2>1. <<y, x>> \notin Less
    BY <1>4
  <2>2. y \in Nat /\ x \in Nat
    BY <1>1
  <2>3. ~ (y < x)
    BY <2>1, <2>2
  <2> QED
    BY <2>2, <2>3
<1> QED
  BY <1>5 DEF Accepted

(* Writing opens and closes nothing. *)
LEMMA AfterWriteKeeps ==
  ASSUME TypeOK, NEW S
  PROVE  /\ AfterWrite(S) \in [Fds -> PeerStates]
         /\ \A c \in Fds : /\ AfterWrite(S)[c] = "none" <=> peer[c] = "none"
                           /\ AfterWrite(S)[c] = "up" <=> peer[c] = "up"
  BY DEF AfterWrite, TypeOK, PeerStates

(* What every handler but Disconnect and NewConnection does to the sockets. *)
OnlyWrites ==
  /\ alive' \in BOOLEAN
  /\ peer' \in [Fds -> PeerStates]
  /\ \A c \in Fds : /\ peer'[c] = "none" <=> peer[c] = "none"
                    /\ peer'[c] = "up" <=> peer[c] = "up"
  /\ UNCHANGED <<clients, inbox, ready>>

LEMMA WriteOnlyWrites ==
  ASSUME TypeOK, NEW S, NEW again, Write(S, again), UNCHANGED <<clients, inbox, ready>>
  PROVE  OnlyWrites
<1>1. alive' \in BOOLEAN
  BY DEF Write
<1> QED
  BY <1>1, AfterWriteKeeps DEF Write, OnlyWrites

(* The line taken by a turn of the loop leaves the events as they were. *)
LEMMA TurnKeeps ==
  ASSUME Inv, NEW command, Turn(command)
  PROVE  /\ serving \in Fds \ batch
         /\ serving' \in Fds \cup {Bad}
         /\ batch' = batch /\ pending' = pending
         /\ ServingInv'
<1>1. serving \in Fds \ batch
  BY DEF Turn, Inv, ServingInv
<1> QED
  BY <1>1 DEF Turn, ServingInv

(* A turn that changes no name keeps the invariant, if what it delivers does. *)
LEMMA QuietTurn ==
  ASSUME Inv, NEW command, Turn(command), OnlyWrites,
         UNCHANGED <<fd_name_map, name_fd_map>>, TellReachesHolder'
  PROVE  Inv'
<1>1. TypeOK'
  BY TurnKeeps DEF Inv, TypeOK, OnlyWrites, PeerStates
<1>2. NamesInv' /\ ClientsNamed'
  BY DEF Inv, NamesInv, ClientsNamed, OnlyWrites
<1>3. ClientsAreOpen'
  BY DEF Inv, ClientsAreOpen, OnlyWrites
<1>4. EventsInv'
  BY TurnKeeps DEF Inv, TypeOK, EventsInv, OnlyWrites
<1> QED
  BY <1>1, <1>2, <1>3, <1>4, TurnKeeps DEF Inv

(* What becomes of the maps and the sockets when a client is disconnected: its *)
(* name, if it has one, is registered to it, so nobody else loses a name.      *)
LEMMA DisconnectKeeps ==
  ASSUME Inv, NEW c \in Fds, Disconnect(c), c \notin batch'
  PROVE  /\ alive' \in BOOLEAN
         /\ clients' \subseteq Fds \cup {Bad}
         /\ peer' \in [Fds -> PeerStates]
         /\ inbox' \in [Fds -> Seq(Segments)]
         /\ \A d \in Fds : Len(inbox'[d]) <= MaxQueue
         /\ ready' \subseteq Fds
         /\ fd_name_map' \in [Fds \cup {Bad} -> Words]
         /\ name_fd_map' \in [ValidNames -> Fds \cup {0}]
         /\ NamesInv' /\ ClientsNamed' /\ ClientsAreOpen'
         /\ \A d \in Fds \ {c} : /\ peer'[d] = "none" <=> peer[d] = "none"
                                 /\ peer'[d] = "up" <=> peer[d] = "up"
                                 /\ inbox'[d] = inbox[d]
<1> USE DEF Inv
<1>1. alive' \in BOOLEAN /\ clients' \subseteq Fds \cup {Bad} /\ ready' \subseteq Fds
  BY DEF Disconnect, HandleDisconnection, EraseName, TypeOK
<1>2. /\ peer' \in [Fds -> PeerStates]
      /\ peer'[c] = "none"
      /\ \A d \in Fds \ {c} : /\ peer'[d] = "none" <=> peer[d] = "none"
                              /\ peer'[d] = "up" <=> peer[d] = "up"
  <2>1. peer' = [AfterWrite(clients \ {c}) EXCEPT ![c] = "none"]
    BY DEF Disconnect, HandleDisconnection, EraseName
  <2> QED
    BY <2>1, AfterWriteKeeps DEF PeerStates
<1>3. /\ inbox' \in [Fds -> Seq(Segments)]
      /\ inbox'[c] = <<>>
      /\ \A d \in Fds \ {c} : inbox'[d] = inbox[d]
  <2>1. inbox' = [inbox EXCEPT ![c] = <<>>]
    BY DEF Disconnect, HandleDisconnection, EraseName
  <2>2. <<>> \in Seq(Segments)
    OBVIOUS
  <2> QED
    BY <2>1, <2>2 DEF TypeOK
<1>4. \A d \in Fds : Len(inbox'[d]) <= MaxQueue
  <2>1. Len(<<>>) = 0 /\ MaxQueue \in Nat
    BY ChatKernelAssumption DEF ChatKernelAssumption
  <2> QED
    BY <1>3, <2>1 DEF TypeOK
<1>5. /\ fd_name_map' = [fd_name_map EXCEPT ![c] = ""]
      /\ name_fd_map' = [n \in ValidNames |->
                           IF n = fd_name_map[c] THEN 0 ELSE name_fd_map[n]]
      /\ clients' = clients \ {c}
  BY DEF Disconnect, HandleDisconnection, EraseName
<1>6. /\ fd_name_map' \in [Fds \cup {Bad} -> Words]
      /\ name_fd_map' \in [ValidNames -> Fds \cup {0}]
  BY <1>5 DEF TypeOK, Words
<1>7. NamesInv'
  <2> SUFFICES ASSUME NEW d \in Fds \cup {Bad}, fd_name_map'[d] \in ValidNames
               PROVE  name_fd_map'[fd_name_map'[d]] = d
    BY DEF NamesInv
  <2>1. d # c /\ fd_name_map'[d] = fd_name_map[d]
    BY <1>5, ChatServerAssumption DEF ChatServerAssumption, TypeOK
  <2>2. name_fd_map[fd_name_map[d]] = d
    BY <2>1 DEF NamesInv
  <2>3. fd_name_map[d] # fd_name_map[c]
    BY <2>1, <2>2 DEF NamesInv
  <2> QED
    BY <1>5, <2>1, <2>2, <2>3
<1>8. ClientsNamed'
  BY <1>5 DEF ClientsNamed, TypeOK
<1>9. ClientsAreOpen'
  BY <1>2, <1>5 DEF ClientsAreOpen
<1> QED
  BY <1>1, <1>2, <1>3, <1>4, <1>6, <1>7, <1>8, <1>9

(* The rest of the invariant when c is disconnected during a handler of c. *)
LEMMA DisconnectEvents ==
  ASSUME Inv, NEW c \in Fds, Disconnect(c), c \notin batch', batch' \subseteq batch,
         pending' = pending
  PROVE  EventsInv'
  BY DisconnectKeeps, NoSpecialFd DEF Inv, EventsInv, TypeOK

-----------------------------------------------------------------------------
(* One lemma per action that does more than answer. *)

LEMMA ExitKeepsInv ==
  ASSUME Inv, Exit
  PROVE  Inv'
<1>1. /\ Turn("EXIT") /\ Disconnect(serving) /\ told' = NoTell
  BY DEF Exit
<1>2. /\ serving \in Fds \ batch /\ serving' \in Fds \cup {Bad}
      /\ batch' = batch /\ pending' = pending
      /\ ServingInv'
  BY <1>1, TurnKeeps
<1>3. EventsInv'
  BY <1>1, <1>2, DisconnectEvents
<1>4. TypeOK'
  BY <1>1, <1>2, DisconnectKeeps DEF Inv, TypeOK, PeerStates, Words
<1>5. NamesInv' /\ ClientsNamed' /\ ClientsAreOpen'
  BY <1>1, <1>2, DisconnectKeeps
<1>6. TellReachesHolder'
  BY <1>1 DEF TellReachesHolder, NoTell
<1> QED
  BY <1>2, <1>3, <1>4, <1>5, <1>6 DEF Inv

LEMMA EpollWaitKeepsInv ==
  ASSUME Inv, EpollWait
  PROVE  Inv'
<1>1. TypeOK' /\ NamesInv' /\ ClientsNamed' /\ ClientsAreOpen'
  BY DEF EpollWait, Inv, TypeOK, Reported, NamesInv, ClientsNamed, ClientsAreOpen, Words
<1>2. EventsInv'
  <2>1. Listener \in batch' => pending' > 0
    <3>1. Reported \subseteq Fds
      BY DEF Reported, Inv, TypeOK
    <3> QED
      BY <3>1, NoSpecialFd DEF EpollWait
  <2>2. \A c \in batch' \ {Listener} :
          peer'[c] # "none" /\ (peer'[c] = "up" => inbox'[c] # <<>>)
    BY DEF EpollWait, Reported, Readable
  <2> QED
    BY <2>1, <2>2 DEF EventsInv
<1>3. ServingInv' /\ TellReachesHolder'
  BY DEF EpollWait, Idle, ServingInv, TellReachesHolder, NoTell
<1> QED
  BY <1>1, <1>2, <1>3 DEF Inv

LEMMA NewConnectionKeepsInv ==
  ASSUME Inv, NewConnection
  PROVE  Inv'
<1> DEFINE new == IF FreeFds = {} THEN Bad ELSE Accepted
<1>1. /\ lines = <<>> /\ Listener \in batch
      /\ batch' = batch \ {Listener}
      /\ clients' = clients \cup {new}
      /\ fd_name_map' = [fd_name_map EXCEPT ![new] = "anonymous"]
      /\ alive' \in BOOLEAN
      /\ peer' = [c \in Fds |-> IF c = new THEN "up" ELSE AfterWrite(clients)[c]]
      /\ pending' = IF new = Bad THEN pending ELSE pending - 1
      /\ told' = NoTell
      /\ UNCHANGED <<name_fd_map, serving, lines, inbox, ready>>
  BY DEF NewConnection, Idle
<1>2. new \in Fds \cup {Bad} /\ (new \in Fds => peer[new] = "none")
  BY AcceptedIsFree, NoSpecialFd DEF FreeFds
<1> HIDE DEF new
<1>3. peer' \in [Fds -> PeerStates]
  BY <1>1, <1>2, AfterWriteKeeps DEF Inv, PeerStates
<1>4. pending' \in 0..MaxPending
  <2>1. pending \in 0..MaxPending /\ pending > 0 /\ MaxPending \in Nat
    BY <1>1, ChatServerAssumption DEF Inv, TypeOK, EventsInv, ChatServerAssumption
  <2>2. pending' = pending \/ pending' = pending - 1
    BY <1>1
  <2> QED
    BY <2>1, <2>2
<1>5. TypeOK'
  BY <1>1, <1>2, <1>3, <1>4 DEF Inv, TypeOK, PeerStates, Words
<1>6. NamesInv'
  BY <1>1, <1>2, ChatServerAssumption DEF Inv, TypeOK, NamesInv, ChatServerAssumption
<1>7. ClientsNamed'
  BY <1>1, <1>2 DEF Inv, TypeOK, ClientsNamed
<1>8. ClientsAreOpen'
  <2>1. \A c \in Fds : peer'[c] # "none" <=> c = new \/ peer[c] # "none"
    BY <1>1, AfterWriteKeeps DEF Inv
  <2>2. clients' \ {Bad} = (clients \ {Bad}) \cup ({new} \cap Fds)
    BY <1>1, <1>2, NoSpecialFd
  <2>3. clients \ {Bad} = {c \in Fds : peer[c] # "none"}
    BY DEF Inv, ClientsAreOpen
  <2>4. {c \in Fds : peer'[c] # "none"}
          = {c \in Fds : peer[c] # "none"} \cup ({new} \cap Fds)
    BY <2>1
  <2> QED
    BY <2>2, <2>3, <2>4, Zenon DEF ClientsAreOpen
<1>9. EventsInv'
  <2>1. ASSUME NEW c \in batch' \ {Listener}
        PROVE  peer'[c] # "none" /\ (peer'[c] = "up" => inbox'[c] # <<>>)
    <3>1. c \in batch \ {Listener} /\ c \in Fds
      BY <1>1 DEF Inv, TypeOK
    <3>2. CASE c = new
      BY <1>1, <1>2, <3>1, <3>2 DEF Inv, EventsInv
    <3>3. CASE c # new
      BY <1>1, <3>1, <3>3, AfterWriteKeeps DEF Inv, EventsInv
    <3> QED
      BY <3>2, <3>3
  <2> QED
    BY <1>1, <2>1 DEF EventsInv
<1>10. ServingInv' /\ TellReachesHolder'
  BY <1>1 DEF ServingInv, TellReachesHolder, NoTell
<1> QED
  BY <1>5, <1>6, <1>7, <1>8, <1>9, <1>10 DEF Inv

LEMMA ReadClientKeepsInv ==
  ASSUME Inv, NEW c \in Fds, ReadClient(c)
  PROVE  Inv'
<1>1. /\ lines = <<>> /\ c \in batch \ {Listener}
      /\ batch' = batch \ {c} /\ told' = NoTell /\ pending' = pending
  BY DEF ReadClient, Idle
<1>2. TellReachesHolder'
  BY <1>1 DEF TellReachesHolder, NoTell
<1>3. CASE Disconnect(c) /\ UNCHANGED <<serving, lines>>
  <2>1. EventsInv'
    BY <1>1, <1>3, DisconnectEvents
  <2>2. TypeOK'
    BY <1>1, <1>3, DisconnectKeeps DEF Inv, TypeOK, PeerStates, Words
  <2>3. NamesInv' /\ ClientsNamed' /\ ClientsAreOpen'
    BY <1>1, <1>3, DisconnectKeeps
  <2>4. ServingInv'
    BY <1>1, <1>3 DEF ServingInv
  <2> QED
    BY <1>2, <2>1, <2>2, <2>3, <2>4 DEF Inv
<1>4. CASE /\ inbox[c] # <<>>
           /\ serving' = c
           /\ \E n \in 0..Len(inbox[c]) :
                inbox' = [inbox EXCEPT ![c] = SubSeq(inbox[c], n + 1, Len(inbox[c]))]
           /\ UNCHANGED <<alive, clients, fd_name_map, name_fd_map, peer, ready>>
  <2>1. PICK n \in 0..Len(inbox[c]) :
          inbox' = [inbox EXCEPT ![c] = SubSeq(inbox[c], n + 1, Len(inbox[c]))]
    BY <1>4
  <2>2. inbox[c] \in Seq(Segments) /\ Len(inbox[c]) <= MaxQueue /\ MaxQueue \in Nat
    BY ChatKernelAssumption DEF Inv, TypeOK, ChatKernelAssumption
  <2>3. /\ SubSeq(inbox[c], n + 1, Len(inbox[c])) \in Seq(Segments)
        /\ Len(SubSeq(inbox[c], n + 1, Len(inbox[c]))) <= MaxQueue
    <3>1. \A i \in n + 1 .. Len(inbox[c]) : inbox[c][i] \in Segments
      BY <2>2
    <3>2. Len(inbox[c]) \in Nat /\ n \in Nat
      BY <2>2
    <3>3. /\ SubSeq(inbox[c], n + 1, Len(inbox[c])) \in Seq(Segments)
          /\ Len(SubSeq(inbox[c], n + 1, Len(inbox[c])))
               = IF n + 1 <= Len(inbox[c]) THEN Len(inbox[c]) - (n + 1) + 1 ELSE 0
      BY <3>1, <3>2, SubSeqProperties
    <3> QED
      BY <2>2, <3>2, <3>3
  <2>4. TypeOK'
    BY <1>1, <1>4, <2>1, <2>3 DEF Inv, TypeOK, Words
  <2>5. NamesInv' /\ ClientsNamed' /\ ClientsAreOpen'
    BY <1>4 DEF Inv, NamesInv, ClientsNamed, ClientsAreOpen
  <2>6. EventsInv'
    BY <1>1, <1>4, <2>1, NoSpecialFd DEF Inv, TypeOK, EventsInv
  <2>7. ServingInv'
    BY <1>1, <1>4 DEF ServingInv
  <2> QED
    BY <1>2, <2>4, <2>5, <2>6, <2>7 DEF Inv
<1> DEFINE n == ReadLength(c)
<1>5. n \in 0..Len(inbox[c])
  <2>1. inbox[c] \in Seq(Segments)
    BY DEF Inv, TypeOK
  <2>2. Len(inbox[c]) \in Nat
    BY <2>1
  <2>3. ReadMax \in Nat
    BY ChatServerAssumption DEF ChatServerAssumption
  <2> QED
    BY <2>2, <2>3 DEF ReadLength
<1>6. ASSUME inbox[c] # <<>>, serving' = c,
             inbox' = [inbox EXCEPT ![c] = SubSeq(inbox[c], n + 1, Len(inbox[c]))],
             UNCHANGED <<alive, clients, fd_name_map, name_fd_map, peer, ready>>
      PROVE  Inv'
  <2> HIDE DEF n
  <2> QED
    BY <1>4, <1>5, <1>6
<1> QED
  BY <1>3, <1>6 DEF ReadClient

LEMMA RenameKeepsInv ==
  ASSUME Inv, NEW command, Turn(command), told' = NoTell, NEW w, Rename(w)
  PROVE  Inv'
<1>1. TellReachesHolder'
  BY DEF TellReachesHolder, NoTell
<1>2. CASE Reply
  <2>1. OnlyWrites /\ UNCHANGED <<fd_name_map, name_fd_map>>
    BY <1>2, WriteOnlyWrites DEF Inv, Reply, NamesUnchanged
  <2> QED
    BY <1>1, <2>1, QuietTurn
<1>3. CASE /\ w \in ValidNames
           /\ ~Taken(w)
           /\ Write({serving} \cup clients, {})
           /\ fd_name_map' = [fd_name_map EXCEPT ![serving] = w]
           /\ name_fd_map' = [name_fd_map EXCEPT ![w] = serving]
           /\ UNCHANGED <<clients, inbox, ready>>
  <2>1. OnlyWrites
    BY <1>3, WriteOnlyWrites DEF Inv
  <2>2. /\ serving \in Fds \ batch /\ serving' \in Fds \cup {Bad}
        /\ batch' = batch /\ pending' = pending
        /\ ServingInv'
    BY TurnKeeps
  <2>3. TypeOK'
    BY <1>3, <2>1, <2>2 DEF Inv, TypeOK, OnlyWrites, PeerStates, Words
  <2>4. NamesInv'
    <3> SUFFICES ASSUME NEW d \in Fds \cup {Bad}, fd_name_map'[d] \in ValidNames
                 PROVE  name_fd_map'[fd_name_map'[d]] = d
      BY DEF NamesInv
    <3>1. CASE d = serving
      BY <1>3, <2>2, <3>1 DEF Inv, TypeOK
    <3>2. CASE d # serving
      <4>1. fd_name_map'[d] = fd_name_map[d] /\ name_fd_map[fd_name_map[d]] = d
        BY <1>3, <3>2 DEF Inv, TypeOK, NamesInv
      <4>2. fd_name_map[d] # w
        BY <1>3, <4>1, NoSpecialFd DEF Taken, NameFd, Listener
      <4> QED
        BY <1>3, <4>1, <4>2 DEF Inv, TypeOK
    <3> QED
      BY <3>1, <3>2
  <2>5. ClientsNamed'
    BY <1>3, <2>2, ChatServerAssumption
       DEF Inv, TypeOK, ClientsNamed, ChatServerAssumption
  <2>6. ClientsAreOpen'
    BY <2>1 DEF Inv, ClientsAreOpen, OnlyWrites
  <2>7. EventsInv'
    BY <2>1, <2>2 DEF Inv, TypeOK, EventsInv, OnlyWrites
  <2> QED
    BY <1>1, <2>2, <2>3, <2>4, <2>5, <2>6, <2>7 DEF Inv
<1> QED
  BY <1>2, <1>3 DEF Rename

LEMMA NameKeepsInv ==
  ASSUME Inv, Name
  PROVE  Inv'
<1>1. Turn("NAME") /\ told' = NoTell
  BY DEF Name
<1>2. TellReachesHolder'
  BY <1>1 DEF TellReachesHolder, NoTell
<1>3. ASSUME NEW w, Rename(w) PROVE Inv'
  BY <1>1, <1>3, RenameKeepsInv
<1>4. CASE alive' = FALSE /\ NamesUnchanged /\ UNCHANGED kernelVars
  <2>1. OnlyWrites /\ UNCHANGED <<fd_name_map, name_fd_map>>
    BY <1>4 DEF OnlyWrites, NamesUnchanged, kernelVars, Inv, TypeOK, PeerStates
  <2> QED
    BY <1>1, <1>2, <2>1, QuietTurn
<1> QED
  BY <1>3, <1>4 DEF Name

(* A delivered message goes to the descriptor registered under the name, which *)
(* is that of the client that has the name, if there is one.                   *)
LEMMA TellDeliveredKeepsInv ==
  ASSUME Inv, TellDelivered
  PROVE  Inv'
<1> DEFINE asked == Head(lines)[2]
<1>1. /\ Turn("TELL") /\ asked # "anonymous" /\ NameFd(asked) # 0
      /\ \E S, again : Write(S, again)
      /\ told' = [from |-> serving, shown |-> fd_name_map[serving],
                  asked |-> asked, to |-> NameFd(asked)]
      /\ NamesUnchanged
      /\ UNCHANGED <<inbox, ready>>
  BY DEF TellDelivered
<1>2. told'.asked = asked /\ told'.to = NameFd(asked)
  BY <1>1
<1>3. asked \in ValidNames /\ NameFd(asked) = name_fd_map[asked]
  BY <1>1 DEF NameFd
<1> HIDE DEF asked
<1>4. TellReachesHolder'
  <2> SUFFICES ASSUME NEW c \in clients', fd_name_map'[c] = told'.asked
               PROVE  told'.to = c
    BY DEF TellReachesHolder
  <2>1. c \in Fds \cup {Bad} /\ fd_name_map[c] = asked
    BY <1>1, <1>2 DEF NamesUnchanged, Inv, TypeOK
  <2>2. name_fd_map[asked] = c
    BY <1>3, <2>1 DEF Inv, NamesInv
  <2> QED
    BY <1>2, <1>3, <2>2
<1>5. OnlyWrites /\ UNCHANGED <<fd_name_map, name_fd_map>>
  <2>1. PICK S, again : Write(S, again)
    BY <1>1
  <2> QED
    BY <1>1, <2>1, WriteOnlyWrites DEF Inv, NamesUnchanged
<1> QED
  BY <1>1, <1>4, <1>5, QuietTurn

(* The turns that only answer. *)
LEMMA AnswerKeepsInv ==
  ASSUME Inv, Who \/ Yell \/ TellRefused \/ CheckOrError
  PROVE  Inv'
<1>1. \E command : Turn(command)
  BY DEF Who, Yell, TellRefused, CheckOrError
<1>2. told' = NoTell /\ NamesUnchanged /\ UNCHANGED <<inbox, ready>>
  BY DEF Who, Yell, TellRefused, CheckOrError, Reply
<1>3. \E S, again : Write(S, again)
  BY DEF Who, Yell, TellRefused, CheckOrError, Reply
<1>4. TellReachesHolder'
  BY <1>2 DEF TellReachesHolder, NoTell
<1>5. OnlyWrites /\ UNCHANGED <<fd_name_map, name_fd_map>>
  <2>1. PICK S, again : Write(S, again)
    BY <1>3
  <2> QED
    BY <1>2, <2>1, WriteOnlyWrites DEF Inv, NamesUnchanged
<1> QED
  BY <1>1, <1>4, <1>5, QuietTurn

(* The clients and the network touch no name, and take nothing from an inbox. *)
LEMMA ClientStepKeepsInv ==
  ASSUME Inv, ClientStep
  PROVE  Inv'
<1>1. told' = NoTell /\ UNCHANGED serverVars
  BY DEF ClientStep, ClientConnects, ClientTypes, ClientExits
<1>2. NamesInv' /\ ClientsNamed' /\ ServingInv'
  BY <1>1 DEF Inv, serverVars, NamesInv, ClientsNamed, ServingInv
<1>3. TellReachesHolder'
  BY <1>1 DEF TellReachesHolder, NoTell
<1>4. CASE ClientConnects
  <2>1. UNCHANGED <<peer, inbox, ready>> /\ pending' = pending + 1 /\ pending < MaxPending
    BY <1>4 DEF ClientConnects, kernelVars
  <2>2. pending \in 0..MaxPending /\ MaxPending \in Nat
    BY ChatServerAssumption DEF Inv, TypeOK, ChatServerAssumption
  <2>3. pending' \in 0..MaxPending /\ (pending > 0 => pending' > 0)
    BY <2>1, <2>2
  <2>4. TypeOK'
    BY <1>1, <2>1, <2>3 DEF Inv, TypeOK, serverVars, Words
  <2>5. ClientsAreOpen' /\ EventsInv'
    BY <1>1, <2>1, <2>3 DEF Inv, serverVars, ClientsAreOpen, EventsInv
  <2> QED
    BY <1>2, <1>3, <2>4, <2>5 DEF Inv
<1>5. ASSUME NEW c \in Fds, ClientTypes(c)
      PROVE  Inv'
  <2>1. PICK s \in Segments : inbox' = [inbox EXCEPT ![c] = Append(inbox[c], s)]
    BY <1>5 DEF ClientTypes
  <2>2. /\ peer' = peer /\ pending' = pending
        /\ Len(inbox[c]) < MaxQueue /\ ready' \subseteq Fds
    BY <1>5 DEF ClientTypes, Inv, TypeOK
  <2>3. inbox[c] \in Seq(Segments) /\ MaxQueue \in Nat
    BY ChatKernelAssumption DEF Inv, TypeOK, ChatKernelAssumption
  <2>4. /\ Append(inbox[c], s) \in Seq(Segments)
        /\ Append(inbox[c], s) # <<>>
        /\ Len(Append(inbox[c], s)) <= MaxQueue
    BY <2>2, <2>3
  <2>5. TypeOK'
    BY <1>1, <2>1, <2>2, <2>4 DEF Inv, TypeOK, serverVars, Words
  <2>6. ClientsAreOpen' /\ EventsInv'
    BY <1>1, <2>1, <2>2, <2>4 DEF Inv, TypeOK, serverVars, ClientsAreOpen, EventsInv
  <2> QED
    BY <1>2, <1>3, <2>5, <2>6 DEF Inv
<1>6. ASSUME NEW c \in Fds, ClientExits(c) \/ (ResetArrives(c) /\ UNCHANGED <<serverVars, pending>>)
      PROVE  Inv'
  <2>1. PICK how \in {"closed", "reset"} : peer' = [peer EXCEPT ![c] = how]
    BY <1>6 DEF ClientExits, ResetArrives
  <2>2. /\ peer[c] # "none" /\ ready' \subseteq Fds
        /\ UNCHANGED <<inbox, pending>>
    BY <1>6 DEF ClientExits, ResetArrives, Inv, TypeOK
  <2>3. TypeOK'
    BY <1>1, <2>1, <2>2 DEF Inv, TypeOK, serverVars, Words
  <2>4. /\ peer' \in [Fds -> PeerStates] /\ \A d \in Fds : peer'[d] # "none" <=> peer[d] # "none"
        /\ \A d \in Fds : peer'[d] = "up" => peer[d] = "up"
    BY <2>1, <2>2 DEF Inv, TypeOK, PeerStates
  <2>5. ClientsAreOpen' /\ EventsInv'
    BY <1>1, <2>2, <2>4 DEF Inv, TypeOK, serverVars, ClientsAreOpen, EventsInv
  <2> QED
    BY <1>2, <1>3, <2>3, <2>5 DEF Inv
<1> QED
  BY <1>4, <1>5, <1>6 DEF ClientStep

-----------------------------------------------------------------------------
LEMMA InitInv == Init => Inv
<1> SUFFICES ASSUME Init PROVE Inv
  OBVIOUS
<1>1. TypeOK
  <2>1. <<>> \in Seq(Segments) /\ Len(<<>>) = 0
    OBVIOUS
  <2>2. inbox = [c \in Fds |-> <<>>] /\ pending = 0
    BY DEF Init, KernelInit
  <2>3. MaxQueue \in Nat /\ MaxPending \in Nat
    BY ChatKernelAssumption, ChatServerAssumption
       DEF ChatKernelAssumption, ChatServerAssumption
  <2>4. inbox \in [Fds -> Seq(Segments)] /\ \A c \in Fds : Len(inbox[c]) <= MaxQueue
    BY <2>1, <2>2, <2>3
  <2>5. pending \in 0..MaxPending
    BY <2>2, <2>3
  <2> QED
    BY <2>4, <2>5 DEF Init, KernelInit, TypeOK, Words
<1>2. NamesInv
  BY ChatServerAssumption DEF Init, NamesInv, ChatServerAssumption
<1>3. ClientsNamed /\ ClientsAreOpen /\ EventsInv /\ ServingInv /\ TellReachesHolder
  BY DEF Init, KernelInit, ClientsNamed, ClientsAreOpen, EventsInv, ServingInv,
         TellReachesHolder, NoTell
<1> QED
  BY <1>1, <1>2, <1>3 DEF Inv

LEMMA StutterKeepsInv ==
  ASSUME Inv, UNCHANGED vars
  PROVE  Inv'
<1>1. UNCHANGED <<alive, clients, fd_name_map, name_fd_map, batch, serving, lines,
                  pending, told, peer, inbox, ready>>
  BY DEF vars, serverVars, kernelVars
<1> QED
  BY <1>1 DEF Inv, TypeOK, NamesInv, ClientsNamed, ClientsAreOpen, EventsInv, ServingInv,
              TellReachesHolder

LEMMA NextKeepsInv ==
  ASSUME Inv, [Next]_vars
  PROVE  Inv'
<1>1. CASE EpollWait
  BY <1>1, EpollWaitKeepsInv
<1>2. CASE NewConnection
  BY <1>2, NewConnectionKeepsInv
<1>3. ASSUME NEW c \in Fds, ReadClient(c) PROVE Inv'
  BY <1>3, ReadClientKeepsInv
<1>4. CASE HandleLine
  BY <1>4, ExitKeepsInv, NameKeepsInv, TellDeliveredKeepsInv, AnswerKeepsInv DEF HandleLine
<1>5. CASE ClientStep
  BY <1>5, ClientStepKeepsInv
<1>6. CASE Dead \/ UNCHANGED vars
  BY <1>6, StutterKeepsInv DEF Dead
<1> QED
  BY <1>1, <1>2, <1>3, <1>4, <1>5, <1>6 DEF Next, ServerStep

LEMMA InvHolds == Spec => []Inv
<1> QED
  BY InitInv, NextKeepsInv, PTL DEF Spec

(* Every variable of the server keeps its type; the inboxes keep their bound. *)
THEOREM TypeCorrect == Spec => []TypeOK
<1>1. Inv => TypeOK
  BY DEF Inv
<1> QED
  BY <1>1, InvHolds, PTL

(* No two connected clients share a name (server.cpp:102), whatever names are  *)
(* left behind by renames and by lines processed after `exit'.                 *)
THEOREM NamesAreUnique == Spec => []UniqueNames
<1>1. ASSUME Inv PROVE UniqueNames
  <2> SUFFICES ASSUME NEW c \in clients, NEW d \in clients,
                      fd_name_map[c] = fd_name_map[d], fd_name_map[c] # "anonymous"
               PROVE  c = d
    BY DEF UniqueNames
  <2>1. c \in Fds \cup {Bad} /\ d \in Fds \cup {Bad}
    BY <1>1 DEF Inv, TypeOK
  <2>2. fd_name_map[c] \in ValidNames
    BY <1>1, <2>1 DEF Inv, TypeOK, ClientsNamed, Words
  <2> QED
    BY <1>1, <2>1, <2>2 DEF Inv, NamesInv
<1> QED
  BY <1>1, InvHolds, PTL

(* TELL never misses the client that has the name it was given. *)
THEOREM HolderGetsTheMessage == Spec => []TellReachesHolder
<1>1. Inv => TellReachesHolder
  BY DEF Inv
<1> QED
  BY <1>1, InvHolds, PTL

(* The set of clients and the open sockets agree, whatever follows `exit'. *)
THEOREM ClientSetIsExact == Spec => []ClientsAreOpen
<1>1. Inv => ClientsAreOpen
  BY DEF Inv
<1> QED
  BY <1>1, InvHolds, PTL

(* The edge-triggered loop drops only a client that left or said `exit'. *)
THEOREM OnlyLeaversAreDropped == Spec => NoSpuriousDisconnect
<1> DEFINE Dropped(c) == \/ peer[c] # "up"
                         \/ lines # <<>> /\ Command(Head(lines)) = "EXIT"
           Drops == \A c \in clients \ clients' : c \in Fds => Dropped(c)
<1>1. ASSUME Inv, [Next]_vars PROVE Drops
  <2> SUFFICES ASSUME NEW c \in clients \ clients', c \in Fds
               PROVE  Dropped(c)
    OBVIOUS
  <2>1. \/ \E d \in Fds : ReadClient(d) /\ Disconnect(d)
        \/ Exit
    <3>1. clients' # clients
      OBVIOUS
    <3>2. ~ EpollWait /\ ~ ClientStep /\ ~ Dead /\ ~ UNCHANGED vars
      BY <3>1 DEF EpollWait, ClientStep, ClientConnects, ClientTypes, ClientExits, Dead,
                  vars, serverVars
    <3>3. ~ NewConnection
      BY DEF NewConnection
    <3>4. HandleLine => Exit
      BY <3>1 DEF HandleLine, Who, Name, Rename, Yell, TellRefused, TellDelivered,
                  CheckOrError, Reply, NamesUnchanged
    <3>5. ASSUME NEW d \in Fds, ReadClient(d) PROVE Disconnect(d)
      BY <3>1, <3>5 DEF ReadClient
    <3> QED
      BY <1>1, <3>2, <3>3, <3>4, <3>5 DEF Next, ServerStep
  <2>2. ASSUME NEW d \in Fds, ReadClient(d), Disconnect(d) PROVE Dropped(c)
    <3>1. c = d
      BY <2>2 DEF Disconnect
    <3>2. d \in batch \ {Listener} /\ (inbox[d] = <<>> \/ peer[d] = "reset")
      <4>1. d \in batch \ {Listener}
        BY <2>2 DEF ReadClient
      <4>2. CASE UNCHANGED clients
        BY <4>2
      <4>3. CASE inbox[d] = <<>> \/ peer[d] = "reset"
        BY <4>1, <4>3
      <4> QED
        BY <2>2, <4>2, <4>3 DEF ReadClient, Gone
    <3> QED
      BY <1>1, <3>1, <3>2 DEF Inv, EventsInv
  <2>3. CASE Exit
    BY <2>3 DEF Exit, Turn
  <2> QED
    BY <2>1, <2>2, <2>3
<1>2. Spec => [][Drops]_vars
  <2>1. Inv /\ [Next]_vars => [Drops]_vars
    BY <1>1
  <2> QED
    BY <2>1, InvHolds, PTL DEF Spec
<1> QED
  BY <1>2 DEF NoSpuriousDisconnect

(* The inductive invariant of ChatServerInv holds: a name leads back to the    *)
(* one who has it, every client has one, and an event that epoll reported is   *)
(* still there when the loop comes to it.                                      *)
THEOREM ServerInvariant == Spec => []Inv
BY InvHolds, PTL

-----------------------------------------------------------------------------
(* No wake-up is lost, when a read takes all there is: what is unread was      *)
(* written after the last report of its socket, or the report is not handled.  *)

OneReadTakesAll == ReadMax >= MaxQueue

DueInv == UnreadIsDue /\ ClosedIsEmpty

(* A step that reads nothing, opens or closes nothing and keeps the events. *)
LEMMA EventsKept ==
  ASSUME DueInv, batch' = batch, inbox' = inbox, ready \subseteq ready',
         \A c \in Fds : peer'[c] = "none" <=> peer[c] = "none"
  PROVE  DueInv'
  BY DEF DueInv, UnreadIsDue, ClosedIsEmpty

(* Who is disconnected leaves no line behind; to the others nothing happens. *)
LEMMA DisconnectKeepsDue ==
  ASSUME Inv, DueInv, NEW c \in Fds, Disconnect(c), batch \ {c} \subseteq batch'
  PROVE  DueInv'
<1>1. /\ peer' = [AfterWrite(clients \ {c}) EXCEPT ![c] = "none"]
      /\ inbox' = [inbox EXCEPT ![c] = <<>>]
      /\ ready' = ready \ {c}
  BY DEF Disconnect, HandleDisconnection
<1>2. inbox'[c] = <<>> /\ \A d \in Fds \ {c} : inbox'[d] = inbox[d]
  BY <1>1 DEF Inv, TypeOK
<1>3. \A d \in Fds \ {c} : peer'[d] = "none" <=> peer[d] = "none"
  BY <1>1, AfterWriteKeeps DEF Inv
<1> QED
  BY <1>1, <1>2, <1>3 DEF DueInv, UnreadIsDue, ClosedIsEmpty

(* The read takes all there is. *)
LEMMA ReadKeepsDue ==
  ASSUME OneReadTakesAll, Inv, DueInv, NEW c \in Fds, ReadClient(c)
  PROVE  DueInv'
<1>1. batch' = batch \ {c} /\ c # Listener
  BY DEF ReadClient
<1>2. CASE Disconnect(c)
  BY <1>1, <1>2, DisconnectKeepsDue
<1>3. CASE /\ inbox' = [inbox EXCEPT ![c] =
                         SubSeq(inbox[c], ReadLength(c) + 1, Len(inbox[c]))]
           /\ UNCHANGED <<peer, ready>>
  <2>1. /\ inbox[c] \in Seq(Segments) /\ Len(inbox[c]) \in Nat
        /\ Len(inbox[c]) <= MaxQueue
    BY DEF Inv, TypeOK
  <2>2. ReadLength(c) = Len(inbox[c])
    <3>1. ReadMax \in Nat /\ MaxQueue \in Nat
      BY ChatServerAssumption, ChatKernelAssumption
         DEF ChatServerAssumption, ChatKernelAssumption
    <3> QED
      BY <2>1, <3>1 DEF ReadLength, OneReadTakesAll
  <2>3. SubSeq(inbox[c], Len(inbox[c]) + 1, Len(inbox[c])) = <<>>
    BY <2>1
  <2>4. inbox'[c] = <<>> /\ \A d \in Fds \ {c} : inbox'[d] = inbox[d]
    BY <1>3, <2>2, <2>3 DEF Inv, TypeOK
  <2> QED
    BY <1>1, <1>3, <2>4 DEF DueInv, UnreadIsDue, ClosedIsEmpty
<1> QED
  BY <1>2, <1>3 DEF ReadClient

(* epoll_wait() reports every socket of the ready list that has a line.  *)
LEMMA EpollWaitKeepsDue ==
  ASSUME DueInv, EpollWait
  PROVE  DueInv'
  BY DEF EpollWait, Reported, Readable, DueInv, UnreadIsDue, ClosedIsEmpty

(* accept() opens a descriptor that has no lines. *)
LEMMA NewConnectionKeepsDue ==
  ASSUME Inv, DueInv, NewConnection
  PROVE  DueInv'
<1>1. batch' = batch \ {Listener} /\ UNCHANGED <<inbox, ready>>
  BY DEF NewConnection
<1>2. \A c \in Fds : peer[c] # "none" => peer'[c] # "none"
  BY AfterWriteKeeps DEF Inv, NewConnection
<1> QED
  BY <1>1, <1>2, NoSpecialFd DEF DueInv, UnreadIsDue, ClosedIsEmpty

LEMMA LineKeepsDue ==
  ASSUME Inv, DueInv, HandleLine
  PROVE  DueInv'
<1>1. PICK command : Turn(command)
  BY DEF HandleLine, Exit, Who, Name, Yell, TellRefused, TellDelivered, CheckOrError
<1>2. batch' = batch /\ serving \in Fds
  BY <1>1, TurnKeeps
<1>3. CASE Exit
  BY <1>2, <1>3, DisconnectKeepsDue DEF Exit
<1>4. ASSUME NEW S, NEW again, Write(S, again), UNCHANGED <<inbox, ready>>
      PROVE  DueInv'
  BY <1>2, <1>4, AfterWriteKeeps, EventsKept DEF Write, Inv
<1>5. CASE UNCHANGED kernelVars
  BY <1>2, <1>5, EventsKept DEF kernelVars
<1> QED
  BY <1>3, <1>4, <1>5
     DEF HandleLine, Who, Name, Rename, Yell, TellRefused, TellDelivered, CheckOrError,
         Reply

(* A client that writes or leaves makes its socket ready. *)
LEMMA ClientKeepsDue ==
  ASSUME Inv, DueInv, ClientStep
  PROVE  DueInv'
<1>1. batch' = batch
  BY DEF ClientStep, ClientConnects, ClientTypes, ClientExits, serverVars
<1>2. ASSUME NEW c \in Fds, ClientTypes(c) PROVE DueInv'
  <2>1. /\ peer[c] = "up" /\ peer' = peer /\ ready' = ready \cup {c}
        /\ \A d \in Fds \ {c} : inbox'[d] = inbox[d]
    BY <1>2 DEF ClientTypes, Inv, TypeOK
  <2> QED
    BY <1>1, <2>1 DEF DueInv, UnreadIsDue, ClosedIsEmpty
<1>3. ASSUME NEW c \in Fds, ClientExits(c) \/ ResetArrives(c) PROVE DueInv'
  <2>1. /\ inbox' = inbox /\ ready' = ready \cup {c} /\ peer[c] # "none"
        /\ \E how \in {"closed", "reset"} : peer' = [peer EXCEPT ![c] = how]
    BY <1>3 DEF ClientExits, ResetArrives
  <2>2. \A d \in Fds : peer'[d] = "none" <=> peer[d] = "none"
    BY <2>1 DEF Inv, TypeOK
  <2> QED
    BY <1>1, <2>1, <2>2, EventsKept
<1>4. CASE ClientConnects
  BY <1>1, <1>4, EventsKept DEF ClientConnects, kernelVars
<1> QED
  BY <1>2, <1>3, <1>4 DEF ClientStep

LEMMA NextKeepsDue ==
  ASSUME OneReadTakesAll, Inv, DueInv, [Next]_vars
  PROVE  DueInv'
<1>1. CASE EpollWait
  BY <1>1, EpollWaitKeepsDue
<1>2. CASE NewConnection
  BY <1>2, NewConnectionKeepsDue
<1>3. ASSUME NEW c \in Fds, ReadClient(c) PROVE DueInv'
  BY <1>3, ReadKeepsDue
<1>4. CASE HandleLine
  BY <1>4, LineKeepsDue
<1>5. CASE ClientStep
  BY <1>5, ClientKeepsDue
<1>6. CASE UNCHANGED vars
  BY <1>6 DEF vars, serverVars, kernelVars, DueInv, UnreadIsDue, ClosedIsEmpty
<1> QED
  BY <1>1, <1>2, <1>3, <1>4, <1>5, <1>6 DEF Next, ServerStep, Dead

(* The edge-triggered loop (server.hpp:210) loses no wake-up: a line that is   *)
(* in a socket has an event waiting for it, when one read takes all the lines  *)
(* a client can have unread.                                                   *)
THEOREM NoWakeUpIsLost ==
  ASSUME ReadMax >= MaxQueue
  PROVE  Spec => []UnreadIsDue
<1>1. OneReadTakesAll
  BY DEF OneReadTakesAll
<1>2. Init => DueInv
  BY DEF Init, KernelInit, DueInv, UnreadIsDue, ClosedIsEmpty
<1>3. Inv /\ DueInv /\ [Next]_vars => DueInv'
  BY <1>1, NextKeepsDue
<1>4. DueInv => UnreadIsDue
  BY DEF DueInv
<1> QED
  BY <1>2, <1>3, <1>4, InvHolds, PTL DEF Spec

-----------------------------------------------------------------------------
(* The refinement: every step lets one guest in or out, gives one a name,      *)
(* delivers a message, or is nothing to ChatRoom.                              *)

(* What accept() failed to make a client of has no name of its own. *)
ErrorIsNobody == fd_name_map[Bad] \notin ValidNames

LEMMA NextKeepsNobody ==
  ASSUME Inv, ErrorIsNobody, [Next]_vars
  PROVE  ErrorIsNobody'
<1>1. fd_name_map \in [Fds \cup {Bad} -> Words] /\ Bad \notin Fds
  BY NoSpecialFd DEF Inv, TypeOK
<1>2. "anonymous" \notin ValidNames /\ "" \notin ValidNames
  BY ChatServerAssumption DEF ChatServerAssumption
<1>3. lines # <<>> => serving \in Fds
  BY DEF Inv, ServingInv
<1>4. ASSUME NEW c \in Fds, Disconnect(c) PROVE ErrorIsNobody'
  BY <1>1, <1>4 DEF Disconnect, HandleDisconnection, ErrorIsNobody
<1>5. CASE NewConnection
  BY <1>1, <1>2, <1>5 DEF NewConnection, ErrorIsNobody
<1>6. ASSUME NEW c \in Fds, ReadClient(c) PROVE ErrorIsNobody'
  BY <1>4, <1>6 DEF ReadClient, ErrorIsNobody
<1>7. CASE Exit
  BY <1>3, <1>4, <1>7 DEF Exit, Turn
<1>8. ASSUME NEW w, Rename(w), serving \in Fds PROVE ErrorIsNobody'
  BY <1>1, <1>8 DEF Rename, Reply, NamesUnchanged, ErrorIsNobody
<1>9. CASE Name
  BY <1>3, <1>8, <1>9 DEF Name, Turn, NamesUnchanged, ErrorIsNobody
<1>10. CASE UNCHANGED fd_name_map
  BY <1>10 DEF ErrorIsNobody
<1> QED
  BY <1>5, <1>6, <1>7, <1>9, <1>10
     DEF Next, ServerStep, HandleLine, EpollWait, Who, Yell, TellRefused, TellDelivered,
         CheckOrError, Reply, NamesUnchanged, ClientStep, ClientConnects, ClientTypes,
         ClientExits, serverVars, Dead, vars

LEMMA NamedFacts ==
  ASSUME NEW h
  PROVE  h \in Named <=>
           \E c \in clients, w \in ValidNames : h = <<c, w>> /\ fd_name_map[c] = w
  BY DEF Named

LEMMA NamedFactsNext ==
  ASSUME NEW h
  PROVE  h \in Named' <=>
           \E c \in clients', w \in ValidNames : h = <<c, w>> /\ fd_name_map'[c] = w
  BY DEF Named

(* No client comes or goes or gets a name. *)
LEMMA QuietMaps ==
  ASSUME clients' = clients,
         \A c \in clients, w \in ValidNames : fd_name_map'[c] = w <=> fd_name_map[c] = w
  PROVE  UNCHANGED <<clients, Named>>
<1>1. Named' = Named
  <2>1. \A h : h \in Named' <=> h \in Named
    BY NamedFacts, NamedFactsNext
  <2> QED
    BY <2>1
<1> QED
  BY <1>1

(* The room after a step in which no message is delivered. *)
NoMessage == \/ Room!Quiet
             \/ \E g \in Fds \cup {Bad} :
                  \/ Room!Enter(g) \/ Room!Leave(g)
                  \/ \E w \in ValidNames : Room!TakeName(g, w)

LEMMA DisconnectMaps ==
  ASSUME Inv, NEW c \in Fds, Disconnect(c)
  PROVE  NoMessage
<1>1. /\ clients' = clients \ {c}
      /\ \A d \in clients \ {c} : fd_name_map'[d] = fd_name_map[d]
  <2>1. fd_name_map \in [Fds \cup {Bad} -> Words] /\ clients \subseteq Fds \cup {Bad}
    BY DEF Inv, TypeOK
  <2> QED
    BY <2>1 DEF Disconnect, HandleDisconnection
<1>2. CASE c \in clients
  <2>1. Named' = {h \in Named : h[1] # c}
    <3>1. ASSUME NEW h PROVE h \in Named' <=> h \in Named /\ h[1] # c
      BY <1>1, NamedFacts, NamedFactsNext
    <3> QED
      BY <3>1
  <2>2. Room!Leave(c)
    BY <1>1, <1>2, <2>1 DEF Room!Leave, Room!Forget
  <2> QED
    BY <2>2 DEF NoMessage
<1>3. CASE c \notin clients
  <2>1. UNCHANGED <<clients, Named>>
    BY <1>1, <1>3, QuietMaps
  <2> QED
    BY <2>1 DEF NoMessage, Room!Quiet
<1> QED
  BY <1>2, <1>3

LEMMA NewConnectionMaps ==
  ASSUME Inv, ErrorIsNobody, NewConnection
  PROVE  NoMessage
<1> DEFINE new == IF FreeFds = {} THEN Bad ELSE Accepted
<1>1. /\ clients' = clients \cup {new}
      /\ fd_name_map' = [fd_name_map EXCEPT ![new] = "anonymous"]
  BY DEF NewConnection
<1>2. new \in Fds \cup {Bad} /\ (new # Bad => new \in Fds /\ peer[new] = "none")
  BY AcceptedIsFree DEF FreeFds
<1> HIDE DEF new
<1>3. /\ fd_name_map'[new] \notin ValidNames
      /\ \A d \in clients \ {new} : fd_name_map'[d] = fd_name_map[d]
  <2>1. fd_name_map \in [Fds \cup {Bad} -> Words] /\ clients \subseteq Fds \cup {Bad}
    BY DEF Inv, TypeOK
  <2>2. "anonymous" \notin ValidNames
    BY ChatServerAssumption DEF ChatServerAssumption
  <2> QED
    BY <1>1, <1>2, <2>1, <2>2
<1>4. CASE new \notin clients
  <2>1. Named' = Named
    <3>1. ASSUME NEW h PROVE h \in Named' <=> h \in Named
      BY <1>1, <1>3, <1>4, NamedFacts, NamedFactsNext
    <3> QED
      BY <3>1
  <2>2. Room!Enter(new)
    BY <1>1, <1>4, <2>1 DEF Room!Enter
  <2> QED
    BY <1>2, <2>2 DEF NoMessage
<1>5. CASE new \in clients
  <2>1. new = Bad
    BY <1>2, <1>5 DEF Inv, ClientsAreOpen
  <2>2. fd_name_map[new] \notin ValidNames
    BY <2>1 DEF ErrorIsNobody
  <2>3. clients' = clients
    BY <1>1, <1>5
  <2>4. UNCHANGED <<clients, Named>>
    BY <1>3, <2>2, <2>3, QuietMaps
  <2> QED
    BY <2>4 DEF NoMessage, Room!Quiet
<1> QED
  BY <1>4, <1>5

LEMMA RenameMaps ==
  ASSUME Inv, serving \in Fds, NEW w, Rename(w)
  PROVE  NoMessage
<1>1. CASE Reply
  <2>1. UNCHANGED <<clients, Named>>
    BY <1>1, QuietMaps DEF Reply, NamesUnchanged
  <2> QED
    BY <2>1 DEF NoMessage, Room!Quiet
<1>2. CASE /\ w \in ValidNames /\ ~Taken(w) /\ clients' = clients
           /\ fd_name_map' = [fd_name_map EXCEPT ![serving] = w]
  <2>0. fd_name_map \in [Fds \cup {Bad} -> Words] /\ clients \subseteq Fds \cup {Bad}
    BY DEF Inv, TypeOK
  <2>1. /\ \A d \in clients \ {serving} : fd_name_map'[d] = fd_name_map[d]
        /\ fd_name_map'[serving] = w
    BY <1>2, <2>0
  <2>2. CASE serving \in clients
    <3>1. Named' = {h \in Named : h[1] # serving} \cup {<<serving, w>>}
      <4>1. ASSUME NEW h
            PROVE  h \in Named' <=> (h \in Named /\ h[1] # serving) \/ h = <<serving, w>>
        BY <1>2, <2>1, <2>2, NamedFacts, NamedFactsNext
      <4> QED
        BY <4>1
    <3>2. \A g \in clients : <<g, w>> \notin Named
      <4> SUFFICES ASSUME NEW g \in clients, <<g, w>> \in Named PROVE FALSE
        OBVIOUS
      <4>1. fd_name_map[g] = w /\ g \in Fds \cup {Bad}
        BY <2>0, NamedFacts
      <4>2. name_fd_map[w] = g
        BY <1>2, <4>1 DEF Inv, NamesInv
      <4>3. g # 0
        BY <4>1, NoSpecialFd DEF Listener, Bad
      <4> QED
        BY <1>2, <4>2, <4>3 DEF Taken, NameFd
    <3>3. Room!TakeName(serving, w)
      BY <1>2, <2>2, <3>1, <3>2 DEF Room!TakeName, Room!Has, Room!Forget
    <3> QED
      BY <1>2, <3>3 DEF NoMessage
  <2>3. CASE serving \notin clients
    <3>1. UNCHANGED <<clients, Named>>
      BY <1>2, <2>1, <2>3, QuietMaps
    <3> QED
      BY <3>1 DEF NoMessage, Room!Quiet
  <2> QED
    BY <2>2, <2>3
<1> QED
  BY <1>1, <1>2 DEF Rename

LEMMA TellMaps ==
  ASSUME Inv, TellDelivered
  PROVE  \E w \in ValidNames, g \in Fds \cup {Bad} : Room!Tell(w, g)
<1>1. PICK asked, to : asked = Head(lines)[2] /\ to = NameFd(asked)
  OBVIOUS
<1>2. /\ to # 0 /\ NamesUnchanged
      /\ told' = [from |-> serving, shown |-> fd_name_map[serving], asked |-> asked, to |-> to]
      /\ Turn("TELL")
  BY <1>1 DEF TellDelivered
<1>3. asked \in ValidNames /\ to = name_fd_map[asked]
  BY <1>1, <1>2 DEF NameFd
<1>4. to \in Fds \cup {Bad}
  BY <1>2, <1>3 DEF Inv, TypeOK
<1>5. Message' = <<asked, to>>
  <2>1. told' # NoTell
    <3>1. told'.from = serving /\ serving \in Fds
      BY <1>2 DEF Inv, ServingInv, Turn
    <3>2. NoTell.from = Bad
      BY DEF NoTell
    <3>3. told'.from # NoTell.from
      BY <3>1, <3>2, NoSpecialFd
    <3> QED
      BY <3>3
  <2>2. told'.asked = asked /\ told'.to = to
    BY <1>2
  <2> QED
    BY <2>1, <2>2 DEF Message
<1>6. UNCHANGED <<clients, Named>>
  BY <1>2, QuietMaps DEF NamesUnchanged
<1>7. \A g \in clients : <<g, asked>> \in Named => g = to
  <2> SUFFICES ASSUME NEW g \in clients, <<g, asked>> \in Named PROVE g = to
    OBVIOUS
  <2>1. fd_name_map[g] = asked /\ g \in Fds \cup {Bad}
    BY NamedFacts DEF Inv, TypeOK
  <2> QED
    BY <1>3, <2>1 DEF Inv, NamesInv
<1>8. Room!Tell(asked, to)
  BY <1>5, <1>6, <1>7 DEF Room!Tell, Room!Has
<1> QED
  BY <1>3, <1>4, <1>8

(* The epoll server with its handlers, whatever its clients type and however   *)
(* descriptors are reused, keeps what ChatRoom promises: a name is one client's*)
(* at a time, and a message for it goes to that client.                        *)
THEOREM ServerImplementsRoom == Spec => ImplementsChatRoom
<1>1. ASSUME Init PROVE Room!RoomInit /\ ErrorIsNobody
  <2>1. clients = {} /\ told = NoTell /\ fd_name_map[Bad] = ""
    BY <1>1 DEF Init
  <2> QED
    BY <2>1, ChatServerAssumption
       DEF Room!RoomInit, Room!Nothing, Named, Message, ErrorIsNobody, ChatServerAssumption
<1>2. ASSUME Inv, ErrorIsNobody, [Next]_vars
      PROVE  [Room!RoomNext]_(Room!roomVars)
  <2>1. ASSUME NoMessage, told' = NoTell PROVE Room!RoomNext
    <3>1. Message' = <<>>
      BY <2>1 DEF Message
    <3> QED
      BY <2>1, <3>1 DEF NoMessage, Room!RoomNext, Room!Nothing
  <2>2. ASSUME UNCHANGED <<clients, fd_name_map>> PROVE NoMessage
    BY <2>2, QuietMaps DEF NoMessage, Room!Quiet
  <2>3. lines # <<>> => serving \in Fds
    BY <1>2 DEF Inv, ServingInv
  <2>4. CASE NewConnection
    BY <1>2, <2>1, <2>4, NewConnectionMaps DEF NewConnection
  <2>5. ASSUME NEW c \in Fds, ReadClient(c) PROVE Room!RoomNext
    BY <1>2, <2>1, <2>2, <2>5, DisconnectMaps DEF ReadClient
  <2>6. CASE Exit
    BY <1>2, <2>1, <2>3, <2>6, DisconnectMaps DEF Exit, Turn
  <2>7. CASE Name
    BY <1>2, <2>1, <2>2, <2>3, <2>7, RenameMaps DEF Name, Turn, NamesUnchanged
  <2>8. CASE TellDelivered
    BY <1>2, <2>8, TellMaps DEF Room!RoomNext
  <2>9. CASE EpollWait \/ Who \/ Yell \/ TellRefused \/ CheckOrError
    <3>1. told' = NoTell /\ UNCHANGED <<clients, fd_name_map>>
      BY <2>9 DEF EpollWait, Who, Yell, TellRefused, CheckOrError, Reply, NamesUnchanged
    <3> QED
      BY <2>1, <2>2, <3>1
  <2>10. CASE ClientStep
    <3>1. told' = NoTell /\ UNCHANGED <<clients, fd_name_map>>
      BY <2>10 DEF ClientStep, ClientConnects, ClientTypes, ClientExits, serverVars
    <3> QED
      BY <2>1, <2>2, <3>1
  <2>11. CASE UNCHANGED vars
    <3>1. UNCHANGED <<clients, fd_name_map, told>>
      BY <2>11 DEF vars, serverVars
    <3>2. UNCHANGED <<clients, Named>>
      BY <3>1, QuietMaps
    <3> QED
      BY <3>1, <3>2 DEF Room!roomVars, Message
  <2> QED
    BY <1>2, <2>4, <2>5, <2>6, <2>7, <2>8, <2>9, <2>10, <2>11
       DEF Next, ServerStep, HandleLine, Dead
<1>3. Spec => [](Inv /\ ErrorIsNobody)
  <2>1. Init => ErrorIsNobody
    BY <1>1
  <2>2. Inv /\ ErrorIsNobody /\ [Next]_vars => ErrorIsNobody'
    BY NextKeepsNobody
  <2> QED
    BY <2>1, <2>2, InvHolds, PTL DEF Spec
<1>4. Init => Room!RoomInit
  BY <1>1
<1>5. Inv /\ ErrorIsNobody /\ [Next]_vars => [Room!RoomNext]_(Room!roomVars)
  BY <1>2
<1> QED
  BY <1>3, <1>4, <1>5, PTL DEF Spec, ImplementsChatRoom, Room!RoomSpec
=============================================================================
