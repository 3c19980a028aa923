--------------------------- MODULE DropboxProofs ---------------------------
(***************************************************************************)
(* Inv is inductive, whatever the users, the files, the speed of the       *)
(* server and the processes that are killed: one lemma per action.         *)
(* Then two that need it.  WaitInv: every transfer has both its ends.      *)
(* OwnInv: a client hears of its own user's files only.                    *)
(***************************************************************************)
EXTENDS DropboxLemmas

LEMMA OwnersHaveNames == "" \notin Owners /\ Users \subseteq Owners
  BY DropboxServerAssumption DEF DropboxServerAssumption, Owners

(* What the server knows of a connection and what is sent to it there. *)
Near(d) ==
  <<near[d], toServer[d], name_map[d], receiving[d], sending[d], uploading[d], downloading[d]>>

LEMMA NearSame ==
  ASSUME NEW d \in Conns, NamedOK(d), StreamOK(d), NearOK(d), UNCHANGED Near(d)
  PROVE  NamedOK(d)' /\ StreamOK(d)' /\ NearOK(d)'
<1>1. /\ near'[d] = near[d] /\ toServer'[d] = toServer[d] /\ name_map'[d] = name_map[d]
      /\ receiving'[d] = receiving[d] /\ sending'[d] = sending[d]
      /\ uploading'[d] = uploading[d] /\ downloading'[d] = downloading[d]
  BY DEF Near
<1>2. Idle(d)' <=> Idle(d)
  BY <1>1 DEF Idle
<1>3. StreamOK(d)'
  BY <1>1, <1>2 DEF StreamOK, ItemOK
<1> QED
  BY <1>1, <1>2, <1>3 DEF NamedOK, NearOK

(* The server reads from the head of a connection and leaves the others.      *)
LEMMA NearKept ==
  ASSUME NearInv, NEW c \in Conns, \A d \in Conns \ {c} : UNCHANGED Near(d),
         NamedOK(c)', StreamOK(c)', NearOK(c)'
  PROVE  NearInv'
  BY NearSame DEF NearInv

LEMMA ProcSame ==
  ASSUME NEW p, ProcOK(p), state'[p] = "connected" => state[p] = "connected",
         fd_cmd'[p] = fd_cmd[p],
         owner'[fd_cmd[p]] = owner[fd_cmd[p]], UNCHANGED Near(fd_cmd[p])
  PROVE  ProcOK(p)'
  BY DEF ProcOK, Near, Idle

(* A step of the server at c keeps the command connections, if c is none or   *)
(* stays idle and only loses items.                                           *)
LEMMA ProcsKept ==
  ASSUME ProcsInv, NEW c \in Conns, \A d \in Conns \ {c} : UNCHANGED Near(d),
         UNCHANGED clientVars,
         \/ Idle(c)' /\ \A i \in 1..Len(toServer'[c]) :
              \E j \in 1..Len(toServer[c]) : toServer'[c][i] = toServer[c][j]
         \/ ~Idle(c)
         \/ \E i \in 1..Len(toServer[c]) : toServer[c][i].type \notin CommandTypes
  PROVE  ProcsInv'
<1> SUFFICES ASSUME NEW p \in Procs, state[p] = "connected" PROVE ProcOK(p)'
  BY DEF ProcsInv, ProcOK, clientVars
<1>1. ProcOK(p) /\ state' = state /\ fd_cmd' = fd_cmd /\ owner' = owner
  BY DEF ProcsInv, clientVars
<1>2. CASE fd_cmd[p] # c
  BY <1>1, <1>2, ProcSame DEF ProcOK
<1>3. CASE fd_cmd[p] = c
  BY <1>1, <1>3 DEF ProcOK
<1> QED
  BY <1>2, <1>3

LEMMA NamesSame ==
  ASSUME NamesAgree, near' = near, name_map' = name_map, name_clients_map' = name_clients_map
  PROVE  NamesAgree'
  BY DEF NamesAgree, clients

LEMMA FarSame ==
  ASSUME FarInv, UNCHANGED <<far, toClient, owner, uploading, downloading>>
  PROVE  FarInv'
  BY DEF FarInv, FarOK, DataOK

(* The server writes to connections over which nothing is downloaded, or data. *)
LEMMA FarWritten ==
  ASSUME StreamsTypeOK, FarInv, UNCHANGED clientVars,
         NEW S \in SUBSET Conns, NEW items \in Seq(Notices \cup Units), NEW again,
         Write(S, items, again),
         \/ \A c \in S : ~InUse(downloading[c])
         \/ items \in Seq(Units)
  PROVE  FarInv'
<1> SUFFICES ASSUME NEW c \in Conns PROVE FarOK(c)' /\ DataOK(c)'
  BY DEF FarInv
<1>1. owner' = owner /\ uploading' = uploading /\ downloading' = downloading
  BY DEF clientVars
<1>2. /\ far'[c] = "open" <=> far[c] = "open"
      /\ c \notin S \/ far[c] # "open" => toClient'[c] = toClient[c]
      /\ \A i \in 1..Len(toClient'[c]) :
              \/ i \in 1..Len(toClient[c]) /\ toClient'[c][i] = toClient[c][i]
              \/ \E j \in 1..Len(items) : toClient'[c][i] = items[j]
  BY WriteFacts
<1>3. FarOK(c) /\ DataOK(c)
  BY DEF FarInv
<1>4. FarOK(c)'
  BY <1>1, <1>2, <1>3 DEF FarOK
<1>5. DataOK(c)'
  <2>1. CASE c \in S /\ \A d \in S : ~InUse(downloading[d])
    BY <1>1, <2>1 DEF DataOK
  <2>2. CASE c \notin S
    BY <1>1, <1>2, <1>3, <2>2 DEF DataOK
  <2>3. CASE items \in Seq(Units)
    <3>1. \A j \in 1..Len(items) : items[j].type = "data"
      BY <2>3, UnitFacts
    <3> QED
      BY <1>1, <1>2, <1>3, <3>1 DEF DataOK
  <2> QED
    BY <2>1, <2>2, <2>3
<1> QED
  BY <1>4, <1>5

LEMMA ClientTypeSame ==
  ASSUME ClientTypeOK, UNCHANGED clientVars
  PROVE  ClientTypeOK'
  BY DEF ClientTypeOK, clientVars

(* Items at the head of a connection are read. *)
LEMMA ConsumeFacts ==
  ASSUME StreamsTypeOK, NEW c \in Conns, NEW n \in 0..Len(toServer[c]), Consume(c, n)
  PROVE  /\ toServer' \in [Conns -> Seq(Requests \cup Units)]
         /\ \A d \in Conns : d # c => toServer'[d] = toServer[d]
         /\ Len(toServer'[c]) = Len(toServer[c]) - n
         /\ \A d \in Conns : Len(toServer'[d]) <= Capacity
         /\ \A i \in 1..Len(toServer'[c]) :
              i + n \in 1..Len(toServer[c]) /\ toServer'[c][i] = toServer[c][i + n]
<1>1. toServer \in [Conns -> Seq(Requests \cup Units)] /\ toServer[c] \in Seq(Requests \cup Units)
  BY DEF StreamsTypeOK
<1>2. toServer' = [toServer EXCEPT ![c] = AllBut(@, n)]
  BY DEF Consume
<1>3. /\ AllBut(toServer[c], n) \in Seq(Requests \cup Units)
      /\ Len(AllBut(toServer[c], n)) = Len(toServer[c]) - n
      /\ \A i \in 1..Len(AllBut(toServer[c], n)) :
           i + n \in 1..Len(toServer[c]) /\ AllBut(toServer[c], n)[i] = toServer[c][i + n]
  BY <1>1, AllButFacts
<1>4. toServer'[c] = AllBut(toServer[c], n)
  BY <1>1, <1>2
<1> HIDE DEF AllBut
<1>5. \A d \in Conns : Len(toServer[d]) <= Capacity /\ Len(toServer[d]) \in Nat
  BY DEF StreamsTypeOK
<1>6. toServer' \in [Conns -> Seq(Requests \cup Units)]
  BY <1>1, <1>2, <1>3
<1>7. \A d \in Conns : d # c => toServer'[d] = toServer[d]
  BY <1>1, <1>2
<1>8. Len(toServer'[c]) = Len(toServer[c]) - n
  BY <1>3, <1>4
<1>9. \A d \in Conns : Len(toServer'[d]) <= Capacity
  BY <1>5, <1>7, <1>8, BoundsFacts
<1> QED
  BY <1>3, <1>4, <1>6, <1>7, <1>8, <1>9

(* The server closes a connection. *)
LEMMA CloseNearFacts ==
  ASSUME StreamsTypeOK, NEW c \in Conns, CloseNear(c)
  PROVE  /\ near' \in [Conns -> {"closed", "pending", "open"}]
         /\ toServer' \in [Conns -> Seq(Requests \cup Units)]
         /\ \A d \in Conns : Len(toServer'[d]) <= Capacity
         /\ near'[c] = "closed" /\ Len(toServer'[c]) = 0
         /\ \A d \in Conns : d # c => near'[d] = near[d] /\ toServer'[d] = toServer[d]
<1>1. /\ near' = [near EXCEPT ![c] = "closed"]
      /\ near \in [Conns -> {"closed", "pending", "open"}]
  BY DEF StreamsTypeOK, CloseNear
<1>2. /\ toServer' = [toServer EXCEPT ![c] = <<>>]
      /\ toServer \in [Conns -> Seq(Requests \cup Units)]
  BY DEF StreamsTypeOK, CloseNear
<1>3. toServer' \in [Conns -> Seq(Requests \cup Units)] /\ toServer'[c] = <<>>
  BY <1>2
<1>4. Len(toServer'[c]) = 0
  BY <1>3
<1>5. \A d \in Conns : d # c => toServer'[d] = toServer[d]
  BY <1>2
<1>6. \A d \in Conns : Len(toServer'[d]) <= Capacity
  <2>1. \A d \in Conns : Len(toServer[d]) <= Capacity
    BY DEF StreamsTypeOK
  <2>2. \A d \in Conns : d # c => Len(toServer'[d]) <= Capacity
    BY <1>5, <2>1, Zenon
  <2>3. Len(toServer'[c]) <= Capacity
    BY <1>4, DropboxStreamsAssumption DEF DropboxStreamsAssumption
  <2> QED
    BY <2>2, <2>3, Zenon
<1>7. /\ near' \in [Conns -> {"closed", "pending", "open"}] /\ near'[c] = "closed"
      /\ \A d \in Conns : d # c => near'[d] = near[d]
  BY <1>1
<1> QED
  BY <1>3, <1>4, <1>5, <1>6, <1>7, Zenon

-----------------------------------------------------------------------------
(* The server: connections *)

LEMMA AcceptKeeps ==
  ASSUME Inv, NEW c \in Conns, Accept(c), UNCHANGED clientVars
  PROVE  Inv'
<1>1. /\ near[c] = "pending" /\ near' = [near EXCEPT ![c] = "open"]
      /\ near \in [Conns -> {"closed", "pending", "open"}]
      /\ UNCHANGED <<far, toServer, toClient, alive, serverVars>>
  BY DEF Inv, TypeOK, StreamsTypeOK, Accept
<1>2. TypeOK'
  BY <1>1, ClientTypeSame
     DEF Inv, TypeOK, StreamsTypeOK, ServerTypeOK, serverVars, tableVars
<1>3. \A d \in Conns \ {c} : UNCHANGED Near(d)
  BY <1>1 DEF Near, serverVars, tableVars, clientVars
<1>4. NamedOK(c)' /\ StreamOK(c)' /\ NearOK(c)'
  BY <1>1 DEF Inv, NearInv, NamedOK, StreamOK, ItemOK, NearOK, Idle, serverVars, tableVars, clientVars
<1>5. NearInv'
  BY <1>3, <1>4, NearKept DEF Inv
<1>6. FarInv'
  BY <1>1, FarSame DEF Inv, clientVars
<1>7. ProcsInv'
  BY <1>1 DEF Inv, ProcsInv, ProcOK, Idle, serverVars, tableVars, clientVars
<1>8. name_map[c] = ""
  BY <1>1 DEF Inv, NearInv, NearOK
<1>9. NamesAgree'
  BY <1>1, <1>8, OwnersHaveNames DEF Inv, NamesAgree, clients, serverVars, tableVars
<1> QED
  BY <1>2, <1>5, <1>6, <1>7, <1>9 DEF Inv

LEMMA DisconnectKeeps ==
  ASSUME Inv, NEW c \in Conns, near[c] = "open", Disconnect(c), UNCHANGED clientVars,
         ~InUse(receiving[c]) /\ ~InUse(sending[c])
  PROVE  Inv'
<1>1. /\ name_map' = [name_map EXCEPT ![c] = ""]
      /\ name_map \in [Conns -> Owners \cup {""}]
      /\ UNCHANGED <<far, toClient, alive, client_files, receiving, sending,
                     fail_count, fd_file_map, folder, shared>>
  BY DEF Inv, TypeOK, ServerTypeOK, Disconnect, ForgetName
<1>2. name_clients_map' = [u \in Owners |-> IF u = name_map[c]
                             THEN name_clients_map[u] \ {c} ELSE name_clients_map[u]]
  BY DEF Disconnect, ForgetName
<1>3. /\ near' \in [Conns -> {"closed", "pending", "open"}]
      /\ toServer' \in [Conns -> Seq(Requests \cup Units)]
      /\ \A d \in Conns : Len(toServer'[d]) <= Capacity
      /\ near'[c] = "closed" /\ Len(toServer'[c]) = 0
      /\ \A d \in Conns : d # c => near'[d] = near[d] /\ toServer'[d] = toServer[d]
  BY CloseNearFacts DEF Disconnect, Inv, TypeOK
<1>4. StreamsTypeOK'
  BY <1>1, <1>3 DEF Inv, TypeOK, StreamsTypeOK
<1>5. ServerTypeOK'
  BY <1>1, <1>2 DEF Inv, TypeOK, ServerTypeOK
<1>6. \A d \in Conns \ {c} : UNCHANGED Near(d)
  BY <1>1, <1>3 DEF Near, clientVars
<1>7. NamedOK(c)' /\ StreamOK(c)' /\ NearOK(c)'
  <2>1. name_map'[c] = ""
    BY <1>1
  <2>2. Len(toServer'[c]) = 0
    BY <1>3
  <2>3. StreamOK(c)'
    BY <2>2 DEF StreamOK
  <2>4. NamedOK(c)'
    BY <2>1 DEF NamedOK
  <2>5. NearOK(c)'
    BY <1>1, <2>1 DEF NearOK
  <2> QED
    BY <2>3, <2>4, <2>5
<1>8. NearInv'
  BY <1>6, <1>7, NearKept DEF Inv
<1>9. FarInv'
  BY <1>1, FarSame DEF Inv, clientVars
<1>10. ProcsInv'
  <2>1. CASE Idle(c)
    <3>1. Idle(c)'
      BY <1>1, <2>1 DEF Idle, clientVars
    <3> QED
      BY <1>3, <1>6, <3>1, ProcsKept DEF Inv
  <2>2. CASE ~Idle(c)
    BY <1>6, <2>2, ProcsKept DEF Inv
  <2> QED
    BY <2>1, <2>2
<1>11. NamesAgree'
  <2>1. name_map'[c] = "" /\ \A d \in Conns \ {c} : name_map'[d] = name_map[d]
    BY <1>1
  <2> QED
    BY <1>2, <1>3, <2>1, OwnersHaveNames DEF Inv, NamesAgree, clients
<1> QED
  BY <1>4, <1>5, <1>8, <1>9, <1>10, <1>11, ClientTypeSame DEF Inv, TypeOK

LEMMA HangupKeeps ==
  ASSUME Inv, NEW c \in Conns, Hangup(c), UNCHANGED clientVars
  PROVE  Inv'
  BY DisconnectKeeps DEF Hangup, clients

LEMMA LeaveKeeps ==
  ASSUME Inv, NEW c \in Conns, NEW n \in 1..Len(toServer[c]), Leave(c, n), UNCHANGED clientVars
  PROVE  Inv'
  BY DisconnectKeeps DEF Leave, Reads, clients

-----------------------------------------------------------------------------
(* The server: commands *)

(* What is left of a connection when a command was read. *)
LEMMA RestFacts ==
  ASSUME StreamsTypeOK, NEW c \in Conns, NEW n \in 1..Len(toServer[c]), StreamOK(c),
         Consume(c, n)
  PROVE  /\ toServer[c][1].type \in CommandTypes =>
              /\ Idle(c)
              /\ \A i \in 1..Len(toServer'[c]) :
                   toServer'[c][i].type \in CommandTypes \ {"name"}
         /\ toServer[c][1].type \notin CommandTypes =>
              /\ name_map[c] = ""
              /\ \A i \in 1..Len(toServer'[c]) : toServer'[c][i].type = "data"
<1>1. toServer[c] \in Seq(Requests \cup Units) /\ Len(toServer[c]) \in Nat
  BY DEF StreamsTypeOK
<1>2. \A i \in 1..Len(toServer'[c]) :
        i + n \in 1..Len(toServer[c]) /\ toServer'[c][i] = toServer[c][i + n]
  <2>1. n \in 0..Len(toServer[c])
    BY <1>1
  <2> QED
    BY <2>1, ConsumeFacts, Zenon
<1>3. ItemOK(c, 1) /\ \A i \in 1..Len(toServer[c]) : ItemOK(c, i)
  BY <1>1 DEF StreamOK
<1>4. \A i \in 1..Len(toServer[c]) :
        toServer[c][i].type \in {"name", "put", "get", "sleep", "exit", "data"}
  <2>1. \A i \in 1..Len(toServer[c]) : toServer[c][i] \in Requests \cup Units
    BY <1>1
  <2> QED
    BY <2>1, RequestFacts
<1>5. \A i \in 1..Len(toServer'[c]) : toServer'[c][i].type \notin {"name", "put", "get"}
  <2> SUFFICES ASSUME NEW i \in 1..Len(toServer'[c])
               PROVE  toServer'[c][i].type \notin {"name", "put", "get"}
    OBVIOUS
  <2>1. i + n \in 1..Len(toServer[c]) /\ i + n # 1
    BY <1>1, <1>2
  <2> QED
    BY <1>2, <1>3, <2>1 DEF ItemOK
<1>6. CASE toServer[c][1].type \in CommandTypes
  BY <1>2, <1>3, <1>5, <1>6 DEF ItemOK
<1>7. CASE toServer[c][1].type \notin CommandTypes
  <2>1. \A i \in 1..Len(toServer[c]) : toServer[c][i].type \notin CommandTypes
    <3> SUFFICES ASSUME NEW i \in 1..Len(toServer[c]), toServer[c][i].type \in CommandTypes
                 PROVE  FALSE
      OBVIOUS
    <3>1. 1 \in 1..Len(toServer[c])
      BY <1>1
    <3>2. \A j \in 1..Len(toServer[c]) : toServer[c][j].type \in CommandTypes
      BY <1>3 DEF ItemOK
    <3> QED
      BY <1>7, <3>1, <3>2
  <2>2. name_map[c] = ""
    BY <1>3, <1>7 DEF ItemOK
  <2> QED
    BY <1>2, <1>4, <1>5, <1>7, <2>1, <2>2 DEF CommandTypes
<1> QED
  BY <1>6, <1>7

(* Every command leaves the processes with their command connections. *)
LEMMA ReadKeepsProcs ==
  ASSUME Inv, NEW c \in Conns, NEW n \in 1..Len(toServer[c]), Consume(c, n),
         UNCHANGED clientVars, \A d \in Conns \ {c} : UNCHANGED Near(d),
         toServer[c][1].type \in CommandTypes => Idle(c)'
  PROVE  ProcsInv'
<1>1. Len(toServer[c]) \in Nat /\ 1 \in 1..Len(toServer[c])
  BY DEF Inv, TypeOK, StreamsTypeOK
<1>2. \A i \in 1..Len(toServer'[c]) :
        i + n \in 1..Len(toServer[c]) /\ toServer'[c][i] = toServer[c][i + n]
  BY <1>1, ConsumeFacts DEF Inv, TypeOK
<1>3. CASE toServer[c][1].type \in CommandTypes
  BY <1>2, <1>3, ProcsKept DEF Inv
<1>4. CASE toServer[c][1].type \notin CommandTypes
  BY <1>1, <1>4, ProcsKept DEF Inv
<1> QED
  BY <1>3, <1>4

LEMMA IgnoreKeeps ==
  ASSUME Inv, NEW c \in Conns, NEW n \in 1..Len(toServer[c]), Ignore(c, n),
         UNCHANGED clientVars
  PROVE  Inv'
<1>1. /\ Consume(c, n)
      /\ UNCHANGED <<near, far, toClient, alive, serverVars, clientVars>>
  BY DEF Ignore
<1>2. /\ near' = near /\ far' = far /\ toClient' = toClient /\ alive' = alive
      /\ name_map' = name_map /\ name_clients_map' = name_clients_map
      /\ client_files' = client_files /\ fail_count' = fail_count
      /\ fd_file_map' = fd_file_map /\ receiving' = receiving /\ sending' = sending
      /\ folder' = folder /\ shared' = shared
      /\ owner' = owner /\ uploading' = uploading /\ downloading' = downloading
  BY <1>1 DEF serverVars, tableVars, clientVars
<1>3. /\ toServer' \in [Conns -> Seq(Requests \cup Units)]
      /\ \A d \in Conns : d # c => toServer'[d] = toServer[d]
      /\ \A d \in Conns : Len(toServer'[d]) <= Capacity
  BY <1>1, ConsumeFacts DEF Inv, TypeOK
<1>4. TypeOK'
  <2>1. StreamsTypeOK'
    BY <1>2, <1>3 DEF Inv, TypeOK, StreamsTypeOK
  <2>2. ServerTypeOK'
    BY <1>2 DEF Inv, TypeOK, ServerTypeOK
  <2> QED
    BY <2>1, <2>2, ClientTypeSame DEF Inv, TypeOK
<1>5. \A d \in Conns \ {c} : UNCHANGED Near(d)
  BY <1>2, <1>3 DEF Near
<1>6. toServer[c][1].type \in CommandTypes
  BY CommandFacts DEF Ignore, Reads, Inv, TypeOK, CommandTypes
<1>7. NamedOK(c) /\ StreamOK(c) /\ NearOK(c)
  BY DEF Inv, NearInv
<1>8. Idle(c) /\ \A i \in 1..Len(toServer'[c]) :
        toServer'[c][i].type \in CommandTypes \ {"name"}
  BY <1>1, <1>6, <1>7, RestFacts DEF Inv, TypeOK
<1>9. Idle(c)'
  BY <1>2, <1>8 DEF Idle
<1>10. StreamOK(c)'
  BY <1>8, <1>9 DEF StreamOK, ItemOK, CommandTypes
<1>11. NamedOK(c)' /\ NearOK(c)'
  BY <1>2, <1>7, <1>9 DEF NamedOK, NearOK
<1>12. NearInv'
  BY <1>5, <1>10, <1>11, NearKept DEF Inv
<1>13. FarInv'
  BY <1>2, FarSame DEF Inv
<1>14. ProcsInv'
  BY <1>1, <1>5, <1>9, ReadKeepsProcs
<1>15. NamesAgree'
  BY <1>2, NamesSame DEF Inv
<1> QED
  BY <1>4, <1>12, <1>13, <1>14, <1>15 DEF Inv

LEMMA NameKeeps ==
  ASSUME Inv, NEW c \in Conns, NEW n \in 1..Len(toServer[c]), Name(c, n),
         UNCHANGED clientVars
  PROVE  Inv'
<1> DEFINE user == CommandOf(c, n).user
           items == <<[type |-> "welcome"]>> \o Catalogue(user)
           again == client_files[user] # {}
<1>1. /\ Consume(c, n)
      /\ name_map' = [name_map EXCEPT ![c] = user]
      /\ name_clients_map' = [name_clients_map EXCEPT ![user] = @ \cup {c}]
      /\ Write({c}, items, again)
      /\ near' = near /\ client_files' = client_files /\ receiving' = receiving
      /\ sending' = sending /\ fail_count' = fail_count /\ fd_file_map' = fd_file_map
      /\ folder' = folder /\ shared' = shared
  BY DEF Name
<1>2. owner' = owner /\ uploading' = uploading /\ downloading' = downloading
  BY DEF clientVars
<1>3. near[c] = "open"
  BY DEF Name, Reads, clients
<1>4. toServer[c][1].type = "name" /\ user \in Owners /\ user # ""
  BY CommandFacts, OwnersHaveNames DEF Name, Reads, Inv, TypeOK
<1>5. items \in Seq(Notices \cup Units)
  <2>1. Catalogue(user) \in Seq(Notices)
    BY <1>4, CatalogueFacts DEF Inv, TypeOK
  <2>2. <<[type |-> "welcome"]>> \in Seq(Notices)
    BY LineFacts
  <2>3. items \in Seq(Notices)
    BY <2>1, <2>2
  <2> QED
    BY <2>3
<1> HIDE DEF user, items, again
<1>6. /\ toServer' \in [Conns -> Seq(Requests \cup Units)]
      /\ \A d \in Conns : d # c => toServer'[d] = toServer[d]
      /\ \A d \in Conns : Len(toServer'[d]) <= Capacity
  BY <1>1, ConsumeFacts DEF Inv, TypeOK
<1>7. /\ toClient' \in [Conns -> Seq(Notices \cup Units)]
      /\ \A d \in Conns : Len(toClient'[d]) <= Capacity
      /\ far' \in [Conns -> {"closed", "open", "reset"}]
      /\ alive' \in BOOLEAN
  BY <1>1, <1>5, WriteFacts DEF Inv, TypeOK
<1>8. TypeOK'
  <2>1. StreamsTypeOK'
    BY <1>1, <1>6, <1>7 DEF Inv, TypeOK, StreamsTypeOK
  <2>2. ServerTypeOK'
    BY <1>1, <1>4 DEF Inv, TypeOK, ServerTypeOK
  <2> QED
    BY <2>1, <2>2, ClientTypeSame DEF Inv, TypeOK
<1>9. name_map'[c] = user /\ \A d \in Conns \ {c} : name_map'[d] = name_map[d]
  BY <1>1 DEF Inv, TypeOK, ServerTypeOK
<1>10. \A d \in Conns \ {c} : UNCHANGED Near(d)
  BY <1>1, <1>2, <1>6, <1>9 DEF Near
<1>11. NamedOK(c) /\ StreamOK(c) /\ NearOK(c) /\ ItemOK(c, 1)
  BY DEF Inv, NearInv, StreamOK
<1>12. Idle(c) /\ \A i \in 1..Len(toServer'[c]) :
        toServer'[c][i].type \in CommandTypes \ {"name"}
  BY <1>1, <1>4, <1>11, RestFacts DEF Inv, TypeOK, CommandTypes
<1>13. Idle(c)' /\ name_map[c] = ""
  BY <1>1, <1>2, <1>4, <1>11, <1>12 DEF Idle, ItemOK
<1>14. StreamOK(c)'
  BY <1>12, <1>13 DEF StreamOK, ItemOK, CommandTypes
<1>15. NamedOK(c)' /\ NearOK(c)'
  <2>1. NearOK(c)'
    BY <1>1, <1>3, <1>11 DEF NearOK
  <2>2. NamedOK(c)'
    BY <1>1, <1>3, <1>13 DEF NamedOK
  <2> QED
    BY <2>1, <2>2
<1>16. NearInv'
  BY <1>10, <1>14, <1>15, NearKept DEF Inv
<1>17. FarInv'
  BY <1>1, <1>5, <1>12, FarWritten DEF Inv, TypeOK, Idle
<1>18. ProcsInv'
  BY <1>1, <1>10, <1>13, ReadKeepsProcs
<1>19. NamesAgree'
  <2> SUFFICES ASSUME NEW u \in Owners
               PROVE  name_clients_map'[u] = {d \in clients' : name_map'[d] = u}
    BY DEF NamesAgree
  <2>1. clients' = clients /\ c \in clients
    BY <1>1, <1>3 DEF clients
  <2>2. name_clients_map[u] = {d \in clients : name_map[d] = u}
    BY DEF Inv, NamesAgree
  <2>3. \A d \in clients : d \in Conns
    BY DEF clients
  <2>4. name_clients_map'[u] = IF u = user THEN name_clients_map[u] \cup {c}
                               ELSE name_clients_map[u]
    BY <1>1 DEF Inv, TypeOK, ServerTypeOK
  <2> QED
    BY <1>9, <1>13, <2>1, <2>2, <2>3, <2>4, OwnersHaveNames
<1> QED
  BY <1>8, <1>16, <1>17, <1>18, <1>19 DEF Inv

-----------------------------------------------------------------------------
(* The server: requests for a transfer *)

LEMMA ItemsGiveSeq ==
  ASSUME NEW S, NEW T, NEW s \in Seq(S), \A i \in 1..Len(s) : s[i] \in T
  PROVE  s \in Seq(T)
  OBVIOUS

(* What follows a request is data. *)
LEMMA TailIsData ==
  ASSUME StreamsTypeOK, NEW c \in Conns, StreamOK(c),
         toServer[c][1].type \in {"put", "get"}
  PROVE  \A i \in 2..Len(toServer[c]) : toServer[c][i] \in Units
<1> SUFFICES ASSUME NEW i \in 2..Len(toServer[c]) PROVE toServer[c][i] \in Units
  OBVIOUS
<1>1. toServer[c] \in Seq(Requests \cup Units) /\ Len(toServer[c]) \in Nat
  BY DEF StreamsTypeOK
<1>2. i \in 1..Len(toServer[c]) /\ 1 \in 1..Len(toServer[c]) /\ i # 1
  BY <1>1
<1>3. toServer[c][i] \in Requests \cup Units
  BY <1>1, <1>2
<1>4. ItemOK(c, i)
  BY <1>2 DEF StreamOK
<1>5. toServer[c][i].type \notin {"name", "put", "get"}
  BY <1>2, <1>4 DEF ItemOK
<1>6. toServer[c][i].type \notin CommandTypes
  BY <1>2, <1>4 DEF ItemOK, CommandTypes
<1> QED
  BY <1>3, <1>5, <1>6, RequestFacts DEF CommandTypes

(* A request turns its connection into one that carries a file. *)
LEMMA RequestKeeps ==
  ASSUME Inv, NEW c \in Conns, NEW n \in 1..Len(toServer[c]), Consume(c, n),
         near[c] = "open", toServer[c][1].type \in {"put", "get"}, UNCHANGED clientVars,
         near' = near, far' = far, toClient' = toClient, alive' = alive,
         name_map' = name_map, name_clients_map' = name_clients_map,
         \A d \in Conns \ {c} : receiving'[d] = receiving[d] /\ sending'[d] = sending[d],
         ~InUse(receiving'[c]) \/ ~InUse(sending'[c]),
         ServerTypeOK'
  PROVE  Inv'
<1>1. owner' = owner /\ uploading' = uploading /\ downloading' = downloading
  BY DEF clientVars
<1>2. /\ toServer' \in [Conns -> Seq(Requests \cup Units)]
      /\ \A d \in Conns : d # c => toServer'[d] = toServer[d]
      /\ \A d \in Conns : Len(toServer'[d]) <= Capacity
  BY ConsumeFacts DEF Inv, TypeOK
<1>3. TypeOK'
  <2>1. StreamsTypeOK'
    BY <1>2 DEF Inv, TypeOK, StreamsTypeOK
  <2> QED
    BY <2>1, ClientTypeSame DEF Inv, TypeOK
<1>4. \A d \in Conns \ {c} : UNCHANGED Near(d)
  BY <1>1, <1>2 DEF Near
<1>5. NamedOK(c) /\ StreamOK(c) /\ NearOK(c)
  BY DEF Inv, NearInv
<1>6. name_map[c] = "" /\ \A i \in 1..Len(toServer'[c]) : toServer'[c][i].type = "data"
  BY <1>5, RestFacts DEF Inv, TypeOK, CommandTypes
<1>7. StreamOK(c)'
  BY <1>6 DEF StreamOK, ItemOK, CommandTypes
<1>8. NamedOK(c)' /\ NearOK(c)'
  BY <1>6 DEF NamedOK, NearOK
<1>9. NearInv'
  BY <1>4, <1>7, <1>8, NearKept DEF Inv
<1>10. FarInv'
  BY <1>1, FarSame DEF Inv
<1>11. ProcsInv'
  BY <1>4, ReadKeepsProcs DEF CommandTypes
<1>12. NamesAgree'
  BY NamesSame DEF Inv
<1> QED
  BY <1>3, <1>9, <1>10, <1>11, <1>12 DEF Inv

LEMMA GetKeeps ==
  ASSUME Inv, NEW c \in Conns, NEW n \in 1..Len(toServer[c]), Get(c, n),
         UNCHANGED clientVars
  PROVE  Inv'
<1> DEFINE name == CommandOf(c, n).file
           info == FileInfo(name, Len(folder[name]))
<1>1. /\ Consume(c, n) /\ near[c] = "open"
      /\ sending' = [sending EXCEPT ![c] = info]
      /\ near' = near /\ far' = far /\ toClient' = toClient /\ alive' = alive
      /\ UNCHANGED tableVars
      /\ receiving' = receiving /\ folder' = folder /\ shared' = shared
  BY DEF Get, Reads, clients
<1>2. CommandOf(c, n).type = "get" /\ CommandOf(c, n) = toServer[c][1]
  BY CommandFacts DEF Get, Reads, Inv, TypeOK
<1>3. name \in Names
  BY <1>2, CommandFacts, RequestFacts DEF Inv, TypeOK
<1>4. info \in FileInfos
  <2> HIDE DEF name
  <2>1. folder[name] \in Seq(Units)
    BY <1>3 DEF Inv, TypeOK, ServerTypeOK
  <2>2. Len(folder[name]) \in Nat
    BY <2>1
  <2> QED
    BY <1>3, <2>2, FileInfoFacts
<1> HIDE DEF name, info
<1>5. /\ name_map' = name_map /\ name_clients_map' = name_clients_map
      /\ client_files' = client_files /\ fail_count' = fail_count
      /\ fd_file_map' = fd_file_map
  BY <1>1 DEF tableVars
<1>6. ServerTypeOK'
  BY <1>1, <1>4, <1>5 DEF Inv, TypeOK, ServerTypeOK
<1>7. \A d \in Conns \ {c} : receiving'[d] = receiving[d] /\ sending'[d] = sending[d]
  BY <1>1 DEF Inv, TypeOK, ServerTypeOK
<1>8. ~InUse(receiving'[c])
  BY <1>1 DEF Get, Reads
<1> QED
  BY <1>1, <1>2, <1>5, <1>6, <1>7, <1>8, RequestKeeps

LEMMA StartReceiveFacts ==
  ASSUME ServerTypeOK, NEW c \in Conns, NEW user \in Owners, NEW request,
         request.file \in Names, request.size \in Nat, NEW units \in Seq(Units),
         StartReceive(c, user, request, units)
  PROVE  /\ client_files' \in [Owners -> SUBSET Names]
         /\ fd_file_map' \in [Conns -> Owners \cup {""}]
         /\ receiving' \in [Conns -> FileInfos]
         /\ folder' \in [Names -> Seq(Units)]
         /\ \A d \in Conns \ {c} : receiving'[d] = receiving[d]
         /\ receiving'[c].file_name = StoredName(user, request.file[1])
         /\ receiving'[c].current = Len(units)
         /\ InUse(receiving'[c])
         /\ \A d \in Conns : InUse(receiving'[d]) => fd_file_map'[d] \in Owners
<1> DEFINE name == StoredName(user, request.file[1])
           info == [FileInfo(name, request.size) EXCEPT !.current = Len(units)]
<1>1. /\ HasName(user, request.file[1])
      /\ client_files' = [client_files EXCEPT ![user] = @ \cup {name}]
      /\ fd_file_map' = [fd_file_map EXCEPT ![c] = user]
      /\ receiving' = [receiving EXCEPT ![c] = info]
      /\ folder' = [folder EXCEPT ![name] = units]
  BY DEF StartReceive
<1>2. request.file[1] \in Files
  BY DEF Names
<1>3. name \in Names
  BY <1>1, <1>2, StoredNameIsNew
<1>4. info \in FileInfos /\ InUse(info) /\ info.file_name = name /\ info.current = Len(units)
  <2>1. FileInfo(name, request.size) \in FileInfos /\ InUse(FileInfo(name, request.size))
        /\ FileInfo(name, request.size).file_name = name
    BY <1>3, FileInfoFacts
  <2>2. Len(units) \in Nat
    OBVIOUS
  <2> HIDE DEF name
  <2> QED
    BY <2>1, <2>2 DEF FileInfos, InUse
<1> HIDE DEF name, info
<1>5. /\ client_files \in [Owners -> SUBSET Names] /\ receiving \in [Conns -> FileInfos]
      /\ fd_file_map \in [Conns -> Owners \cup {""}] /\ folder \in [Names -> Seq(Units)]
  BY DEF ServerTypeOK
<1>6. client_files' \in [Owners -> SUBSET Names]
  BY <1>1, <1>3, <1>5
<1>7. fd_file_map' \in [Conns -> Owners \cup {""}]
  BY <1>1, <1>5
<1>8. receiving' \in [Conns -> FileInfos] /\ receiving'[c] = info
      /\ \A d \in Conns \ {c} : receiving'[d] = receiving[d]
  BY <1>1, <1>4, <1>5
<1>9. folder' \in [Names -> Seq(Units)]
  BY <1>1, <1>5
<1>10. \A d \in Conns : InUse(receiving'[d]) => fd_file_map'[d] \in Owners
  <2>1. \A d \in Conns : fd_file_map'[d] = IF d = c THEN user ELSE fd_file_map[d]
    BY <1>1, <1>5
  <2> QED
    BY <1>8, <2>1 DEF ServerTypeOK
<1> QED
  BY <1>4, <1>6, <1>7, <1>8, <1>9, <1>10 DEF name

LEMMA PutKeeps ==
  ASSUME Inv, NEW c \in Conns, NEW n \in 1..Len(toServer[c]), Put(c, n),
         UNCHANGED clientVars
  PROVE  Inv'
<1> DEFINE request == CommandOf(c, n)
<1>1. /\ Consume(c, n) /\ near[c] = "open" /\ request.type = "put"
      /\ StartReceive(c, request.user, request, <<>>)
      /\ near' = near /\ far' = far /\ toClient' = toClient /\ alive' = alive
      /\ name_map' = name_map /\ name_clients_map' = name_clients_map
      /\ fail_count' = fail_count /\ sending' = sending /\ shared' = shared
  BY DEF Put, Reads, clients
<1>2. request = toServer[c][1] /\ toServer[c][1] \in Requests \cup Units
  BY <1>1, CommandFacts DEF Inv, TypeOK
<1>3. request.file \in Names /\ request.size \in Nat /\ request.user \in Owners
  BY <1>1, <1>2, RequestFacts, OwnersHaveNames
<1> HIDE DEF request
<1>4. <<>> \in Seq(Units)
  OBVIOUS
<1>5. /\ client_files' \in [Owners -> SUBSET Names]
      /\ fd_file_map' \in [Conns -> Owners \cup {""}]
      /\ receiving' \in [Conns -> FileInfos]
      /\ folder' \in [Names -> Seq(Units)]
      /\ \A d \in Conns \ {c} : receiving'[d] = receiving[d]
      /\ \A d \in Conns : InUse(receiving'[d]) => fd_file_map'[d] \in Owners
  BY <1>1, <1>3, <1>4, StartReceiveFacts DEF Inv, TypeOK
<1>6. ServerTypeOK'
  BY <1>1, <1>5 DEF Inv, TypeOK, ServerTypeOK
<1>7. \A d \in Conns \ {c} : receiving'[d] = receiving[d] /\ sending'[d] = sending[d]
  BY <1>1, <1>5
<1>8. ~InUse(sending'[c])
  BY <1>1 DEF Put, Reads
<1> QED
  BY <1>1, <1>2, <1>6, <1>7, <1>8, RequestKeeps

LEMMA PutWithDataKeeps ==
  ASSUME Inv, NEW c \in Conns, NEW n \in 1..Len(toServer[c]), PutWithData(c, n),
         UNCHANGED clientVars
  PROVE  Inv'
<1> DEFINE request == CommandOf(c, n)
<1>1. /\ Consume(c, n) /\ near[c] = "open" /\ request.type = "put"
      /\ near' = near /\ far' = far /\ toClient' = toClient /\ alive' = alive
      /\ name_map' = name_map /\ name_clients_map' = name_clients_map
      /\ fail_count' = fail_count /\ sending' = sending /\ shared' = shared
  BY DEF PutWithData, Reads, clients
<1>2. PICK word \in 1..(n - 1), user \in {Garbled, request.user} :
        StartReceive(c, user, request, SubSeq(toServer[c], word + 2, n))
  BY DEF PutWithData
<1>3. request = toServer[c][1] /\ toServer[c][1] \in Requests \cup Units
  BY <1>1, CommandFacts DEF Inv, TypeOK
<1>4. request.file \in Names /\ request.size \in Nat /\ request.user \in Owners
  BY <1>1, <1>3, RequestFacts, OwnersHaveNames
<1> HIDE DEF request
<1> DEFINE units == SubSeq(toServer[c], word + 2, n)
<1>5. units \in Seq(Units)
  <2>1. toServer[c] \in Seq(Requests \cup Units) /\ Len(toServer[c]) \in Nat
    BY DEF Inv, TypeOK, StreamsTypeOK
  <2>2. /\ units \in Seq(Requests \cup Units)
        /\ \A i \in 1..Len(units) :
             /\ i + word + 1 \in 2..Len(toServer[c])
             /\ units[i] = toServer[c][i + word + 1]
    BY <2>1
  <2>3. \A i \in 2..Len(toServer[c]) : toServer[c][i] \in Units
    BY <1>1, <1>3, TailIsData DEF Inv, TypeOK, NearInv
  <2> HIDE DEF units
  <2> QED
    BY <2>2, <2>3, ItemsGiveSeq
<1>6. user \in Owners
  BY <1>2, <1>4 DEF Owners
<1> HIDE DEF units
<1>7. StartReceive(c, user, request, units)
  BY <1>2 DEF units
<1>8. /\ client_files' \in [Owners -> SUBSET Names]
      /\ fd_file_map' \in [Conns -> Owners \cup {""}]
      /\ receiving' \in [Conns -> FileInfos]
      /\ folder' \in [Names -> Seq(Units)]
      /\ \A d \in Conns \ {c} : receiving'[d] = receiving[d]
      /\ \A d \in Conns : InUse(receiving'[d]) => fd_file_map'[d] \in Owners
  BY <1>4, <1>5, <1>6, <1>7, StartReceiveFacts DEF Inv, TypeOK
<1>9. fail_count' \in [Conns -> Nat]
  BY <1>1 DEF Inv, TypeOK, ServerTypeOK
<1>10. ServerTypeOK'
  BY <1>1, <1>8, <1>9 DEF Inv, TypeOK, ServerTypeOK
<1>11. \A d \in Conns \ {c} : receiving'[d] = receiving[d] /\ sending'[d] = sending[d]
  BY <1>1, <1>8
<1>12. ~InUse(sending'[c])
  BY <1>1 DEF PutWithData, Reads
<1> QED
  BY <1>1, <1>3, <1>10, <1>11, <1>12, RequestKeeps

-----------------------------------------------------------------------------
(* The server: transfers *)

(* What a connection carries that uploads or downloads. *)
LEMMA BusyFacts ==
  ASSUME Inv, NEW c \in Conns, InUse(receiving[c]) \/ InUse(sending[c])
  PROVE  /\ ~Idle(c) /\ name_map[c] = "" /\ near[c] = "open"
         /\ \A i \in 1..Len(toServer[c]) :
              toServer[c][i].type = "data" /\ toServer[c][i] \in Units
<1>1. ~Idle(c)
  BY DEF Idle
<1>2. NamedOK(c) /\ StreamOK(c) /\ NearOK(c)
  BY DEF Inv, NearInv
<1>3. name_map[c] = "" /\ near[c] = "open"
  BY <1>1, <1>2 DEF NamedOK, NearOK
<1>4. ASSUME NEW i \in 1..Len(toServer[c])
      PROVE  toServer[c][i].type = "data" /\ toServer[c][i] \in Units
  <2>1. toServer[c] \in Seq(Requests \cup Units)
    BY DEF Inv, TypeOK, StreamsTypeOK
  <2>2. toServer[c][i] \in Requests \cup Units
    BY <2>1
  <2>3. toServer[c][i].type \notin CommandTypes \cup {"name", "put", "get"}
    BY <1>1, <1>2 DEF StreamOK, ItemOK
  <2> QED
    BY <2>2, <2>3, RequestFacts DEF CommandTypes
<1> QED
  BY <1>1, <1>3, <1>4

(* The server goes on with a transfer. *)
LEMMA TransferGoesOn ==
  ASSUME Inv, NEW c \in Conns, InUse(receiving[c]) \/ InUse(sending[c]),
         UNCHANGED clientVars, near' = near,
         name_map' = name_map, name_clients_map' = name_clients_map,
         \A d \in Conns \ {c} : UNCHANGED <<toServer[d], receiving[d], sending[d]>>,
         \A i \in 1..Len(toServer'[c]) :
           \E j \in 1..Len(toServer[c]) : toServer'[c][i] = toServer[c][j],
         ~InUse(receiving'[c]) \/ ~InUse(sending'[c]),
         StreamsTypeOK', ServerTypeOK', FarInv'
  PROVE  Inv'
<1>1. owner' = owner /\ uploading' = uploading /\ downloading' = downloading
  BY DEF clientVars
<1>2. \A d \in Conns \ {c} : UNCHANGED Near(d)
  BY <1>1 DEF Near
<1>3. /\ ~Idle(c) /\ name_map[c] = "" /\ near[c] = "open"
      /\ \A i \in 1..Len(toServer[c]) : toServer[c][i].type = "data"
  BY BusyFacts
<1>4. \A i \in 1..Len(toServer'[c]) : toServer'[c][i].type = "data"
  BY <1>3
<1>5. StreamOK(c)'
  BY <1>3, <1>4 DEF StreamOK, ItemOK, CommandTypes
<1>6. NamedOK(c)' /\ NearOK(c)'
  BY <1>3 DEF NamedOK, NearOK
<1>7. NearInv'
  BY <1>2, <1>5, <1>6, NearKept DEF Inv
<1>8. ProcsInv'
  BY <1>2, <1>3, ProcsKept DEF Inv
<1>9. NamesAgree'
  BY NamesSame DEF Inv
<1> QED
  BY <1>7, <1>8, <1>9, ClientTypeSame DEF Inv, TypeOK

(* The server closes a connection at the end of a transfer. *)
LEMMA TransferIsOver ==
  ASSUME Inv, NEW c \in Conns, InUse(receiving[c]) \/ InUse(sending[c]),
         UNCHANGED clientVars, CloseNear(c),
         name_map' = name_map, name_clients_map' = name_clients_map,
         ~InUse(receiving'[c]) /\ ~InUse(sending'[c]),
         \A d \in Conns \ {c} : receiving'[d] = receiving[d] /\ sending'[d] = sending[d],
         StreamsTypeOK', ServerTypeOK', FarInv'
  PROVE  Inv'
<1>1. owner' = owner /\ uploading' = uploading /\ downloading' = downloading
  BY DEF clientVars
<1>2. /\ near'[c] = "closed" /\ Len(toServer'[c]) = 0
      /\ \A d \in Conns : d # c => near'[d] = near[d] /\ toServer'[d] = toServer[d]
  BY CloseNearFacts DEF Inv, TypeOK
<1>3. \A d \in Conns \ {c} : UNCHANGED Near(d)
  BY <1>1, <1>2 DEF Near
<1>4. ~Idle(c) /\ name_map[c] = ""
  BY BusyFacts
<1>5. NamedOK(c)' /\ StreamOK(c)' /\ NearOK(c)'
  <2>1. StreamOK(c)'
    BY <1>2 DEF StreamOK
  <2>2. NamedOK(c)' /\ NearOK(c)'
    BY <1>4 DEF NamedOK, NearOK
  <2> QED
    BY <2>1, <2>2
<1>6. NearInv'
  BY <1>3, <1>5, NearKept DEF Inv
<1>7. ProcsInv'
  BY <1>3, <1>4, ProcsKept DEF Inv
<1>8. NamesAgree'
  <2> SUFFICES ASSUME NEW u \in Owners
               PROVE  name_clients_map[u] = {d \in clients' : name_map[d] = u}
    BY DEF NamesAgree
  <2>1. clients' = clients \ {c}
    BY <1>2 DEF clients
  <2>2. name_clients_map[u] = {d \in clients : name_map[d] = u}
    BY DEF Inv, NamesAgree
  <2> QED
    BY <1>4, <2>1, <2>2, OwnersHaveNames
<1> QED
  BY <1>6, <1>7, <1>8, ClientTypeSame DEF Inv, TypeOK

(* What is read of an upload is written to its file. *)
LEMMA ReadsDataFacts ==
  ASSUME Inv, NEW c \in Conns, NEW n \in 0..Chunk, ReadsData(c, n)
  PROVE  /\ InUse(receiving[c]) /\ receiving[c].file_name \in Names
         /\ receiving[c] \in FileInfos
         /\ n \in 0..Len(toServer[c])
         /\ folder' \in [Names -> Seq(Units)]
<1> DEFINE info == receiving[c]
           name == info.file_name
           items == First(toServer[c], n)
<1>1. /\ InUse(info) /\ n \in 0..Lesser(Chunk, Len(toServer[c]))
      /\ folder' = [folder EXCEPT ![name] = WriteAt(@, info.current, items)]
  BY DEF ReadsData
<1>2. info \in FileInfos
  BY DEF Inv, TypeOK, ServerTypeOK
<1>3. name \in Names /\ info.current \in Nat
  BY <1>1, <1>2, InUseFacts
<1>4. toServer[c] \in Seq(Requests \cup Units) /\ Len(toServer[c]) \in Nat
  BY DEF Inv, TypeOK, StreamsTypeOK
<1>5. n \in Nat /\ n <= Len(toServer[c])
  BY <1>1, <1>4, BoundsFacts, LesserFacts
<1>6. items \in Seq(Units)
  <2>1. /\ items \in Seq(Requests \cup Units)
        /\ \A i \in 1..Len(items) : i \in 1..Len(toServer[c]) /\ items[i] = toServer[c][i]
    BY <1>4, <1>5, FirstFacts
  <2>2. \A i \in 1..Len(toServer[c]) : toServer[c][i] \in Units
    BY <1>1, BusyFacts
  <2> HIDE DEF items
  <2> QED
    BY <2>1, <2>2, ItemsGiveSeq
<1> HIDE DEF items, name
<1>7. folder \in [Names -> Seq(Units)]
  BY DEF Inv, TypeOK, ServerTypeOK
<1>8. WriteAt(folder[name], info.current, items) \in Seq(Units)
  BY <1>3, <1>6, <1>7, WriteAtFacts
<1>9. folder' \in [Names -> Seq(Units)]
  BY <1>1, <1>3, <1>7, <1>8
<1> QED
  BY <1>1, <1>2, <1>3, <1>5, <1>9 DEF name

LEMMA CountFacts ==
  ASSUME ServerTypeOK, NEW c \in Conns, NEW n \in Nat, CountEmpty(c, n)
  PROVE  fail_count' \in [Conns -> Nat]
<1>1. fail_count \in [Conns -> Nat]
  BY DEF ServerTypeOK
<1>2. CASE n > 0
  BY <1>1, <1>2 DEF CountEmpty
<1>3. CASE ~(n > 0)
  <2>1. (fail_count[c] + 1) % 3 \in Nat
    <3>1. fail_count[c] \in Nat
      BY <1>1
    <3> QED
      BY <3>1
  <2>2. fail_count' = [fail_count EXCEPT ![c] = (@ + 1) % 3]
    BY <1>3 DEF CountEmpty
  <2> QED
    BY <1>1, <2>1, <2>2
<1> QED
  BY <1>2, <1>3

LEMMA ReceiveMoreKeeps ==
  ASSUME Inv, NEW c \in Conns, NEW n \in 0..Chunk, ReceiveMore(c, n), UNCHANGED clientVars
  PROVE  Inv'
<1> DEFINE m == IF n = 0 THEN Len(toServer[c]) ELSE n
           info == [receiving[c] EXCEPT !.current = @ + n]
<1>1. /\ ReadsData(c, n) /\ CountEmpty(c, n) /\ Consume(c, m)
      /\ receiving' = [receiving EXCEPT ![c].current = @ + n]
      /\ near' = near /\ far' = far /\ toClient' = toClient /\ alive' = alive
      /\ name_map' = name_map /\ name_clients_map' = name_clients_map
      /\ client_files' = client_files /\ fd_file_map' = fd_file_map
      /\ sending' = sending /\ shared' = shared
  BY DEF ReceiveMore
<1>2. /\ InUse(receiving[c]) /\ receiving[c] \in FileInfos
      /\ n \in 0..Len(toServer[c]) /\ folder' \in [Names -> Seq(Units)]
  BY <1>1, ReadsDataFacts
<1>3. n \in Nat /\ m \in 0..Len(toServer[c])
  <2>1. Len(toServer[c]) \in Nat
    BY DEF Inv, TypeOK, StreamsTypeOK
  <2> QED
    BY <1>2, <2>1
<1>4. info \in FileInfos /\ InUse(info)
  BY <1>2, <1>3, MovedFacts
<1> HIDE DEF m, info
<1>5. receiving' = [receiving EXCEPT ![c] = info]
  BY <1>1 DEF info
<1>6. fail_count' \in [Conns -> Nat]
  BY <1>1, <1>3, CountFacts DEF Inv, TypeOK
<1>7. /\ receiving' \in [Conns -> FileInfos] /\ receiving'[c] = info
      /\ \A d \in Conns \ {c} : receiving'[d] = receiving[d]
  BY <1>4, <1>5 DEF Inv, TypeOK, ServerTypeOK
<1>8. ServerTypeOK'
  BY <1>1, <1>2, <1>6, <1>7 DEF Inv, TypeOK, ServerTypeOK
<1>9. /\ toServer' \in [Conns -> Seq(Requests \cup Units)]
      /\ \A d \in Conns : d # c => toServer'[d] = toServer[d]
      /\ \A d \in Conns : Len(toServer'[d]) <= Capacity
      /\ \A i \in 1..Len(toServer'[c]) :
           i + m \in 1..Len(toServer[c]) /\ toServer'[c][i] = toServer[c][i + m]
  BY <1>1, <1>3, ConsumeFacts DEF Inv, TypeOK
<1>10. StreamsTypeOK'
  BY <1>1, <1>9 DEF Inv, TypeOK, StreamsTypeOK
<1>11. FarInv'
  BY <1>1, FarSame DEF Inv, clientVars
<1>12. \A d \in Conns \ {c} : UNCHANGED <<toServer[d], receiving[d], sending[d]>>
  BY <1>1, <1>7, <1>9
<1>13. ~InUse(sending'[c])
  BY <1>1, <1>2 DEF Inv, NearInv, NearOK
<1> QED
  BY <1>13, <1>1, <1>2, <1>8, <1>9, <1>10, <1>11, <1>12, TransferGoesOn

LEMMA FinishReceiveKeeps ==
  ASSUME Inv, NEW c \in Conns, NEW n \in 0..Chunk, FinishReceive(c, n), UNCHANGED clientVars
  PROVE  Inv'
<1> DEFINE info == receiving[c]
           user == fd_file_map[c]
           S == name_clients_map[user]
           line == PutLine(info.file_name, Len(folder'[info.file_name]), user)
<1>1. /\ ReadsData(c, n) /\ CountEmpty(c, n) /\ CloseNear(c)
      /\ receiving' = [receiving EXCEPT ![c] = NoFile]
      /\ name_map' = name_map /\ name_clients_map' = name_clients_map
      /\ client_files' = client_files /\ fd_file_map' = fd_file_map
      /\ sending' = sending
  BY DEF FinishReceive
<1>2. \/ Write(S, <<line>>, FALSE) /\ shared' = shared \cup {info.file_name}
      \/ toClient' = toClient /\ far' = far /\ alive' = alive /\ shared' = shared
  BY DEF FinishReceive
<1>3. /\ InUse(info) /\ info.file_name \in Names
      /\ n \in 0..Len(toServer[c]) /\ folder' \in [Names -> Seq(Units)]
  BY <1>1, ReadsDataFacts
<1>4. user \in Owners /\ user # ""
  BY <1>3, OwnersHaveNames DEF Inv, TypeOK, ServerTypeOK
<1>5. S \in SUBSET Conns
  BY <1>4 DEF Inv, TypeOK, ServerTypeOK
<1>6. <<line>> \in Seq(Notices \cup Units)
  <2>1. Len(folder'[info.file_name]) \in Nat
    BY <1>3
  <2>2. line \in Notices
    BY <1>3, <1>4, <2>1, LineFacts
  <2> QED
    BY <2>2
<1>7. \A d \in S : ~InUse(downloading[d])
  <2> SUFFICES ASSUME NEW d \in S PROVE ~InUse(downloading[d])
    OBVIOUS
  <2>1. d \in Conns /\ name_map[d] = user
    BY <1>4 DEF Inv, NamesAgree, clients
  <2>2. NamedOK(d)
    BY <2>1 DEF Inv, NearInv
  <2> QED
    BY <1>4, <2>1, <2>2 DEF NamedOK, Idle
<1> HIDE DEF info, user, S, line
<1>8. fail_count' \in [Conns -> Nat]
  BY <1>1, CountFacts DEF Inv, TypeOK
<1>9. /\ receiving' \in [Conns -> FileInfos] /\ ~InUse(receiving'[c])
      /\ \A d \in Conns \ {c} : receiving'[d] = receiving[d]
  BY <1>1, NoFileFacts DEF Inv, TypeOK, ServerTypeOK
<1>10. shared' \subseteq Names
  BY <1>2, <1>3 DEF Inv, TypeOK, ServerTypeOK
<1>11. ServerTypeOK'
  BY <1>1, <1>3, <1>8, <1>9, <1>10 DEF Inv, TypeOK, ServerTypeOK
<1>12. /\ near' \in [Conns -> {"closed", "pending", "open"}]
       /\ toServer' \in [Conns -> Seq(Requests \cup Units)]
       /\ \A d \in Conns : Len(toServer'[d]) <= Capacity
  BY <1>1, CloseNearFacts DEF Inv, TypeOK
<1>13. /\ toClient' \in [Conns -> Seq(Notices \cup Units)]
       /\ \A d \in Conns : Len(toClient'[d]) <= Capacity
       /\ far' \in [Conns -> {"closed", "open", "reset"}]
       /\ alive' \in BOOLEAN
  <2>1. CASE Write(S, <<line>>, FALSE)
    BY <1>5, <1>6, <2>1, WriteFacts DEF Inv, TypeOK
  <2>2. CASE toClient' = toClient /\ far' = far /\ alive' = alive
    BY <2>2 DEF Inv, TypeOK, StreamsTypeOK
  <2> QED
    BY <1>2, <2>1, <2>2
<1>14. StreamsTypeOK'
  BY <1>12, <1>13 DEF StreamsTypeOK
<1>15. FarInv'
  <2>1. CASE Write(S, <<line>>, FALSE)
    BY <1>5, <1>6, <1>7, <2>1, FarWritten DEF Inv, TypeOK
  <2>2. CASE toClient' = toClient /\ far' = far /\ alive' = alive
    BY <2>2, FarSame DEF Inv, clientVars
  <2> QED
    BY <1>2, <2>1, <2>2
<1>16. ~InUse(sending'[c])
  BY <1>1, <1>3 DEF Inv, NearInv, NearOK, info
<1> QED
  BY <1>1, <1>3, <1>9, <1>11, <1>14, <1>15, <1>16, TransferIsOver DEF info

LEMMA SendChunkKeeps ==
  ASSUME Inv, NEW c \in Conns, SendChunk(c), UNCHANGED clientVars
  PROVE  Inv'
<1> DEFINE info == sending[c]
           units == NextUnits(folder[info.file_name], info)
           S == IF units = <<>> THEN {} ELSE {c}
<1>1. /\ InUse(info)
      /\ sending' = [sending EXCEPT ![c] = AfterRead(info, units)]
      /\ Write(S, units, FALSE)
      /\ near' = near /\ toServer' = toServer /\ receiving' = receiving
      /\ folder' = folder /\ shared' = shared
      /\ UNCHANGED tableVars
  BY DEF SendChunk
<1>2. info \in FileInfos /\ info.file_name \in Names
  BY <1>1, InUseFacts DEF Inv, TypeOK, ServerTypeOK
<1>3. folder[info.file_name] \in Seq(Units)
  BY <1>2 DEF Inv, TypeOK, ServerTypeOK
<1>4. /\ units \in Seq(Units)
      /\ AfterRead(info, units) \in FileInfos
      /\ InUse(AfterRead(info, units))
  BY <1>1, <1>2, <1>3, NextUnitsFacts
<1>5. S \in SUBSET Conns
  OBVIOUS
<1> HIDE DEF info, units, S
<1>6. units \in Seq(Notices \cup Units)
  BY <1>4
<1>7. /\ toClient' \in [Conns -> Seq(Notices \cup Units)]
      /\ \A d \in Conns : Len(toClient'[d]) <= Capacity
      /\ far' \in [Conns -> {"closed", "open", "reset"}]
      /\ alive' \in BOOLEAN
  BY <1>1, <1>5, <1>6, WriteFacts DEF Inv, TypeOK
<1>8. StreamsTypeOK'
  BY <1>1, <1>7 DEF Inv, TypeOK, StreamsTypeOK
<1>9. /\ name_map' = name_map /\ name_clients_map' = name_clients_map
      /\ client_files' = client_files /\ fail_count' = fail_count
      /\ fd_file_map' = fd_file_map
  BY <1>1 DEF tableVars
<1>10. /\ sending' \in [Conns -> FileInfos]
       /\ \A d \in Conns \ {c} : sending'[d] = sending[d]
  BY <1>1, <1>4 DEF Inv, TypeOK, ServerTypeOK
<1>11. ServerTypeOK'
  BY <1>1, <1>9, <1>10 DEF Inv, TypeOK, ServerTypeOK
<1>12. FarInv'
  BY <1>1, <1>4, <1>5, <1>6, FarWritten DEF Inv, TypeOK
<1>13. InUse(sending[c]) /\ ~InUse(receiving[c])
  BY <1>1 DEF info, Inv, NearInv, NearOK
<1>14. \A d \in Conns \ {c} : UNCHANGED <<toServer[d], receiving[d], sending[d]>>
  BY <1>1, <1>10
<1>15. \A i \in 1..Len(toServer'[c]) :
         \E j \in 1..Len(toServer[c]) : toServer'[c][i] = toServer[c][j]
  BY <1>1
<1> QED
  BY <1>1, <1>8, <1>9, <1>11, <1>12, <1>13, <1>14, <1>15, TransferGoesOn

LEMMA FinishSendKeeps ==
  ASSUME Inv, NEW c \in Conns, FinishSend(c), UNCHANGED clientVars
  PROVE  Inv'
<1>1. /\ InUse(sending[c]) /\ CloseNear(c)
      /\ sending' = [sending EXCEPT ![c] = NoFile]
      /\ far' = far /\ toClient' = toClient /\ alive' = alive
      /\ receiving' = receiving /\ folder' = folder /\ shared' = shared
      /\ UNCHANGED tableVars
  BY DEF FinishSend
<1>2. /\ name_map' = name_map /\ name_clients_map' = name_clients_map
      /\ client_files' = client_files /\ fail_count' = fail_count
      /\ fd_file_map' = fd_file_map
  BY <1>1 DEF tableVars
<1>3. /\ near' \in [Conns -> {"closed", "pending", "open"}]
      /\ toServer' \in [Conns -> Seq(Requests \cup Units)]
      /\ \A d \in Conns : Len(toServer'[d]) <= Capacity
  BY <1>1, CloseNearFacts DEF Inv, TypeOK
<1>4. StreamsTypeOK'
  BY <1>1, <1>3 DEF Inv, TypeOK, StreamsTypeOK
<1>5. /\ sending' \in [Conns -> FileInfos] /\ ~InUse(sending'[c])
      /\ \A d \in Conns \ {c} : sending'[d] = sending[d]
  BY <1>1, NoFileFacts DEF Inv, TypeOK, ServerTypeOK
<1>6. ServerTypeOK'
  BY <1>1, <1>2, <1>5 DEF Inv, TypeOK, ServerTypeOK
<1>7. FarInv'
  BY <1>1, FarSame DEF Inv, clientVars
<1>8. ~InUse(receiving'[c])
  BY <1>1 DEF Inv, NearInv, NearOK
<1> QED
  BY <1>1, <1>2, <1>4, <1>5, <1>6, <1>7, <1>8, TransferIsOver

LEMMA ServerKeeps ==
  ASSUME Inv, NEW c \in Conns, Server(c)
  PROVE  Inv'
<1>1. CASE Accept(c)
  BY <1>1, AcceptKeeps DEF Server
<1>2. CASE Hangup(c)
  BY <1>2, HangupKeeps DEF Server
<1>3. ASSUME NEW n \in 1..Len(toServer[c]),
             \/ Leave(c, n) \/ Ignore(c, n) \/ Name(c, n)
             \/ Get(c, n) \/ Put(c, n) \/ PutWithData(c, n)
      PROVE  Inv'
  BY <1>3, LeaveKeeps, IgnoreKeeps, NameKeeps, GetKeeps, PutKeeps, PutWithDataKeeps
     DEF Server
<1>4. ASSUME NEW n \in 0..Chunk, ReceiveMore(c, n) \/ FinishReceive(c, n)
      PROVE  Inv'
  BY <1>4, ReceiveMoreKeeps, FinishReceiveKeeps DEF Server
<1>5. CASE SendFile(c)
  BY <1>5, SendChunkKeeps, FinishSendKeeps DEF Server, SendFile
<1> QED
  BY <1>1, <1>2, <1>3, <1>4, <1>5 DEF Server, ServerStep, HandleClient, ReceiveFile

-----------------------------------------------------------------------------
(* The clients: what their steps have in common *)

(* No connection is both fresh and anybody's. *)
LEMMA FreshFacts ==
  ASSUME Inv, Usable # {}
  PROVE  /\ Fresh \in Conns /\ near[Fresh] = "closed" /\ owner[Fresh] = NoProc
         /\ Idle(Fresh) /\ name_map[Fresh] = "" /\ Len(toClient[Fresh]) = 0
         /\ \A p \in Procs : state[p] = "connected" => fd_cmd[p] # Fresh
<1>1. Fresh \in Conns /\ near[Fresh] = "closed" /\ far[Fresh] # "open"
  BY FreshIsUsable DEF Usable
<1> DEFINE k == Fresh
<1> HIDE DEF k
<1>2. k \in Conns /\ near[k] = "closed" /\ far[k] # "open"
  BY <1>1 DEF k
<1>3. FarOK(k) /\ NearOK(k)
  BY <1>2 DEF Inv, FarInv, NearInv
<1>4. owner[k] = NoProc /\ ~InUse(uploading[k]) /\ ~InUse(downloading[k])
  BY <1>2, <1>3 DEF FarOK
<1>5. ~InUse(receiving[k]) /\ ~InUse(sending[k]) /\ name_map[k] = ""
  BY <1>2, <1>3 DEF NearOK
<1>6. Len(toClient[k]) = 0
  <2>1. toClient[k] = <<>>
    BY <1>2, <1>3 DEF FarOK
  <2> QED
    BY <2>1
<1>7. ASSUME NEW p \in Procs, state[p] = "connected" PROVE fd_cmd[p] # k
  <2>1. owner[fd_cmd[p]] = p
    BY <1>7 DEF Inv, ProcsInv, ProcOK
  <2> QED
    BY <1>4, <2>1, DropboxClientAssumption DEF DropboxClientAssumption, NoProc
<1> QED
  BY <1>2, <1>4, <1>5, <1>6, <1>7 DEF Idle, k

(* A connection is opened, and the first line is written to it. *)
LEMMA OpenFacts ==
  ASSUME Inv, NEW p \in Procs, NEW line \in Requests, Open(p, line)
  PROVE  /\ Usable # {} /\ near'[Fresh] = "pending" /\ far'[Fresh] = "open"
         /\ owner'[Fresh] = p /\ Len(toServer'[Fresh]) = 1 /\ toServer'[Fresh][1] = line
         /\ \A d \in Conns : d # Fresh =>
              near'[d] = near[d] /\ far'[d] = far[d]
              /\ owner'[d] = owner[d] /\ toServer'[d] = toServer[d]
         /\ near' \in [Conns -> {"closed", "pending", "open"}]
         /\ far' \in [Conns -> {"closed", "open", "reset"}]
         /\ toServer' \in [Conns -> Seq(Requests \cup Units)]
         /\ \A d \in Conns : Len(toServer'[d]) <= Capacity
         /\ owner' \in [Conns -> Procs \cup {NoProc}]
<1> DEFINE k == Fresh
<1>1. /\ Usable # {}
      /\ near' = [near EXCEPT ![k] = "pending"] /\ far' = [far EXCEPT ![k] = "open"]
      /\ toServer' = [toServer EXCEPT ![k] = <<line>>] /\ owner' = [owner EXCEPT ![k] = p]
  BY DEF Open
<1>2. k \in Conns
  BY <1>1, FreshFacts
<1> HIDE DEF k
<1>3. /\ near \in [Conns -> {"closed", "pending", "open"}]
      /\ far \in [Conns -> {"closed", "open", "reset"}]
      /\ toServer \in [Conns -> Seq(Requests \cup Units)]
      /\ owner \in [Conns -> Procs \cup {NoProc}]
  BY DEF Inv, TypeOK, StreamsTypeOK, ClientTypeOK
<1>4. \A d \in Conns : Len(toServer[d]) <= Capacity
  BY DEF Inv, TypeOK, StreamsTypeOK
<1>5. /\ near'[k] = "pending" /\ \A d \in Conns : d # k => near'[d] = near[d]
      /\ near' \in [Conns -> {"closed", "pending", "open"}]
  BY <1>1, <1>2, <1>3
<1>6. /\ far'[k] = "open" /\ \A d \in Conns : d # k => far'[d] = far[d]
      /\ far' \in [Conns -> {"closed", "open", "reset"}]
  BY <1>1, <1>2, <1>3
<1>7. /\ owner'[k] = p /\ \A d \in Conns : d # k => owner'[d] = owner[d]
      /\ owner' \in [Conns -> Procs \cup {NoProc}]
  BY <1>1, <1>2, <1>3
<1>8. <<line>> \in Seq(Requests \cup Units) /\ Len(<<line>>) = 1 /\ <<line>>[1] = line
  OBVIOUS
<1>9. /\ toServer'[k] = <<line>> /\ \A d \in Conns : d # k => toServer'[d] = toServer[d]
      /\ toServer' \in [Conns -> Seq(Requests \cup Units)]
  BY <1>1, <1>2, <1>3, <1>8
<1>10. \A d \in Conns : Len(toServer'[d]) <= Capacity
  <2>1. Len(toServer'[k]) = 1
    BY <1>8, <1>9
  <2>2. \A d \in Conns : d # k => toServer'[d] = toServer[d]
    BY <1>9
  <2>3. 1 <= Capacity
    BY BoundsFacts
  <2> QED
    BY <1>4, <2>1, <2>2, <2>3
<1> QED
  BY <1>1, <1>5, <1>6, <1>7, <1>8, <1>9, <1>10 DEF k

(* What is left in the connections of a client that has read from some. *)
LeavesPart ==
  /\ toClient' \in [Conns -> Seq(Notices \cup Units)]
  /\ \A d \in Conns :
       /\ Len(toClient'[d]) <= Len(toClient[d])
       /\ \A i \in 1..Len(toClient'[d]) :
            \E j \in 1..Len(toClient[d]) : toClient'[d][i] = toClient[d][j]

(* A connection that is opened is in order, whatever it is opened for.         *)
LEMMA OpenKeeps ==
  ASSUME Inv, NEW p \in Procs, NEW line \in Requests, Open(p, line),
         line.type \in {"name", "put", "get"},
         UNCHANGED serverVars, alive' = alive, LeavesPart, ClientTypeOK',
         \A d \in Conns : d # Fresh =>
           uploading'[d] = uploading[d] /\ downloading'[d] = downloading[d],
         line.type = "name" => ~InUse(uploading'[Fresh]) /\ ~InUse(downloading'[Fresh]),
         ~InUse(uploading'[Fresh]) \/ ~InUse(downloading'[Fresh]),
         ProcsInv'
  PROVE  Inv'
<1>1. PICK k :
      /\ k = Fresh
      /\ Usable # {} /\ near'[k] = "pending" /\ far'[k] = "open"
      /\ owner'[k] = p /\ Len(toServer'[k]) = 1 /\ toServer'[k][1] = line
      /\ \A d \in Conns : d # k =>
           near'[d] = near[d] /\ far'[d] = far[d]
           /\ owner'[d] = owner[d] /\ toServer'[d] = toServer[d]
      /\ near' \in [Conns -> {"closed", "pending", "open"}]
      /\ far' \in [Conns -> {"closed", "open", "reset"}]
      /\ toServer' \in [Conns -> Seq(Requests \cup Units)]
      /\ \A d \in Conns : Len(toServer'[d]) <= Capacity
  BY OpenFacts
<1>2. /\ k \in Conns /\ near[k] = "closed" /\ owner[k] = NoProc
      /\ Idle(k) /\ name_map[k] = "" /\ Len(toClient[k]) = 0
  BY <1>1, FreshFacts
<1>3. /\ \A d \in Conns : d # k =>
           uploading'[d] = uploading[d] /\ downloading'[d] = downloading[d]
      /\ line.type = "name" => ~InUse(uploading'[k]) /\ ~InUse(downloading'[k])
      /\ ~InUse(uploading'[k]) \/ ~InUse(downloading'[k])
  BY <1>1
<1>4. /\ name_map' = name_map /\ name_clients_map' = name_clients_map
      /\ client_files' = client_files /\ fail_count' = fail_count
      /\ fd_file_map' = fd_file_map /\ receiving' = receiving /\ sending' = sending
      /\ folder' = folder /\ shared' = shared
  BY DEF serverVars, tableVars
<1>5. TypeOK'
  <2>1. ServerTypeOK'
    BY <1>4 DEF Inv, TypeOK, ServerTypeOK
  <2>2. \A d \in Conns : Len(toClient'[d]) <= Capacity
    <3> SUFFICES ASSUME NEW d \in Conns PROVE Len(toClient'[d]) <= Capacity
      OBVIOUS
    <3>1. Len(toClient'[d]) <= Len(toClient[d]) /\ Len(toClient[d]) <= Capacity
      BY DEF LeavesPart, Inv, TypeOK, StreamsTypeOK
    <3>2. Len(toClient[d]) \in Nat /\ Len(toClient'[d]) \in Nat
      BY DEF LeavesPart, Inv, TypeOK, StreamsTypeOK
    <3> QED
      BY <3>1, <3>2, BoundsFacts
  <2>3. toClient' \in [Conns -> Seq(Notices \cup Units)]
    BY DEF LeavesPart
  <2>4. StreamsTypeOK'
    BY <1>1, <2>2, <2>3 DEF Inv, TypeOK, StreamsTypeOK
  <2> QED
    BY <2>1, <2>4 DEF TypeOK
<1>6. \A d \in Conns \ {k} : UNCHANGED Near(d)
  BY <1>1, <1>3, <1>4 DEF Near
<1>7. NamedOK(k)' /\ NearOK(k)'
  BY <1>2, <1>4 DEF NamedOK, NearOK, Idle
<1>8. StreamOK(k)'
  <2> SUFFICES ASSUME NEW i \in 1..Len(toServer'[k]) PROVE ItemOK(k, i)'
    BY DEF StreamOK
  <2>1. i = 1 /\ toServer'[k][i] = line
    BY <1>1
  <2>2. \A j \in 1..Len(toServer'[k]) : toServer'[k][j] = line
    BY <1>1
  <2>3. ~InUse(receiving'[k]) /\ ~InUse(sending'[k]) /\ name_map'[k] = ""
    BY <1>2, <1>4 DEF Idle
  <2>4. line.type \in CommandTypes => Idle(k)'
    BY <1>3, <2>3 DEF Idle, CommandTypes
  <2> QED
    BY <2>1, <2>2, <2>3, <2>4 DEF ItemOK
<1>9. NearInv'
  BY <1>2, <1>6, <1>7, <1>8, NearKept DEF Inv
<1>10. FarInv'
  <2> SUFFICES ASSUME NEW d \in Conns PROVE FarOK(d)' /\ DataOK(d)'
    BY DEF FarInv
  <2>1. FarOK(d) /\ DataOK(d)
    BY DEF Inv, FarInv
  <2>2. /\ Len(toClient'[d]) <= Len(toClient[d])
        /\ \A i \in 1..Len(toClient'[d]) :
             \E j \in 1..Len(toClient[d]) : toClient'[d][i] = toClient[d][j]
        /\ Len(toClient'[d]) \in Nat
    BY DEF LeavesPart
  <2>3. CASE d = k
    <3>1. Len(toClient'[k]) = 0
      <4>1. Len(toClient[d]) = 0
        BY <1>2, <2>3
      <4>2. Len(toClient'[d]) = 0
        BY <2>2, <4>1
      <4> QED
        BY <2>3, <4>2
    <3>2. DataOK(k)'
      <4>1. \A i \in 1..Len(toClient'[k]) : FALSE
        BY <3>1
      <4> QED
        BY <4>1 DEF DataOK
    <3>3. p # NoProc
      BY DropboxClientAssumption DEF DropboxClientAssumption, NoProc
    <3>4. FarOK(k)'
      BY <1>1, <1>3, <3>3 DEF FarOK
    <3> QED
      BY <2>3, <3>2, <3>4
  <2>4. CASE d # k
    <3>1. far'[d] = far[d] /\ owner'[d] = owner[d]
          /\ uploading'[d] = uploading[d] /\ downloading'[d] = downloading[d]
      BY <1>1, <1>3, <2>4
    <3>2. DataOK(d)'
      <4>1. CASE InUse(downloading[d])
        <5>1. \A j \in 1..Len(toClient[d]) : toClient[d][j].type = "data"
          BY <2>1, <4>1 DEF DataOK
        <5>2. \A i \in 1..Len(toClient'[d]) : toClient'[d][i].type = "data"
          BY <2>2, <5>1
        <5> QED
          BY <5>2 DEF DataOK
      <4>2. CASE ~InUse(downloading[d])
        BY <3>1, <4>2 DEF DataOK
      <4> QED
        BY <4>1, <4>2
    <3>3. ASSUME far[d] # "open" PROVE toClient'[d] = <<>>
      <4>1. toClient[d] = <<>>
        BY <2>1, <3>3 DEF FarOK
      <4>2. Len(toClient'[d]) = 0
        BY <2>2, <4>1
      <4>3. toClient'[d] \in Seq(Notices \cup Units)
        BY DEF LeavesPart
      <4> QED
        BY <4>2, <4>3
    <3>4. FarOK(d)'
      BY <2>1, <3>1, <3>3 DEF FarOK
    <3> QED
      BY <3>2, <3>4
  <2> QED
    BY <2>3, <2>4
<1>11. NamesAgree'
  <2>1. \A d \in Conns : near[d] = "open" <=> near'[d] = "open"
    BY <1>1, <1>2
  <2> QED
    BY <1>4, <2>1 DEF Inv, NamesAgree, clients
<1> QED
  BY <1>5, <1>9, <1>10, <1>11 DEF Inv

(* What a client may add to a connection: commands to one for commands, data   *)
(* to one that carries a file.                                                 *)
Adds(c) ==
  \A i \in 1..Len(toServer'[c]) :
    \/ i \in 1..Len(toServer[c]) /\ toServer'[c][i] = toServer[c][i]
    \/ /\ toServer'[c][i].type \in {"sleep", "exit"}
       /\ Idle(c) /\ \A j \in 1..Len(toServer[c]) : toServer[c][j].type \in CommandTypes
    \/ toServer'[c][i].type = "data" /\ ~Idle(c)

(* A step of a client that opens no connection: it begins no transfer.         *)
LEMMA ClientKeeps ==
  ASSUME Inv, UNCHANGED serverVars, near' = near,
         \A c \in Conns :
           /\ InUse(uploading'[c]) => InUse(uploading[c])
           /\ InUse(downloading'[c]) => InUse(downloading[c])
           /\ Adds(c),
         \A p \in Procs : state'[p] = "connected" =>
           /\ state[p] = "connected" /\ fd_cmd'[p] = fd_cmd[p]
           /\ owner'[fd_cmd[p]] = owner[fd_cmd[p]],
         StreamsTypeOK', ClientTypeOK', FarInv'
  PROVE  Inv'
<1>1. /\ name_map' = name_map /\ name_clients_map' = name_clients_map
      /\ client_files' = client_files /\ fail_count' = fail_count
      /\ fd_file_map' = fd_file_map /\ receiving' = receiving /\ sending' = sending
      /\ folder' = folder /\ shared' = shared
  BY DEF serverVars, tableVars
<1>2. ServerTypeOK'
  BY <1>1 DEF Inv, TypeOK, ServerTypeOK
<1>3. \A c \in Conns : Idle(c) => Idle(c)'
  BY <1>1 DEF Idle
<1>4. ASSUME NEW c \in Conns
      PROVE  NamedOK(c)' /\ StreamOK(c)' /\ NearOK(c)'
  <2>1. NamedOK(c) /\ StreamOK(c) /\ NearOK(c) /\ Adds(c)
    BY DEF Inv, NearInv
  <2>2. NamedOK(c)' /\ NearOK(c)'
    BY <1>1, <1>3, <2>1 DEF NamedOK, NearOK
  <2>3. ASSUME NEW i \in 1..Len(toServer'[c])
        PROVE  ItemOK(c, i)'
    <3>1. CASE i \in 1..Len(toServer[c]) /\ toServer'[c][i] = toServer[c][i]
      <4>1. ItemOK(c, i)
        BY <2>1, <3>1 DEF StreamOK
      <4>2. toServer[c][i].type \in CommandTypes =>
              \A j \in 1..Len(toServer'[c]) : toServer'[c][j].type \in CommandTypes
        BY <2>1, <4>1 DEF Adds, ItemOK, CommandTypes
      <4> QED
        BY <1>1, <1>3, <3>1, <4>1, <4>2 DEF ItemOK
    <3>2. CASE toServer'[c][i].type \in {"sleep", "exit"} /\ Idle(c)
               /\ \A j \in 1..Len(toServer[c]) : toServer[c][j].type \in CommandTypes
      <4>1. \A j \in 1..Len(toServer'[c]) : toServer'[c][j].type \in CommandTypes
        BY <2>1, <3>2 DEF Adds, CommandTypes
      <4> QED
        BY <1>3, <3>2, <4>1 DEF ItemOK, CommandTypes
    <3>3. CASE toServer'[c][i].type = "data" /\ ~Idle(c)
      <4>1. name_map'[c] = ""
        BY <1>1, <2>1, <3>3 DEF NamedOK
      <4> QED
        BY <3>3, <4>1 DEF ItemOK, CommandTypes
    <3> QED
      BY <2>1, <3>1, <3>2, <3>3 DEF Adds
  <2>4. StreamOK(c)'
    BY <2>3 DEF StreamOK
  <2> QED
    BY <2>2, <2>4
<1>5. NearInv'
  BY <1>4 DEF NearInv
<1>6. ProcsInv'
  <2> SUFFICES ASSUME NEW p \in Procs, state'[p] = "connected" PROVE ProcOK(p)'
    BY DEF ProcsInv, ProcOK
  <2>1. PICK k : k = fd_cmd[p]
    OBVIOUS
  <2>2. /\ fd_cmd'[p] = k /\ owner'[k] = p /\ k \in Conns /\ Idle(k)
        /\ \A i \in 1..Len(toServer[k]) : toServer[k][i].type \in CommandTypes
    BY <2>1 DEF Inv, ProcsInv, ProcOK
  <2>3. Idle(k)' /\ Adds(k)
    BY <1>3, <2>2
  <2>4. \A i \in 1..Len(toServer'[k]) : toServer'[k][i].type \in CommandTypes
    BY <2>2, <2>3 DEF Adds, CommandTypes
  <2> QED
    BY <2>2, <2>3, <2>4 DEF ProcOK
<1>7. NamesAgree'
  BY <1>1, NamesSame DEF Inv
<1> QED
  BY <1>2, <1>5, <1>6, <1>7 DEF Inv, TypeOK

LEMMA AddsNone ==
  ASSUME toServer' = toServer, NEW c
  PROVE  Adds(c)
  BY DEF Adds

(* A client closes connections. *)
LEMMA ReleaseFacts ==
  ASSUME Inv, NEW S \in SUBSET Conns, NEW unread, Release(S, unread),
         \A c \in Conns :
           IF c \in S THEN ~InUse(uploading'[c]) /\ ~InUse(downloading'[c])
           ELSE uploading'[c] = uploading[c] /\ downloading'[c] = downloading[c]
  PROVE  /\ FarInv'
         /\ far' \in [Conns -> {"closed", "open", "reset"}]
         /\ toClient' \in [Conns -> Seq(Notices \cup Units)]
         /\ \A c \in Conns : Len(toClient'[c]) <= Capacity
         /\ owner' \in [Conns -> Procs \cup {NoProc}]
         /\ \A c \in Conns \ S : owner'[c] = owner[c]
<1>1. PICK R \in SUBSET (S \cap unread) :
        far' = [c \in Conns |->
                  IF c \in R THEN "reset" ELSE IF c \in S THEN "closed" ELSE far[c]]
  BY DEF Release, CloseFar
<1>2. toClient' = [c \in Conns |-> IF c \in S THEN <<>> ELSE toClient[c]]
  BY DEF Release, CloseFar
<1>3. owner' = [c \in Conns |-> IF c \in S THEN NoProc ELSE owner[c]]
  BY DEF Release
<1>4. /\ far \in [Conns -> {"closed", "open", "reset"}]
      /\ owner \in [Conns -> Procs \cup {NoProc}]
  BY DEF Inv, TypeOK, StreamsTypeOK, ClientTypeOK
<1>5. /\ toClient \in [Conns -> Seq(Notices \cup Units)]
      /\ \A c \in Conns : Len(toClient[c]) <= Capacity
  BY DEF Inv, TypeOK, StreamsTypeOK
<1>6. far' \in [Conns -> {"closed", "open", "reset"}]
  BY <1>1, <1>4
<1>7. /\ owner' \in [Conns -> Procs \cup {NoProc}]
      /\ \A c \in Conns \ S : owner'[c] = owner[c]
      /\ \A c \in S : owner'[c] = NoProc
  BY <1>3, <1>4
<1>8. /\ \A c \in Conns \ S : toClient'[c] = toClient[c]
      /\ \A c \in S : toClient'[c] = <<>>
  BY <1>2
<1>9. toClient' \in [Conns -> Seq(Notices \cup Units)]
  BY <1>2, <1>5
<1>10. \A c \in Conns : Len(toClient'[c]) <= Capacity
  <2>1. \A c \in S : Len(toClient'[c]) = 0
    BY <1>8
  <2>2. \A c \in Conns \ S : Len(toClient'[c]) <= Capacity
    BY <1>5, <1>8
  <2>3. \A c \in S : Len(toClient'[c]) <= Capacity
    BY <2>1, BoundsFacts
  <2> QED
    BY <2>2, <2>3
<1>11. ASSUME NEW c \in Conns PROVE FarOK(c)' /\ DataOK(c)'
  <2>1. FarOK(c) /\ DataOK(c)
    BY DEF Inv, FarInv
  <2>2. CASE c \in S
    <3>1. far'[c] # "open" /\ owner'[c] = NoProc
      BY <1>1, <1>7, <2>2
    <3>2. toClient'[c] = <<>>
      BY <1>8, <2>2
    <3> QED
      BY <2>2, <3>1, <3>2 DEF FarOK, DataOK
  <2>3. CASE c \notin S
    <3>1. /\ far'[c] = far[c] /\ owner'[c] = owner[c] /\ toClient'[c] = toClient[c]
          /\ uploading'[c] = uploading[c] /\ downloading'[c] = downloading[c]
      BY <1>1, <1>7, <1>8, <2>3
    <3> QED
      BY <2>1, <3>1 DEF FarOK, DataOK
  <2> QED
    BY <2>2, <2>3
<1> QED
  BY <1>6, <1>7, <1>9, <1>10, <1>11 DEF FarInv

(* A client that only reads from its connections keeps them. *)
LEMMA FarRead ==
  ASSUME Inv, far' = far, owner' = owner, LeavesPart,
         \A c \in Conns :
           /\ InUse(uploading'[c]) => InUse(uploading[c])
           /\ InUse(downloading'[c]) => InUse(downloading[c])
  PROVE  FarInv' /\ \A c \in Conns : Len(toClient'[c]) <= Capacity
<1> SUFFICES ASSUME NEW c \in Conns
             PROVE  FarOK(c)' /\ DataOK(c)' /\ Len(toClient'[c]) <= Capacity
  BY DEF FarInv
<1>1. /\ Len(toClient'[c]) <= Len(toClient[c])
      /\ \A i \in 1..Len(toClient'[c]) :
           \E j \in 1..Len(toClient[c]) : toClient'[c][i] = toClient[c][j]
      /\ Len(toClient'[c]) \in Nat
  BY DEF LeavesPart
<1>2. Len(toClient[c]) <= Capacity /\ Len(toClient[c]) \in Nat
  BY DEF Inv, TypeOK, StreamsTypeOK
<1>3. Len(toClient'[c]) <= Capacity
  BY <1>1, <1>2, BoundsFacts
<1>4. FarOK(c) /\ DataOK(c)
  BY DEF Inv, FarInv
<1>5. ASSUME far[c] # "open" PROVE toClient'[c] = <<>>
  <2>1. toClient[c] = <<>>
    BY <1>4, <1>5 DEF FarOK
  <2>2. Len(toClient'[c]) = 0
    BY <1>1, <2>1
  <2>3. toClient'[c] \in Seq(Notices \cup Units)
    BY DEF LeavesPart
  <2> QED
    BY <2>2, <2>3
<1>6. FarOK(c)'
  BY <1>4, <1>5 DEF FarOK
<1>7. DataOK(c)'
  <2>1. CASE InUse(downloading[c])
    <3>1. \A j \in 1..Len(toClient[c]) : toClient[c][j].type = "data"
      BY <1>4, <2>1 DEF DataOK
    <3>2. \A i \in 1..Len(toClient'[c]) : toClient'[c][i].type = "data"
      BY <1>1, <3>1
    <3> QED
      BY <3>2 DEF DataOK
  <2>2. CASE ~InUse(downloading[c])
    BY <2>2 DEF DataOK
  <2> QED
    BY <2>1, <2>2
<1> QED
  BY <1>3, <1>6, <1>7

(* n items at the head of a connection are read by its client. *)
LEMMA ReadLeavesPart ==
  ASSUME StreamsTypeOK, NEW c \in Conns, NEW n \in 0..Len(toClient[c]),
         toClient' = [toClient EXCEPT ![c] = AllBut(@, n)]
  PROVE  LeavesPart
<1>1. toClient \in [Conns -> Seq(Notices \cup Units)] /\ toClient[c] \in Seq(Notices \cup Units)
      /\ Len(toClient[c]) \in Nat
  BY DEF StreamsTypeOK
<1>2. /\ AllBut(toClient[c], n) \in Seq(Notices \cup Units)
      /\ Len(AllBut(toClient[c], n)) = Len(toClient[c]) - n
      /\ \A i \in 1..Len(AllBut(toClient[c], n)) :
           i + n \in 1..Len(toClient[c]) /\ AllBut(toClient[c], n)[i] = toClient[c][i + n]
  BY <1>1, AllButFacts
<1>3. toClient'[c] = AllBut(toClient[c], n)
  BY <1>1
<1> HIDE DEF AllBut
<1>4. \A d \in Conns : d # c => toClient'[d] = toClient[d]
  BY <1>1
<1>5. toClient' \in [Conns -> Seq(Notices \cup Units)]
  BY <1>1, <1>2
<1>6. Len(toClient'[c]) <= Len(toClient[c])
  BY <1>1, <1>2, <1>3
<1>7. \A i \in 1..Len(toClient'[c]) :
        \E j \in 1..Len(toClient[c]) : toClient'[c][i] = toClient[c][j]
  BY <1>2, <1>3
<1>8. \A d \in Conns : d # c => Len(toClient'[d]) <= Len(toClient[d])
  BY <1>1, <1>4
<1>9. ASSUME NEW d \in Conns, d # c
      PROVE  \A i \in 1..Len(toClient'[d]) :
               \E j \in 1..Len(toClient[d]) : toClient'[d][i] = toClient[d][j]
  BY <1>4, <1>9
<1> QED
  BY <1>5, <1>6, <1>7, <1>8, <1>9 DEF LeavesPart

LEMMA LeavesAll ==
  ASSUME StreamsTypeOK, toClient' = toClient
  PROVE  LeavesPart
<1>1. toClient \in [Conns -> Seq(Notices \cup Units)]
  BY DEF StreamsTypeOK
<1>2. \A d \in Conns : Len(toClient[d]) <= Len(toClient[d])
  BY <1>1
<1> QED
  BY <1>1, <1>2 DEF LeavesPart

(* Opening a connection leaves the processes theirs. *)
LEMMA OthersKept ==
  ASSUME Inv, NEW p \in Procs, NEW line \in Requests, Open(p, line), UNCHANGED serverVars,
         \A d \in Conns : d # Fresh =>
           uploading'[d] = uploading[d] /\ downloading'[d] = downloading[d],
         NEW q \in Procs, state[q] = "connected", fd_cmd'[q] = fd_cmd[q]
  PROVE  ProcOK(q)'
<1>1. PICK k : k = fd_cmd[q]
  OBVIOUS
<1>2. ProcOK(q) /\ k \in Conns
  BY <1>1 DEF Inv, ProcsInv, ProcOK
<1>3. /\ Usable # {}
      /\ \A d \in Conns : d # Fresh =>
           near'[d] = near[d] /\ owner'[d] = owner[d] /\ toServer'[d] = toServer[d]
  BY OpenFacts
<1>4. k # Fresh
  BY <1>1, <1>3, FreshFacts
<1>5. name_map' = name_map /\ receiving' = receiving /\ sending' = sending
  BY DEF serverVars, tableVars
<1>6. UNCHANGED Near(k) /\ owner'[k] = owner[k]
  BY <1>2, <1>3, <1>4, <1>5 DEF Near
<1> QED
  BY <1>1, <1>2, <1>6, ProcSame

-----------------------------------------------------------------------------
(* The clients: connections are opened *)

LEMMA StartKeeps ==
  ASSUME Inv, NEW p \in Procs, Start(p), UNCHANGED serverVars, alive' = alive
  PROVE  Inv'
<1> DEFINE line == [type |-> "name", user |-> UserOf[p]]
<1>1. /\ state[p] = "new" /\ Open(p, line)
      /\ state' = [state EXCEPT ![p] = "connected"]
      /\ fd_cmd' = [fd_cmd EXCEPT ![p] = Fresh]
      /\ toClient' = toClient /\ local_files' = local_files /\ uploading' = uploading
      /\ downloading' = downloading /\ disk' = disk /\ puts' = puts
  BY DEF Start
<1>2. line \in Requests /\ line.type = "name"
  BY LineFacts, DropboxAssumption DEF DropboxAssumption
<1> HIDE DEF line
<1>3. PICK k :
      /\ k = Fresh /\ Usable # {}
      /\ owner'[k] = p /\ Len(toServer'[k]) = 1 /\ toServer'[k][1] = line
      /\ owner' \in [Conns -> Procs \cup {NoProc}]
  BY <1>1, <1>2, OpenFacts
<1>4. k \in Conns /\ Idle(k)
  BY <1>3, FreshFacts
<1>5. ClientTypeOK'
  BY <1>1, <1>3, <1>4 DEF Inv, TypeOK, ClientTypeOK
<1>6. ProcsInv'
  <2> SUFFICES ASSUME NEW q \in Procs, state'[q] = "connected" PROVE ProcOK(q)'
    BY DEF ProcsInv, ProcOK
  <2>1. CASE q = p
    <3>1. fd_cmd'[p] = k
      BY <1>1, <1>3 DEF Inv, TypeOK, ClientTypeOK
    <3>2. Idle(k)'
      BY <1>1, <1>4 DEF Idle, serverVars
    <3>3. \A i \in 1..Len(toServer'[k]) : toServer'[k][i].type \in CommandTypes
      BY <1>2, <1>3 DEF CommandTypes
    <3> QED
      BY <1>3, <1>4, <2>1, <3>1, <3>2, <3>3 DEF ProcOK
  <2>2. CASE q # p
    <3>1. state[q] = "connected" /\ fd_cmd'[q] = fd_cmd[q]
      BY <1>1, <2>2 DEF Inv, TypeOK, ClientTypeOK
    <3> QED
      BY <1>1, <1>2, <3>1, OthersKept
  <2> QED
    BY <2>1, <2>2
<1>7. ~InUse(uploading'[Fresh]) /\ ~InUse(downloading'[Fresh])
  BY <1>1, <1>3, <1>4 DEF Idle
<1>8. LeavesPart
  BY <1>1, LeavesAll DEF Inv, TypeOK
<1> QED
  BY <1>1, <1>2, <1>5, <1>6, <1>7, <1>8, OpenKeeps

LEMMA TypePutKeeps ==
  ASSUME Inv, NEW p \in Procs, NEW f \in Files, TypePut(p, f),
         UNCHANGED serverVars, alive' = alive
  PROVE  Inv'
<1> DEFINE name == <<f, 0>>
           size == Len(disk[p][name])
           line == PutLine(name, size, UserOf[p])
           info == FileInfo(name, size)
<1>1. /\ Open(p, line) /\ puts <= MaxCopies /\ puts' = puts + 1
      /\ uploading' = [uploading EXCEPT ![Fresh] = info]
      /\ local_files' = [local_files EXCEPT ![p] = @ \cup {name}]
      /\ toClient' = toClient /\ state' = state /\ fd_cmd' = fd_cmd
      /\ downloading' = downloading /\ disk' = disk
  BY DEF TypePut
<1>2. name \in Names
  BY BoundsFacts DEF Names
<1> HIDE DEF name
<1>3. size \in Nat
  <2>1. disk[p][name] \in Seq(Units)
    BY <1>2 DEF Inv, TypeOK, ClientTypeOK
  <2> QED
    BY <2>1
<1> HIDE DEF size
<1>4. line \in Requests /\ line.type = "put"
  BY <1>2, <1>3, LineFacts, DropboxAssumption DEF DropboxAssumption, PutLine
<1>5. info \in FileInfos
  BY <1>2, <1>3, FileInfoFacts
<1> HIDE DEF line, info
<1>6. PICK k : k = Fresh /\ Usable # {} /\ owner' \in [Conns -> Procs \cup {NoProc}]
  BY <1>1, <1>4, OpenFacts
<1>7. k \in Conns
  BY <1>6, FreshFacts
<1>8. /\ uploading' \in [Conns -> FileInfos]
      /\ \A d \in Conns : d # k => uploading'[d] = uploading[d]
  BY <1>1, <1>5, <1>6, <1>7 DEF Inv, TypeOK, ClientTypeOK
<1>9. local_files' \in [Procs -> SUBSET Names]
  BY <1>1, <1>2 DEF Inv, TypeOK, ClientTypeOK
<1>10. puts' \in 0..MaxCopies + 1
  BY <1>1, BoundsFacts DEF Inv, TypeOK, ClientTypeOK
<1>11. ClientTypeOK'
  BY <1>1, <1>6, <1>8, <1>9, <1>10 DEF Inv, TypeOK, ClientTypeOK
<1>12. \A d \in Conns : d # Fresh =>
         uploading'[d] = uploading[d] /\ downloading'[d] = downloading[d]
  BY <1>1, <1>6, <1>8
<1>13. ProcsInv'
  <2> SUFFICES ASSUME NEW q \in Procs, state'[q] = "connected" PROVE ProcOK(q)'
    BY DEF ProcsInv, ProcOK
  <2> QED
    BY <1>1, <1>4, <1>12, OthersKept
<1>14. LeavesPart
  BY <1>1, LeavesAll DEF Inv, TypeOK
<1>15. ~InUse(downloading'[Fresh])
  BY <1>1, <1>6, FreshFacts DEF Idle
<1> QED
  BY <1>1, <1>4, <1>11, <1>12, <1>13, <1>14, <1>15, OpenKeeps

(* What a client reads on its command connection. *)
LEMMA ResponseFacts ==
  ASSUME Inv, NEW p \in Procs, NEW n \in 1..Capacity, Response(p, n)
  PROVE  /\ LeavesPart /\ fd_cmd[p] \in Conns
         /\ Head(toClient[fd_cmd[p]]) \in Notices \cup Units
<1>1. PICK k : k = fd_cmd[p]
  OBVIOUS
<1>2. /\ state[p] = "connected" /\ n \in 1..Len(toClient[k])
      /\ toClient' = [toClient EXCEPT ![k] = AllBut(@, n)]
  BY <1>1 DEF Response
<1>3. k \in Conns
  BY <1>1, <1>2 DEF Inv, ProcsInv, ProcOK
<1>4. toClient[k] \in Seq(Notices \cup Units) /\ Len(toClient[k]) \in Nat
  BY <1>3 DEF Inv, TypeOK, StreamsTypeOK
<1>5. n \in 0..Len(toClient[k])
  BY <1>2, <1>4
<1>6. LeavesPart
  BY <1>2, <1>3, <1>5, ReadLeavesPart DEF Inv, TypeOK
<1>7. toClient[k] # <<>>
  <2>1. Len(toClient[k]) # 0
    BY <1>2, <1>4
  <2> QED
    BY <2>1
<1>8. Head(toClient[k]) \in Notices \cup Units
  BY <1>4, <1>7
<1> QED
  BY <1>1, <1>3, <1>6, <1>8

LEMMA ReadNewKeeps ==
  ASSUME Inv, NEW p \in Procs, NEW n \in 1..Capacity, ReadNew(p, n),
         UNCHANGED serverVars, alive' = alive
  PROVE  Inv'
<1> DEFINE head == Head(toClient[fd_cmd[p]])
           name == head.file
           line == [type |-> "get", file |-> name]
           info == FileInfo(name, head.size)
<1>1. /\ Response(p, n) /\ head.type = "put" /\ Open(p, line)
      /\ downloading' = [downloading EXCEPT ![Fresh] = info]
      /\ local_files' = [local_files EXCEPT ![p] = @ \cup {name}]
      /\ disk' = [disk EXCEPT ![p][name] = <<>>]
      /\ state' = state /\ fd_cmd' = fd_cmd /\ uploading' = uploading /\ puts' = puts
  BY DEF ReadNew
<1>2. LeavesPart /\ head \in Notices \cup Units
  BY <1>1, ResponseFacts
<1> HIDE DEF head
<1>3. name \in Names /\ head.size \in Nat
  BY <1>1, <1>2, NoticeFacts
<1> HIDE DEF name
<1>4. line \in Requests /\ line.type = "get"
  BY <1>3, LineFacts
<1>5. info \in FileInfos
  BY <1>3, FileInfoFacts
<1> HIDE DEF line, info
<1>6. PICK k : k = Fresh /\ Usable # {} /\ owner' \in [Conns -> Procs \cup {NoProc}]
  BY <1>1, <1>4, OpenFacts
<1>7. k \in Conns
  BY <1>6, FreshFacts
<1>8. /\ downloading' \in [Conns -> FileInfos]
      /\ \A d \in Conns : d # k => downloading'[d] = downloading[d]
  BY <1>1, <1>5, <1>6, <1>7 DEF Inv, TypeOK, ClientTypeOK
<1>9. local_files' \in [Procs -> SUBSET Names]
  BY <1>1, <1>3 DEF Inv, TypeOK, ClientTypeOK
<1>10. disk' \in [Procs -> [Names -> Seq(Units)]]
  <2>1. disk \in [Procs -> [Names -> Seq(Units)]]
    BY DEF Inv, TypeOK, ClientTypeOK
  <2>2. PICK none \in Seq(Units) : none = <<>>
    <3>1. <<>> \in Seq(Units)
      OBVIOUS
    <3> QED
      BY <3>1, Zenon
  <2>3. [disk[p] EXCEPT ![name] = none] \in [Names -> Seq(Units)]
    BY <1>3, <2>1, <2>2
  <2>4. disk' = [disk EXCEPT ![p] = [disk[p] EXCEPT ![name] = none]]
    BY <1>1, <2>1, <2>2
  <2> QED
    BY <2>1, <2>3, <2>4
<1>11. ClientTypeOK'
  BY <1>1, <1>6, <1>8, <1>9, <1>10 DEF Inv, TypeOK, ClientTypeOK
<1>12. \A d \in Conns : d # Fresh =>
         uploading'[d] = uploading[d] /\ downloading'[d] = downloading[d]
  BY <1>1, <1>6, <1>8
<1>13. ProcsInv'
  <2> SUFFICES ASSUME NEW q \in Procs, state'[q] = "connected" PROVE ProcOK(q)'
    BY DEF ProcsInv, ProcOK
  <2> QED
    BY <1>1, <1>4, <1>12, OthersKept
<1>14. ~InUse(uploading'[Fresh])
  BY <1>1, <1>6, FreshFacts DEF Idle
<1> QED
  BY <1>1, <1>2, <1>4, <1>11, <1>12, <1>13, <1>14, OpenKeeps

-----------------------------------------------------------------------------
(* The clients: other steps *)

LEMMA ReadKnownKeeps ==
  ASSUME Inv, NEW p \in Procs, NEW n \in 1..Capacity, ReadKnown(p, n),
         UNCHANGED serverVars, alive' = alive
  PROVE  Inv'
<1>1. /\ Response(p, n) /\ near' = near /\ far' = far /\ toServer' = toServer
      /\ UNCHANGED clientVars
  BY DEF ReadKnown
<1>2. /\ owner' = owner /\ uploading' = uploading /\ downloading' = downloading
      /\ state' = state /\ fd_cmd' = fd_cmd
  BY <1>1 DEF clientVars
<1>3. LeavesPart
  BY <1>1, ResponseFacts
<1>4. FarInv' /\ \A c \in Conns : Len(toClient'[c]) <= Capacity
  BY <1>1, <1>2, <1>3, FarRead
<1>5. StreamsTypeOK'
  BY <1>1, <1>3, <1>4 DEF LeavesPart, Inv, TypeOK, StreamsTypeOK
<1>6. ClientTypeOK'
  BY <1>1, ClientTypeSame DEF Inv, TypeOK
<1>7. \A c \in Conns : Adds(c)
  BY <1>1, AddsNone
<1> QED
  BY <1>1, <1>2, <1>4, <1>5, <1>6, <1>7, ClientKeeps

(* What the user types is written to the command connection. *)
LEMMA TellFacts ==
  ASSUME Inv, NEW p \in Procs, state[p] = "connected", NEW type \in {"sleep", "exit"},
         Tell(p, type)
  PROVE  /\ toServer' \in [Conns -> Seq(Requests \cup Units)]
         /\ \A c \in Conns : Len(toServer'[c]) <= Capacity /\ Adds(c)
<1>1. PICK k : k = fd_cmd[p]
  OBVIOUS
<1> DEFINE line == [type |-> type]
<1>2. PICK items : items = <<line>>
  OBVIOUS
<1>3. line \in Requests /\ line.type \in {"sleep", "exit"}
  BY LineFacts
<1>4. items \in Seq(Requests \cup Units) /\ Len(items) = 1 /\ items[1] = line
  BY <1>2, <1>3
<1>5. toServer' = [toServer EXCEPT ![k] = Fit(@, items)]
  BY <1>1, <1>2 DEF Tell
<1> HIDE DEF line
<1>6. /\ k \in Conns /\ Idle(k)
      /\ \A i \in 1..Len(toServer[k]) : toServer[k][i].type \in CommandTypes
  BY <1>1 DEF Inv, ProcsInv, ProcOK
<1>7. /\ toServer \in [Conns -> Seq(Requests \cup Units)]
      /\ \A c \in Conns : Len(toServer[c]) <= Capacity
  BY DEF Inv, TypeOK, StreamsTypeOK
<1>8. toServer[k] \in Seq(Requests \cup Units) /\ Len(toServer[k]) <= Capacity
  BY <1>6, <1>7
<1>9. /\ Fit(toServer[k], items) \in Seq(Requests \cup Units)
      /\ Len(Fit(toServer[k], items)) <= Capacity
      /\ \A i \in 1..Len(Fit(toServer[k], items)) :
           \/ i \in 1..Len(toServer[k]) /\ Fit(toServer[k], items)[i] = toServer[k][i]
           \/ /\ i - Len(toServer[k]) \in 1..Len(items)
              /\ Fit(toServer[k], items)[i] = items[i - Len(toServer[k])]
  BY <1>4, <1>8, FitFacts
<1>10. toServer'[k] = Fit(toServer[k], items)
  BY <1>5, <1>6, <1>7
<1> HIDE DEF Fit
<1>11. \A c \in Conns : c # k => toServer'[c] = toServer[c]
  BY <1>5, <1>7
<1>12. toServer' \in [Conns -> Seq(Requests \cup Units)]
  BY <1>5, <1>7, <1>9
<1>13. \A c \in Conns : Len(toServer'[c]) <= Capacity
  BY <1>7, <1>9, <1>10, <1>11
<1>14. \A i \in 1..Len(items) : items[i].type \in {"sleep", "exit"}
  BY <1>3, <1>4
<1>15. Adds(k)
  BY <1>6, <1>9, <1>10, <1>14 DEF Adds
<1>16. \A c \in Conns : c # k => Adds(c)
  BY <1>11 DEF Adds
<1> QED
  BY <1>12, <1>13, <1>15, <1>16

LEMMA TypeSleepKeeps ==
  ASSUME Inv, NEW p \in Procs, TypeSleep(p), UNCHANGED serverVars, alive' = alive
  PROVE  Inv'
<1>1. /\ state[p] = "connected" /\ Tell(p, "sleep")
      /\ near' = near /\ far' = far /\ toClient' = toClient /\ UNCHANGED clientVars
  BY DEF TypeSleep
<1>2. /\ owner' = owner /\ uploading' = uploading /\ downloading' = downloading
      /\ state' = state /\ fd_cmd' = fd_cmd
  BY <1>1 DEF clientVars
<1>3. /\ toServer' \in [Conns -> Seq(Requests \cup Units)]
      /\ \A c \in Conns : Len(toServer'[c]) <= Capacity /\ Adds(c)
  BY <1>1, TellFacts
<1>4. StreamsTypeOK'
  BY <1>1, <1>3 DEF Inv, TypeOK, StreamsTypeOK
<1>5. ClientTypeOK'
  BY <1>1, ClientTypeSame DEF Inv, TypeOK
<1>6. FarInv'
  BY <1>1, <1>2, FarSame DEF Inv
<1> QED
  BY <1>1, <1>2, <1>3, <1>4, <1>5, <1>6, ClientKeeps

(* A process ends, having told the server something or not. *)
LEMMA DieKeeps ==
  ASSUME Inv, NEW p \in Procs, Die(p), UNCHANGED serverVars, alive' = alive,
         toServer' \in [Conns -> Seq(Requests \cup Units)],
         \A c \in Conns : Len(toServer'[c]) <= Capacity /\ Adds(c)
  PROVE  Inv'
<1> DEFINE S == Mine(p)
           unread == {c \in Conns : toClient[c] # <<>>}
<1>1. /\ state' = [state EXCEPT ![p] = "gone"]
      /\ fd_cmd' = [fd_cmd EXCEPT ![p] = NoConn]
      /\ uploading' = [c \in Conns |-> IF c \in S THEN NoFile ELSE uploading[c]]
      /\ downloading' = [c \in Conns |-> IF c \in S THEN NoFile ELSE downloading[c]]
      /\ Release(S, unread)
      /\ near' = near /\ local_files' = local_files /\ disk' = disk /\ puts' = puts
  BY DEF Die
<1>2. S \in SUBSET Conns /\ \A c \in Conns : c \in S <=> owner[c] = p
  BY DEF Mine
<1> HIDE DEF S, unread
<1>3. \A c \in Conns :
        IF c \in S THEN ~InUse(uploading'[c]) /\ ~InUse(downloading'[c])
        ELSE uploading'[c] = uploading[c] /\ downloading'[c] = downloading[c]
  BY <1>1, NoFileFacts
<1>4. /\ FarInv'
      /\ far' \in [Conns -> {"closed", "open", "reset"}]
      /\ toClient' \in [Conns -> Seq(Notices \cup Units)]
      /\ \A c \in Conns : Len(toClient'[c]) <= Capacity
      /\ owner' \in [Conns -> Procs \cup {NoProc}]
      /\ \A c \in Conns \ S : owner'[c] = owner[c]
  BY <1>1, <1>2, <1>3, ReleaseFacts
<1>5. StreamsTypeOK'
  BY <1>1, <1>4 DEF Inv, TypeOK, StreamsTypeOK
<1>6. uploading' \in [Conns -> FileInfos] /\ downloading' \in [Conns -> FileInfos]
  BY <1>1, NoFileFacts DEF Inv, TypeOK, ClientTypeOK
<1>7. ClientTypeOK'
  BY <1>1, <1>4, <1>6 DEF Inv, TypeOK, ClientTypeOK
<1>8. \A c \in Conns :
        /\ InUse(uploading'[c]) => InUse(uploading[c])
        /\ InUse(downloading'[c]) => InUse(downloading[c])
        /\ Adds(c)
  BY <1>3
<1>9. ASSUME NEW q \in Procs, state'[q] = "connected"
      PROVE  /\ state[q] = "connected" /\ fd_cmd'[q] = fd_cmd[q]
             /\ owner'[fd_cmd[q]] = owner[fd_cmd[q]]
  <2>1. q # p /\ state[q] = "connected" /\ fd_cmd'[q] = fd_cmd[q]
    BY <1>1, <1>9 DEF Inv, TypeOK, ClientTypeOK
  <2>2. fd_cmd[q] \in Conns /\ owner[fd_cmd[q]] = q
    BY <2>1 DEF Inv, ProcsInv, ProcOK
  <2> QED
    BY <1>2, <1>4, <2>1, <2>2
<1> QED
  BY <1>1, <1>4, <1>5, <1>7, <1>8, <1>9, ClientKeeps

(* A process ends without a word. *)
LEMMA SilentDeathKeeps ==
  ASSUME Inv, NEW p \in Procs, Die(p), UNCHANGED serverVars, alive' = alive,
         toServer' = toServer
  PROVE  Inv'
<1>1. \A c \in Conns : Adds(c)
  BY AddsNone
<1>2. /\ toServer' \in [Conns -> Seq(Requests \cup Units)]
      /\ \A c \in Conns : Len(toServer'[c]) <= Capacity
  BY DEF Inv, TypeOK, StreamsTypeOK
<1> QED
  BY <1>1, <1>2, DieKeeps

LEMMA TypeExitKeeps ==
  ASSUME Inv, NEW p \in Procs, TypeExit(p), UNCHANGED serverVars, alive' = alive
  PROVE  Inv'
  BY TellFacts, DieKeeps DEF TypeExit

LEMMA KilledKeeps ==
  ASSUME Inv, NEW p \in Procs, Killed(p), UNCHANGED serverVars, alive' = alive
  PROVE  Inv'
  BY SilentDeathKeeps DEF Killed

(* Who transfers a file is a process. *)
LEMMA OwnerFacts ==
  ASSUME Inv, NEW c \in Conns, InUse(uploading[c]) \/ InUse(downloading[c])
  PROVE  owner[c] \in Procs
  BY DEF Inv, FarInv, FarOK, TypeOK, ClientTypeOK

LEMMA DivideByZeroKeeps ==
  ASSUME Inv, NEW c \in Conns, DivideByZero(c), UNCHANGED serverVars, alive' = alive
  PROVE  Inv'
  BY OwnerFacts, SilentDeathKeeps DEF DivideByZero

-----------------------------------------------------------------------------
(* The clients: transfers *)

LEMMA UploadChunkKeeps ==
  ASSUME Inv, NEW c \in Conns, UploadChunk(c), UNCHANGED serverVars, alive' = alive
  PROVE  Inv'
<1> DEFINE info == uploading[c]
           units == NextUnits(disk[owner[c]][info.file_name], info)
<1>1. /\ InUse(info)
      /\ uploading' = [uploading EXCEPT ![c] = AfterRead(info, units)]
      /\ toServer' = [toServer EXCEPT ![c] = Fit(@, units)]
      /\ near' = near /\ far' = far /\ toClient' = toClient /\ state' = state
      /\ owner' = owner /\ fd_cmd' = fd_cmd /\ local_files' = local_files
      /\ downloading' = downloading /\ disk' = disk /\ puts' = puts
  BY DEF UploadChunk
<1>2. info \in FileInfos /\ info.file_name \in Names
  BY <1>1, InUseFacts DEF Inv, TypeOK, ClientTypeOK
<1>3. owner[c] \in Procs
  BY <1>1, OwnerFacts
<1>4. disk[owner[c]][info.file_name] \in Seq(Units)
  BY <1>2, <1>3 DEF Inv, TypeOK, ClientTypeOK
<1>5. /\ units \in Seq(Units)
      /\ AfterRead(info, units) \in FileInfos
  BY <1>2, <1>4, NextUnitsFacts
<1>6. ~Idle(c)
  BY <1>1 DEF Idle
<1>7. uploading' \in [Conns -> FileInfos] /\ \A d \in Conns : d # c => uploading'[d] = uploading[d]
  BY <1>1, <1>5 DEF Inv, TypeOK, ClientTypeOK
<1> HIDE DEF units
<1>8. ClientTypeOK'
  BY <1>1, <1>7 DEF Inv, TypeOK, ClientTypeOK
<1>9. /\ toServer \in [Conns -> Seq(Requests \cup Units)]
      /\ \A d \in Conns : Len(toServer[d]) <= Capacity
  BY DEF Inv, TypeOK, StreamsTypeOK
<1>10. units \in Seq(Requests \cup Units) /\ \A i \in 1..Len(units) : units[i].type = "data"
  BY <1>5, UnitFacts
<1>11. /\ Fit(toServer[c], units) \in Seq(Requests \cup Units)
       /\ Len(Fit(toServer[c], units)) <= Capacity
       /\ \A i \in 1..Len(Fit(toServer[c], units)) :
            \/ i \in 1..Len(toServer[c]) /\ Fit(toServer[c], units)[i] = toServer[c][i]
            \/ /\ i - Len(toServer[c]) \in 1..Len(units)
               /\ Fit(toServer[c], units)[i] = units[i - Len(toServer[c])]
  BY <1>9, <1>10, FitFacts
<1>12. toServer'[c] = Fit(toServer[c], units)
  BY <1>1, <1>9
<1> HIDE DEF Fit
<1>13. \A d \in Conns : d # c => toServer'[d] = toServer[d]
  BY <1>1, <1>9
<1>14. Adds(c)
  BY <1>6, <1>10, <1>11, <1>12 DEF Adds
<1>15. \A d \in Conns : d # c => Adds(d)
  BY <1>13 DEF Adds
<1>16. toServer' \in [Conns -> Seq(Requests \cup Units)]
  BY <1>1, <1>9, <1>11
<1>17. \A d \in Conns : Len(toServer'[d]) <= Capacity
  BY <1>9, <1>11, <1>12, <1>13
<1>18. StreamsTypeOK'
  BY <1>1, <1>16, <1>17 DEF Inv, TypeOK, StreamsTypeOK
<1>19. \A d \in Conns :
         /\ InUse(uploading'[d]) => InUse(uploading[d])
         /\ InUse(downloading'[d]) => InUse(downloading[d])
         /\ Adds(d)
  BY <1>1, <1>7, <1>14, <1>15
<1>20. LeavesPart
  BY <1>1, LeavesAll DEF Inv, TypeOK
<1>21. FarInv'
  BY <1>1, <1>19, <1>20, FarRead
<1> QED
  BY <1>1, <1>8, <1>18, <1>19, <1>21, ClientKeeps

(* A client that ends a transfer closes its connection. *)
LEMMA EndKeeps ==
  ASSUME Inv, NEW c \in Conns, InUse(uploading[c]) \/ InUse(downloading[c]),
         NEW unread, Release({c}, unread), UNCHANGED serverVars, alive' = alive,
         near' = near, toServer' = toServer, state' = state, fd_cmd' = fd_cmd,
         ~InUse(uploading'[c]) /\ ~InUse(downloading'[c]),
         \A d \in Conns : d # c =>
           uploading'[d] = uploading[d] /\ downloading'[d] = downloading[d],
         owner' \in [Conns -> Procs \cup {NoProc}] => ClientTypeOK'
  PROVE  Inv'
<1> DEFINE S == {c}
<1>1. S \in SUBSET Conns /\ Release(S, unread)
  OBVIOUS
<1>2. \A d \in Conns :
        IF d \in S THEN ~InUse(uploading'[d]) /\ ~InUse(downloading'[d])
        ELSE uploading'[d] = uploading[d] /\ downloading'[d] = downloading[d]
  OBVIOUS
<1>3. \A d \in Conns : d # c <=> d \notin S
  OBVIOUS
<1> HIDE DEF S
<1>4. /\ FarInv'
      /\ far' \in [Conns -> {"closed", "open", "reset"}]
      /\ toClient' \in [Conns -> Seq(Notices \cup Units)]
      /\ \A d \in Conns : Len(toClient'[d]) <= Capacity
      /\ owner' \in [Conns -> Procs \cup {NoProc}]
      /\ \A d \in Conns \ S : owner'[d] = owner[d]
  BY <1>1, <1>2, ReleaseFacts
<1>5. StreamsTypeOK'
  BY <1>4 DEF Inv, TypeOK, StreamsTypeOK
<1>6. \A d \in Conns : Adds(d)
  BY AddsNone
<1>7. \A d \in Conns :
        /\ InUse(uploading'[d]) => InUse(uploading[d])
        /\ InUse(downloading'[d]) => InUse(downloading[d])
        /\ Adds(d)
  BY <1>2, <1>6
<1>8. ASSUME NEW q \in Procs, state'[q] = "connected"
      PROVE  /\ state[q] = "connected" /\ fd_cmd'[q] = fd_cmd[q]
             /\ owner'[fd_cmd[q]] = owner[fd_cmd[q]]
  <2>1. fd_cmd[q] \in Conns /\ Idle(fd_cmd[q])
    BY <1>8 DEF Inv, ProcsInv, ProcOK
  <2>2. fd_cmd[q] # c
    BY <2>1 DEF Idle
  <2> QED
    BY <1>3, <1>4, <1>8, <2>1, <2>2
<1> QED
  BY <1>4, <1>5, <1>7, <1>8, ClientKeeps

LEMMA FinishUploadKeeps ==
  ASSUME Inv, NEW c \in Conns, FinishUpload(c), UNCHANGED serverVars, alive' = alive
  PROVE  Inv'
<1>1. /\ InUse(uploading[c]) /\ Release({c}, {})
      /\ uploading' = [uploading EXCEPT ![c] = NoFile]
      /\ near' = near /\ toServer' = toServer /\ state' = state /\ fd_cmd' = fd_cmd
      /\ local_files' = local_files /\ downloading' = downloading
      /\ disk' = disk /\ puts' = puts
  BY DEF FinishUpload
<1>2. /\ uploading' \in [Conns -> FileInfos] /\ ~InUse(uploading'[c])
      /\ \A d \in Conns : d # c => uploading'[d] = uploading[d]
  BY <1>1, NoFileFacts DEF Inv, TypeOK, ClientTypeOK
<1>3. ~InUse(downloading'[c])
  BY <1>1 DEF Inv, FarInv, FarOK
<1>4. owner' \in [Conns -> Procs \cup {NoProc}] => ClientTypeOK'
  BY <1>1, <1>2 DEF Inv, TypeOK, ClientTypeOK
<1> QED
  BY <1>1, <1>2, <1>3, <1>4, EndKeeps

(* What is read of a download is written to its file. *)
LEMMA ReadsUnitsFacts ==
  ASSUME Inv, NEW c \in Conns, NEW n \in 0..Chunk, ReadsUnits(c, n)
  PROVE  /\ InUse(downloading[c]) /\ downloading[c] \in FileInfos
         /\ n \in 0..Len(toClient[c])
         /\ disk' \in [Procs -> [Names -> Seq(Units)]]
<1> DEFINE info == downloading[c]
           name == info.file_name
           items == First(toClient[c], n)
           p == owner[c]
<1>1. /\ InUse(info) /\ n \in 0..Lesser(Chunk, Len(toClient[c]))
      /\ disk' = [disk EXCEPT ![p][name] = WriteAt(@, info.current, items)]
  BY DEF ReadsUnits
<1>2. info \in FileInfos
  BY DEF Inv, TypeOK, ClientTypeOK
<1>3. name \in Names /\ info.current \in Nat /\ p \in Procs
  BY <1>1, <1>2, InUseFacts, OwnerFacts
<1>4. toClient[c] \in Seq(Notices \cup Units) /\ Len(toClient[c]) \in Nat
  BY DEF Inv, TypeOK, StreamsTypeOK
<1>5. n \in Nat /\ n <= Len(toClient[c])
  BY <1>1, <1>4, BoundsFacts, LesserFacts
<1>6. items \in Seq(Units)
  <2>1. /\ items \in Seq(Notices \cup Units)
        /\ \A i \in 1..Len(items) : i \in 1..Len(toClient[c]) /\ items[i] = toClient[c][i]
    BY <1>4, <1>5, FirstFacts
  <2>2. \A i \in 1..Len(toClient[c]) : toClient[c][i].type = "data"
    BY <1>1 DEF Inv, FarInv, DataOK
  <2>3. \A i \in 1..Len(toClient[c]) : toClient[c][i] \in Notices \cup Units
    BY <1>4
  <2>4. \A i \in 1..Len(toClient[c]) : toClient[c][i] \in Units
    BY <2>2, <2>3, NoticeFacts
  <2> HIDE DEF items
  <2> QED
    BY <2>1, <2>4, ItemsGiveSeq
<1> HIDE DEF items, name, p
<1>7. disk \in [Procs -> [Names -> Seq(Units)]]
  BY DEF Inv, TypeOK, ClientTypeOK
<1>8. WriteAt(disk[p][name], info.current, items) \in Seq(Units)
  BY <1>3, <1>6, <1>7, WriteAtFacts
<1>9. PICK file : file = WriteAt(disk[p][name], info.current, items)
  OBVIOUS
<1>10. disk' = [disk EXCEPT ![p] = [disk[p] EXCEPT ![name] = file]]
  BY <1>1, <1>3, <1>7, <1>9
<1>11. disk' \in [Procs -> [Names -> Seq(Units)]]
  <2>1. file \in Seq(Units)
    BY <1>8, <1>9
  <2>2. [disk[p] EXCEPT ![name] = file] \in [Names -> Seq(Units)]
    BY <1>3, <1>7, <2>1
  <2> QED
    BY <1>7, <1>10, <2>2
<1> QED
  BY <1>1, <1>2, <1>5, <1>11

LEMMA DownloadMoreKeeps ==
  ASSUME Inv, NEW c \in Conns, NEW n \in 0..Chunk, DownloadMore(c, n),
         UNCHANGED serverVars, alive' = alive
  PROVE  Inv'
<1> DEFINE info == [downloading[c] EXCEPT !.current = @ + n]
<1>1. /\ ReadsUnits(c, n)
      /\ downloading' = [downloading EXCEPT ![c].current = @ + n]
      /\ toClient' = [toClient EXCEPT ![c] = AllBut(@, n)]
      /\ far' = far /\ owner' = owner
      /\ near' = near /\ toServer' = toServer /\ state' = state /\ fd_cmd' = fd_cmd
      /\ local_files' = local_files /\ uploading' = uploading /\ puts' = puts
  BY DEF DownloadMore, ReadsUnits
<1>2. /\ InUse(downloading[c]) /\ downloading[c] \in FileInfos
      /\ n \in 0..Len(toClient[c])
      /\ disk' \in [Procs -> [Names -> Seq(Units)]]
  BY <1>1, ReadsUnitsFacts
<1>3. n \in Nat
  BY BoundsFacts
<1>4. info \in FileInfos
  BY <1>2, <1>3, MovedFacts
<1> HIDE DEF info
<1>5. downloading' = [downloading EXCEPT ![c] = info]
  BY <1>1 DEF info
<1>6. /\ downloading' \in [Conns -> FileInfos]
      /\ \A d \in Conns : d # c => downloading'[d] = downloading[d]
  BY <1>4, <1>5 DEF Inv, TypeOK, ClientTypeOK
<1>7. ClientTypeOK'
  BY <1>1, <1>2, <1>6 DEF Inv, TypeOK, ClientTypeOK
<1>8. LeavesPart
  BY <1>1, <1>2, ReadLeavesPart DEF Inv, TypeOK
<1>9. \A d \in Conns :
        /\ InUse(uploading'[d]) => InUse(uploading[d])
        /\ InUse(downloading'[d]) => InUse(downloading[d])
  BY <1>1, <1>2, <1>6
<1>10. FarInv' /\ \A d \in Conns : Len(toClient'[d]) <= Capacity
  BY <1>1, <1>8, <1>9, FarRead
<1>11. StreamsTypeOK'
  BY <1>1, <1>8, <1>10 DEF LeavesPart, Inv, TypeOK, StreamsTypeOK
<1>12. \A d \in Conns : Adds(d)
  BY <1>1, AddsNone
<1> QED
  BY <1>1, <1>7, <1>9, <1>10, <1>11, <1>12, ClientKeeps

LEMMA FinishDownloadKeeps ==
  ASSUME Inv, NEW c \in Conns, NEW n \in 0..Chunk, FinishDownload(c, n),
         UNCHANGED serverVars, alive' = alive
  PROVE  Inv'
<1> DEFINE unread == {d \in Conns : Len(toClient[d]) > n}
<1>1. /\ ReadsUnits(c, n) /\ Release({c}, unread)
      /\ downloading' = [downloading EXCEPT ![c] = NoFile]
      /\ near' = near /\ toServer' = toServer /\ state' = state /\ fd_cmd' = fd_cmd
      /\ local_files' = local_files /\ uploading' = uploading /\ puts' = puts
  BY DEF FinishDownload, ReadsUnits
<1> HIDE DEF unread
<1>2. InUse(downloading[c]) /\ disk' \in [Procs -> [Names -> Seq(Units)]]
  BY <1>1, ReadsUnitsFacts
<1>3. /\ downloading' \in [Conns -> FileInfos] /\ ~InUse(downloading'[c])
      /\ \A d \in Conns : d # c => downloading'[d] = downloading[d]
  BY <1>1, NoFileFacts DEF Inv, TypeOK, ClientTypeOK
<1>4. ~InUse(uploading'[c])
  BY <1>1, <1>2 DEF Inv, FarInv, FarOK
<1>5. owner' \in [Conns -> Procs \cup {NoProc}] => ClientTypeOK'
  BY <1>1, <1>2, <1>3 DEF Inv, TypeOK, ClientTypeOK
<1> QED
  BY <1>1, <1>2, <1>3, <1>4, <1>5, EndKeeps

LEMMA ClientsKeep ==
  ASSUME Inv, Clients
  PROVE  Inv'
<1>1. UNCHANGED serverVars /\ alive' = alive /\ ClientStep
  BY DEF Clients
<1>2. ASSUME NEW c \in Conns, Transfer(c) PROVE Inv'
  BY <1>1, <1>2, UploadChunkKeeps, FinishUploadKeeps, DownloadMoreKeeps,
     FinishDownloadKeeps, DivideByZeroKeeps DEF Transfer
<1>3. ASSUME NEW p \in Procs, ServerResponse(p) PROVE Inv'
  BY <1>1, <1>3, ReadKnownKeeps, ReadNewKeeps DEF ServerResponse
<1>4. ASSUME NEW p \in Procs, Input(p) PROVE Inv'
  BY <1>1, <1>4, StartKeeps, TypePutKeeps, TypeSleepKeeps, TypeExitKeeps, KilledKeeps
     DEF Input
<1> QED
  BY <1>1, <1>2, <1>3, <1>4 DEF ClientStep

-----------------------------------------------------------------------------
(* The invariant *)

LEMMA ContentFacts ==
  ASSUME NEW f \in Files, NEW p \in Procs
  PROVE  Content(f, p) \in Seq(Units)
<1>1. SizeOf[f] \in Nat
  BY DropboxClientAssumption DEF DropboxClientAssumption
<1>2. \A i \in 1..SizeOf[f] : Unit(f, p, i) \in Units
  BY DEF Units, Unit
<1>3. PICK n \in Nat : n = SizeOf[f]
  BY <1>1
<1> DEFINE unit(i) == Unit(f, p, i)
<1>4. \A i \in 1..n : unit(i) \in Units
  BY <1>2, <1>3
<1> HIDE DEF unit
<1>5. [i \in 1..n |-> unit(i)] \in Seq(Units)
  BY <1>4
<1> QED
  BY <1>3, <1>5 DEF Content, unit

LEMMA InitTypes ==
  ASSUME Init
  PROVE  TypeOK
<1>1. PICK none \in Seq(Units) : none = <<>>
  <2>1. <<>> \in Seq(Units)
    OBVIOUS
  <2> QED
    BY <2>1, Zenon
<1>2. /\ none \in Seq(Requests \cup Units) /\ none \in Seq(Notices \cup Units)
      /\ Len(none) = 0
  BY <1>1
<1>3. StreamsTypeOK
  <2>1. /\ near = [c \in Conns |-> "closed"] /\ far = [c \in Conns |-> "closed"]
        /\ toServer = [c \in Conns |-> none] /\ toClient = [c \in Conns |-> none]
        /\ alive = TRUE
    BY <1>1 DEF Init, StreamsInit
  <2> QED
    BY <1>2, <2>1, BoundsFacts DEF StreamsTypeOK
<1>4. ServerTypeOK
  <2>1. /\ name_map = [c \in Conns |-> ""] /\ name_clients_map = [u \in Owners |-> {}]
        /\ client_files = [u \in Owners |-> {}]
        /\ receiving = [c \in Conns |-> NoFile] /\ sending = [c \in Conns |-> NoFile]
        /\ fail_count = [c \in Conns |-> 0] /\ fd_file_map = [c \in Conns |-> ""]
        /\ folder = [n \in Names |-> none] /\ shared = {}
    BY <1>1 DEF Init, ServerInit
  <2> QED
    BY <2>1, NoFileFacts DEF ServerTypeOK
<1>5. ClientTypeOK
  <2>1. /\ state = [p \in Procs |-> "new"] /\ owner = [c \in Conns |-> NoProc]
        /\ fd_cmd = [p \in Procs |-> NoConn] /\ local_files = [p \in Procs |-> {}]
        /\ uploading = [c \in Conns |-> NoFile] /\ downloading = [c \in Conns |-> NoFile]
        /\ puts = 0
    BY DEF Init, ClientInit
  <2>2. disk = [p \in Procs |-> [n \in Names |->
                  IF n[1] \in Original[p] /\ n[2] = 0 THEN Content(n[1], p) ELSE none]]
    BY <1>1 DEF Init, ClientInit
  <2>3. \A p \in Procs, n \in Names : Content(n[1], p) \in Seq(Units)
    BY ContentFacts DEF Names
  <2> DEFINE file(p, n) ==
               IF n[1] \in Original[p] /\ n[2] = 0 THEN Content(n[1], p) ELSE none
  <2>4. \A p \in Procs, n \in Names : file(p, n) \in Seq(Units)
    BY <2>3
  <2>5. disk = [p \in Procs |-> [n \in Names |-> file(p, n)]]
    BY <2>2
  <2> HIDE DEF file
  <2>6. disk \in [Procs -> [Names -> Seq(Units)]]
    BY <2>4, <2>5
  <2> QED
    BY <2>1, <2>6, NoFileFacts, BoundsFacts DEF ClientTypeOK
<1> QED
  BY <1>3, <1>4, <1>5 DEF TypeOK

LEMMA InitInv ==
  ASSUME Init
  PROVE  Inv
<1>1. TypeOK
  BY InitTypes
<1>2. ASSUME NEW c \in Conns
      PROVE  NamedOK(c) /\ StreamOK(c) /\ NearOK(c) /\ FarOK(c) /\ DataOK(c)
  <2>1. toServer[c] = <<>> /\ toClient[c] = <<>>
    BY DEF Init, StreamsInit
  <2>2. Len(toServer[c]) = 0
    BY <2>1
  <2>3. /\ far[c] = "closed" /\ name_map[c] = "" /\ owner[c] = NoProc
        /\ ~InUse(receiving[c]) /\ ~InUse(sending[c])
        /\ ~InUse(uploading[c]) /\ ~InUse(downloading[c])
    BY NoFileFacts DEF Init, StreamsInit, ServerInit, ClientInit
  <2>4. StreamOK(c)
    BY <2>2 DEF StreamOK
  <2>5. NamedOK(c) /\ NearOK(c)
    BY <2>3 DEF NamedOK, NearOK
  <2>6. FarOK(c) /\ DataOK(c)
    BY <2>1, <2>3 DEF FarOK, DataOK
  <2> QED
    BY <2>4, <2>5, <2>6
<1>3. ProcsInv
  BY DEF Init, ClientInit, ProcsInv, ProcOK
<1>4. NamesAgree
  <2>1. \A u \in Owners : name_clients_map[u] = {}
    BY DEF Init, ServerInit
  <2>2. \A c \in Conns : near[c] # "open"
    BY DEF Init, StreamsInit
  <2> QED
    BY <2>1, <2>2 DEF NamesAgree, clients
<1> QED
  BY <1>1, <1>2, <1>3, <1>4 DEF Inv, NearInv, FarInv

LEMMA StutterKeeps ==
  ASSUME Inv, UNCHANGED vars
  PROVE  Inv'
<1>1. /\ near' = near /\ far' = far /\ toServer' = toServer /\ toClient' = toClient
      /\ alive' = alive /\ UNCHANGED serverVars /\ UNCHANGED clientVars
  BY DEF vars, streamVars
<1>2. /\ owner' = owner /\ uploading' = uploading /\ downloading' = downloading
      /\ state' = state /\ fd_cmd' = fd_cmd
  BY <1>1 DEF clientVars
<1>3. StreamsTypeOK'
  BY <1>1 DEF Inv, TypeOK, StreamsTypeOK
<1>4. ClientTypeOK'
  BY <1>1, ClientTypeSame DEF Inv, TypeOK
<1>5. FarInv'
  BY <1>1, <1>2, FarSame DEF Inv
<1>6. \A c \in Conns : Adds(c)
  BY <1>1, AddsNone
<1> QED
  BY <1>1, <1>2, <1>3, <1>4, <1>5, <1>6, ClientKeeps

LEMMA NextKeeps ==
  ASSUME Inv, [Next]_vars
  PROVE  Inv'
  BY ServerKeeps, ClientsKeep, StutterKeeps DEF Next, Over

(* The states of the server, of the clients and of the connections between     *)
(* them keep their shape, and everything of the strengthening holds throughout. *)
THEOREM Invariance == Spec => []Inv
<1>1. Init => Inv
  BY InitInv
<1>2. Inv /\ [Next]_vars => Inv'
  BY NextKeeps
<1> QED
  BY <1>1, <1>2, PTL DEF Spec

(* Every variable keeps its type: no buffer of a socket overflows, and a file   *)
(* is made of units of files and of holes only.                                 *)
THEOREM TypeCorrect == Spec => []TypeOK
<1>1. Inv => TypeOK
  BY DEF Inv
<1> QED
  BY <1>1, Invariance, PTL

(* A user's set holds the open connections that gave that name: sync_peers      *)
(* never writes to a descriptor that was closed, or handed out again.           *)
THEOREM NamesAlwaysAgree == Spec => []NamesAgree
<1>1. Inv => NamesAgree
  BY DEF Inv
<1> QED
  BY <1>1, Invariance, PTL

-----------------------------------------------------------------------------
(* Nobody waits for what will not come, whoever is killed and whatever is read *)
(* together.                                                                   *)

WaitOK(c) ==
  /\ InUse(uploading[c]) => InUse(receiving[c]) \/ Asked(c, "put") \/ near[c] = "closed"
  /\ InUse(downloading[c]) => InUse(sending[c]) \/ Asked(c, "get") \/ near[c] = "closed"
  /\ InUse(receiving[c]) \/ Asked(c, "put") => InUse(uploading[c]) \/ far[c] # "open"
  /\ InUse(sending[c]) \/ Asked(c, "get") => InUse(downloading[c]) \/ far[c] # "open"

LEMMA WaitParts ==
  /\ WaitInv <=> \A c \in Conns : WaitOK(c)
  /\ WaitInv' <=> \A c \in Conns : WaitOK(c)'
  BY DEF WaitInv, NobodyWaitsInVain, RequestsInv, WaitOK

(* A client lets go of a transfer by closing its end. *)
LEMMA WaitSame ==
  ASSUME NEW c \in Conns, WaitOK(c),
         near[c] = "closed" => near'[c] = "closed",
         far'[c] = "open" => far[c] = "open",
         InUse(receiving'[c]) <=> InUse(receiving[c]),
         InUse(sending'[c]) <=> InUse(sending[c]),
         Asked(c, "put")' <=> Asked(c, "put"), Asked(c, "get")' <=> Asked(c, "get"),
         InUse(uploading'[c]) => InUse(uploading[c]),
         InUse(downloading'[c]) => InUse(downloading[c]),
         \/ InUse(uploading[c]) => InUse(uploading'[c])
         \/ far'[c] # "open",
         \/ InUse(downloading[c]) => InUse(downloading'[c])
         \/ far'[c] # "open"
  PROVE  WaitOK(c)'
  BY Zenon DEF WaitOK

(* What the server does on other connections. *)
LEMMA WaitUntouched ==
  ASSUME NEW d \in Conns, WaitOK(d), UNCHANGED clientVars,
         near[d] = "closed" => near'[d] = "closed",
         far'[d] = "open" => far[d] = "open",
         toServer'[d] = toServer[d],
         receiving'[d] = receiving[d], sending'[d] = sending[d]
  PROVE  WaitOK(d)'
<1>1. uploading' = uploading /\ downloading' = downloading
  BY DEF clientVars
<1>2. /\ Asked(d, "put")' <=> Asked(d, "put")
      /\ Asked(d, "get")' <=> Asked(d, "get")
  BY DEF Asked
<1> QED
  BY <1>1, <1>2, WaitSame

(* The server closes its end, and has no transfer on it. *)
LEMMA WaitClosed ==
  ASSUME Inv, NEW c \in Conns, CloseNear(c), UNCHANGED clientVars,
         \A d \in Conns : d # c => receiving'[d] = receiving[d] /\ sending'[d] = sending[d],
         \A d \in Conns : far'[d] = "open" => far[d] = "open",
         ~InUse(receiving'[c]), ~InUse(sending'[c]), WaitInv
  PROVE  WaitInv'
<1>1. /\ near'[c] = "closed" /\ Len(toServer'[c]) = 0
      /\ \A d \in Conns : d # c => near'[d] = near[d] /\ toServer'[d] = toServer[d]
  BY CloseNearFacts DEF Inv, TypeOK
<1>2. ~Asked(c, "put")' /\ ~Asked(c, "get")'
  BY <1>1 DEF Asked
<1>3. WaitOK(c)'
  BY <1>1, <1>2 DEF WaitOK
<1>4. ASSUME NEW d \in Conns, d # c PROVE WaitOK(d)'
  BY <1>1, <1>4, WaitParts, WaitUntouched
<1> QED
  BY <1>3, <1>4, WaitParts

(* A step of the server at c, of whatever kind, leaves the others alone. *)
LEMMA WaitElsewhere ==
  ASSUME WaitInv, NEW c \in Conns, WaitOK(c)', UNCHANGED clientVars, near' = near,
         \A d \in Conns : d # c =>
           /\ toServer'[d] = toServer[d]
           /\ receiving'[d] = receiving[d] /\ sending'[d] = sending[d]
           /\ far'[d] = "open" => far[d] = "open"
  PROVE  WaitInv'
<1>1. ASSUME NEW d \in Conns, d # c PROVE WaitOK(d)'
  BY <1>1, WaitParts, WaitUntouched
<1> QED
  BY <1>1, WaitParts

(* A command is read: no request was there, and none is left. *)
LEMMA CommandWaits ==
  ASSUME Inv, WaitInv, NEW c \in Conns, NEW n \in 1..Len(toServer[c]), Consume(c, n),
         toServer[c][1].type \in CommandTypes, UNCHANGED clientVars, near' = near,
         receiving' = receiving, sending' = sending,
         \A d \in Conns : far'[d] = "open" => far[d] = "open"
  PROVE  WaitInv'
<1>1. Len(toServer[c]) \in Nat /\ StreamOK(c) /\ StreamsTypeOK
  BY DEF Inv, TypeOK, StreamsTypeOK, NearInv
<1>2. /\ Idle(c)
      /\ \A i \in 1..Len(toServer'[c]) : toServer'[c][i].type \in CommandTypes
  BY <1>1, RestFacts
<1>3. \A d \in Conns : d # c => toServer'[d] = toServer[d]
  BY <1>1, ConsumeFacts
<1>4. WaitOK(c)'
  BY <1>2 DEF WaitOK, Idle, Asked, CommandTypes, clientVars
<1> QED
  BY <1>3, <1>4, WaitElsewhere

(* A request is read: its client is waiting, or gone. *)
LEMMA RequestWaits ==
  ASSUME Inv, WaitInv, NEW c \in Conns, NEW n \in 1..Len(toServer[c]), Consume(c, n),
         NEW type \in {"put", "get"}, toServer[c][1].type = type,
         ~InUse(receiving[c]) /\ ~InUse(sending[c]), near[c] = "open",
         InUse(receiving'[c]) <=> type = "put", InUse(sending'[c]) <=> type = "get",
         UNCHANGED clientVars, near' = near, far' = far,
         \A d \in Conns : d # c => receiving'[d] = receiving[d] /\ sending'[d] = sending[d]
  PROVE  WaitInv'
<1>1. Len(toServer[c]) \in Nat /\ 1 \in 1..Len(toServer[c]) /\ StreamOK(c) /\ StreamsTypeOK
  BY DEF Inv, TypeOK, StreamsTypeOK, NearInv
<1>2. ~Asked(c, "put")' /\ ~Asked(c, "get")'
  <2>1. \A i \in 1..Len(toServer'[c]) : toServer'[c][i].type = "data"
    BY <1>1, RestFacts DEF CommandTypes
  <2> QED
    BY <2>1 DEF Asked
<1>3. Asked(c, type) /\ \A other \in {"put", "get"} : Asked(c, other) => other = type
  <2>1. Asked(c, type)
    BY <1>1 DEF Asked
  <2>2. ASSUME NEW other \in {"put", "get"}, NEW i \in 1..Len(toServer[c]),
               toServer[c][i].type = other
        PROVE  other = type
    BY <1>1, <2>2 DEF StreamOK, ItemOK
  <2> QED
    BY <2>1, <2>2 DEF Asked
<1>4. \A d \in Conns : d # c => toServer'[d] = toServer[d]
  BY <1>1, ConsumeFacts
<1>5. WaitOK(c)
  BY WaitParts
<1>6. uploading' = uploading /\ downloading' = downloading
  BY DEF clientVars
<1>7. ASSUME type = "put" PROVE WaitOK(c)'
  <2>1. InUse(uploading[c]) \/ far[c] # "open"
    BY <1>3, <1>5, <1>7 DEF WaitOK
  <2>2. ~InUse(downloading[c])
    BY <1>3, <1>5, <1>7 DEF WaitOK
  <2>3. InUse(receiving'[c]) /\ ~InUse(sending'[c])
    BY <1>7
  <2> QED
    BY <1>2, <1>6, <2>1, <2>2, <2>3, Zenon DEF WaitOK
<1>8. ASSUME type = "get" PROVE WaitOK(c)'
  <2>1. InUse(downloading[c]) \/ far[c] # "open"
    BY <1>3, <1>5, <1>8 DEF WaitOK
  <2>2. ~InUse(uploading[c])
    BY <1>3, <1>5, <1>8 DEF WaitOK
  <2>3. InUse(sending'[c]) /\ ~InUse(receiving'[c])
    BY <1>8
  <2> QED
    BY <1>2, <1>6, <2>1, <2>2, <2>3, Zenon DEF WaitOK
<1> QED
  BY <1>4, <1>7, <1>8, WaitElsewhere

(* The server goes on with a transfer. *)
LEMMA TransferWaits ==
  ASSUME Inv, WaitInv, NEW c \in Conns, InUse(receiving[c]) \/ InUse(sending[c]),
         UNCHANGED clientVars, near' = near,
         InUse(receiving'[c]) <=> InUse(receiving[c]),
         InUse(sending'[c]) <=> InUse(sending[c]),
         \A i \in 1..Len(toServer'[c]) :
           \E j \in 1..Len(toServer[c]) : toServer'[c][i] = toServer[c][j],
         \A d \in Conns : d # c =>
           /\ toServer'[d] = toServer[d]
           /\ receiving'[d] = receiving[d] /\ sending'[d] = sending[d],
         \A d \in Conns : far'[d] = "open" => far[d] = "open"
  PROVE  WaitInv'
<1>1. \A i \in 1..Len(toServer[c]) : toServer[c][i].type = "data"
  BY BusyFacts
<1>2. ~Asked(c, "put") /\ ~Asked(c, "get") /\ ~Asked(c, "put")' /\ ~Asked(c, "get")'
  BY <1>1 DEF Asked
<1>3. WaitOK(c)'
  BY <1>2, WaitParts, WaitSame DEF clientVars
<1> QED
  BY <1>3, WaitElsewhere

LEMMA ServerWaits ==
  ASSUME Inv, WaitInv, NEW c \in Conns, Server(c)
  PROVE  WaitInv'
<1>1. UNCHANGED clientVars /\ ServerStep(c)
  BY DEF Server
<1>2. CASE Accept(c)
  <2>1. /\ near[c] = "pending" /\ near' = [near EXCEPT ![c] = "open"]
        /\ far' = far /\ toServer' = toServer /\ receiving' = receiving /\ sending' = sending
    BY <1>2 DEF Accept, serverVars
  <2>2. \A d \in Conns : near[d] = "closed" => near'[d] = "closed"
    BY <2>1 DEF Inv, TypeOK, StreamsTypeOK
  <2>3. ASSUME NEW d \in Conns PROVE WaitOK(d)'
    BY <1>1, <2>1, <2>2, WaitParts, WaitUntouched
  <2> QED
    BY <2>3, WaitParts
<1>3. ASSUME Disconnect(c), ~InUse(receiving[c]), ~InUse(sending[c]) PROVE WaitInv'
  BY <1>1, <1>3, WaitClosed DEF Disconnect
<1>4. ASSUME NEW n \in 1..Len(toServer[c]), Ignore(c, n) \/ Name(c, n) PROVE WaitInv'
  <2>1. toServer[c][1].type \in CommandTypes
    BY <1>4, CommandFacts DEF Ignore, Name, Reads, Inv, TypeOK, CommandTypes
  <2>2. \A d \in Conns : far'[d] = "open" => far[d] = "open"
    <3>1. CASE Ignore(c, n)
      BY <3>1 DEF Ignore
    <3>2. CASE Name(c, n)
      <4>1. PICK items, again : Write({c}, items, again)
        BY <3>2 DEF Name
      <4> QED
        BY <4>1 DEF Write, Inv, TypeOK, StreamsTypeOK
    <3> QED
      BY <1>4, <3>1, <3>2
  <2>3. /\ Consume(c, n) /\ near' = near
        /\ receiving' = receiving /\ sending' = sending
    BY <1>4 DEF Ignore, Name, serverVars
  <2> QED
    BY <1>1, <2>1, <2>2, <2>3, CommandWaits
<1>5. ASSUME NEW n \in 1..Len(toServer[c]), Get(c, n) PROVE WaitInv'
  <2> DEFINE name == CommandOf(c, n).file
             info == FileInfo(name, Len(folder[name]))
  <2>1. /\ Consume(c, n) /\ near[c] = "open" /\ near' = near /\ far' = far
        /\ receiving' = receiving /\ sending' = [sending EXCEPT ![c] = info]
        /\ ~InUse(receiving[c]) /\ ~InUse(sending[c])
        /\ CommandOf(c, n).type = "get"
    BY <1>5 DEF Get, Reads, clients
  <2>2. CommandOf(c, n) = toServer[c][1]
    BY <2>1, CommandFacts DEF Inv, TypeOK
  <2>3. name \in Names
    BY <2>1, <2>2, CommandFacts, RequestFacts DEF Inv, TypeOK
  <2>4. InUse(info)
    BY <2>3, NoNameIsNone DEF InUse, FileInfo
  <2> HIDE DEF info
  <2>5. InUse(sending'[c]) /\ \A d \in Conns : d # c => sending'[d] = sending[d]
    BY <2>1, <2>4 DEF Inv, TypeOK, ServerTypeOK
  <2> QED
    BY <1>1, <2>1, <2>2, <2>5, RequestWaits
<1>6. ASSUME NEW n \in 1..Len(toServer[c]), Put(c, n) \/ PutWithData(c, n) PROVE WaitInv'
  <2>1. /\ Consume(c, n) /\ near[c] = "open" /\ near' = near /\ far' = far
        /\ sending' = sending
        /\ ~InUse(receiving[c]) /\ ~InUse(sending[c])
        /\ CommandOf(c, n).type = "put"
    BY <1>6 DEF Put, PutWithData, Reads, clients
  <2>2. CommandOf(c, n) = toServer[c][1]
    BY <2>1, CommandFacts DEF Inv, TypeOK
  <2>3. CommandOf(c, n).file \in Names
    BY <2>1, <2>2, CommandFacts, RequestFacts DEF Inv, TypeOK
  <2>4. PICK user, units : StartReceive(c, user, CommandOf(c, n), units)
    BY <1>6 DEF Put, PutWithData
  <2> DEFINE file == CommandOf(c, n).file[1]
             name == StoredName(user, file)
             info == [FileInfo(name, CommandOf(c, n).size) EXCEPT !.current = Len(units)]
  <2>5. receiving' = [receiving EXCEPT ![c] = info]
    BY <2>4 DEF StartReceive
  <2>6. name # NoName
    <3>1. file \in Files
      BY <2>3 DEF Names
    <3>2. name[1] = file
      BY DEF StoredName
    <3>3. NoName[1] \notin Files
      BY DropboxFilesAssumption DEF NoName, DropboxFilesAssumption
    <3> HIDE DEF name, file
    <3> QED
      BY <3>1, <3>2, <3>3
  <2>7. InUse(info)
    BY <2>6 DEF InUse, FileInfo
  <2> HIDE DEF info
  <2>8. InUse(receiving'[c]) /\ \A d \in Conns : d # c => receiving'[d] = receiving[d]
    BY <2>5, <2>7 DEF Inv, TypeOK, ServerTypeOK
  <2> QED
    BY <1>1, <2>1, <2>2, <2>8, RequestWaits
<1>7. ASSUME NEW n \in 0..Chunk, ReceiveMore(c, n) PROVE WaitInv'
  <2> DEFINE m == IF n = 0 THEN Len(toServer[c]) ELSE n
  <2>1. /\ ReadsData(c, n) /\ Consume(c, m)
        /\ receiving' = [receiving EXCEPT ![c].current = @ + n]
        /\ near' = near /\ far' = far /\ sending' = sending
    BY <1>7 DEF ReceiveMore
  <2>2. /\ InUse(receiving[c]) /\ receiving[c] \in FileInfos /\ n \in 0..Len(toServer[c])
    BY <2>1, ReadsDataFacts
  <2>3. Len(toServer[c]) \in Nat /\ m \in 0..Len(toServer[c])
    <3>1. Len(toServer[c]) \in Nat
      BY DEF Inv, TypeOK, StreamsTypeOK
    <3> QED
      BY <2>2, <3>1
  <2> HIDE DEF m
  <2>4. /\ \A d \in Conns : d # c => toServer'[d] = toServer[d]
        /\ \A i \in 1..Len(toServer'[c]) :
             i + m \in 1..Len(toServer[c]) /\ toServer'[c][i] = toServer[c][i + m]
    BY <2>1, <2>3, ConsumeFacts DEF Inv, TypeOK
  <2>5. InUse(receiving'[c]) /\ \A d \in Conns : d # c => receiving'[d] = receiving[d]
    BY <2>1, <2>2 DEF Inv, TypeOK, ServerTypeOK, FileInfos, InUse
  <2> QED
    BY <1>1, <2>1, <2>2, <2>4, <2>5, TransferWaits
<1>8. ASSUME NEW n \in 0..Chunk, FinishReceive(c, n) PROVE WaitInv'
  <2>1. /\ ReadsData(c, n) /\ CloseNear(c)
        /\ receiving' = [receiving EXCEPT ![c] = NoFile] /\ sending' = sending
    BY <1>8 DEF FinishReceive
  <2>2. \A d \in Conns : far'[d] = "open" => far[d] = "open"
    <3>1. far' = far \/ \E S, items : Write(S, items, FALSE)
      BY <1>8 DEF FinishReceive
    <3> QED
      BY <3>1 DEF Write, Inv, TypeOK, StreamsTypeOK
  <2>3. ~InUse(receiving'[c]) /\ \A d \in Conns : d # c => receiving'[d] = receiving[d]
    BY <2>1, NoFileFacts DEF Inv, TypeOK, ServerTypeOK
  <2>4. InUse(receiving[c])
    BY <2>1 DEF ReadsData
  <2>5. ~InUse(sending'[c])
    BY <2>1, <2>4 DEF Inv, NearInv, NearOK
  <2> QED
    BY <1>1, <2>1, <2>2, <2>3, <2>5, WaitClosed
<1>9. CASE SendChunk(c)
  <2> DEFINE info == sending[c]
             units == NextUnits(folder[info.file_name], info)
  <2>1. /\ InUse(info) /\ sending' = [sending EXCEPT ![c] = AfterRead(info, units)]
        /\ \E S : Write(S, units, FALSE)
        /\ near' = near /\ toServer' = toServer /\ receiving' = receiving
    BY <1>9 DEF SendChunk
  <2> HIDE DEF units
  <2>2. \A d \in Conns : far'[d] = "open" => far[d] = "open"
    BY <2>1 DEF Write, Inv, TypeOK, StreamsTypeOK
  <2>3. InUse(sending'[c]) /\ \A d \in Conns : d # c => sending'[d] = sending[d]
    BY <2>1 DEF Inv, TypeOK, ServerTypeOK, FileInfos, InUse, AfterRead
  <2> QED
    BY <1>1, <2>1, <2>2, <2>3, TransferWaits
<1>10. CASE FinishSend(c)
  <2>1. /\ InUse(sending[c]) /\ CloseNear(c) /\ far' = far
        /\ sending' = [sending EXCEPT ![c] = NoFile] /\ receiving' = receiving
    BY <1>10 DEF FinishSend
  <2>2. ~InUse(sending'[c]) /\ \A d \in Conns : d # c => sending'[d] = sending[d]
    BY <2>1, NoFileFacts DEF Inv, TypeOK, ServerTypeOK
  <2>3. ~InUse(receiving'[c])
    BY <2>1 DEF Inv, NearInv, NearOK
  <2> QED
    BY <1>1, <2>1, <2>2, <2>3, WaitClosed
<1>11. CASE Hangup(c)
  BY <1>3, <1>11 DEF Hangup
<1>12. ASSUME NEW n \in 1..Len(toServer[c]), Leave(c, n) PROVE WaitInv'
  BY <1>3, <1>12 DEF Leave, Reads
<1> QED
  BY <1>1, <1>2, <1>4, <1>5, <1>6, <1>7, <1>8, <1>9, <1>10, <1>11, <1>12
     DEF ServerStep, HandleClient, ReceiveFile, SendFile

(* A client opens a connection for the request that it writes to it first. *)
LEMMA OpenWaits ==
  ASSUME Inv, WaitInv, NEW p \in Procs, NEW line \in Requests, Open(p, line),
         UNCHANGED serverVars,
         \A d \in Conns : d # Fresh =>
           uploading'[d] = uploading[d] /\ downloading'[d] = downloading[d],
         InUse(uploading'[Fresh]) <=> line.type = "put",
         InUse(downloading'[Fresh]) <=> line.type = "get"
  PROVE  WaitInv'
<1>1. PICK k :
      /\ k = Fresh
      /\ Usable # {} /\ near'[k] = "pending" /\ far'[k] = "open"
      /\ Len(toServer'[k]) = 1 /\ toServer'[k][1] = line
      /\ \A d \in Conns : d # k =>
           near'[d] = near[d] /\ far'[d] = far[d] /\ toServer'[d] = toServer[d]
  BY OpenFacts
<1>2. k \in Conns /\ Idle(k)
  BY <1>1, FreshFacts
<1>3. receiving' = receiving /\ sending' = sending
  BY DEF serverVars
<1>4. /\ Asked(k, "put")' <=> line.type = "put"
      /\ Asked(k, "get")' <=> line.type = "get"
  BY <1>1 DEF Asked
<1>5. ~InUse(receiving'[k]) /\ ~InUse(sending'[k])
  BY <1>2, <1>3 DEF Idle
<1>6. WaitOK(k)'
  BY <1>1, <1>4, <1>5, Zenon DEF WaitOK
<1>7. ASSUME NEW d \in Conns, d # k PROVE WaitOK(d)'
  <2>1. Asked(d, "put")' <=> Asked(d, "put")
    BY <1>1, <1>7 DEF Asked
  <2>2. Asked(d, "get")' <=> Asked(d, "get")
    BY <1>1, <1>7 DEF Asked
  <2> QED
    BY <1>1, <1>3, <1>7, <2>1, <2>2, WaitParts, WaitSame
<1> QED
  BY <1>6, <1>7, WaitParts

(* A client that opens no connection and writes no request lets go of what it  *)
(* transfers by closing.                                                       *)
LEMMA GoingOnWaits ==
  ASSUME Inv, WaitInv, UNCHANGED serverVars, near' = near,
         \A c \in Conns :
           /\ Asked(c, "put")' <=> Asked(c, "put")
           /\ Asked(c, "get")' <=> Asked(c, "get")
           /\ far'[c] = "open" => far[c] = "open"
           /\ InUse(uploading'[c]) => InUse(uploading[c])
           /\ InUse(downloading'[c]) => InUse(downloading[c])
           /\ far'[c] = "open" =>
                /\ InUse(uploading[c]) => InUse(uploading'[c])
                /\ InUse(downloading[c]) => InUse(downloading'[c])
  PROVE  WaitInv'
<1>1. receiving' = receiving /\ sending' = sending
  BY DEF serverVars
<1>2. ASSUME NEW c \in Conns PROVE WaitOK(c)'
  BY <1>1, <1>2, WaitParts, WaitSame
<1> QED
  BY <1>2, WaitParts

LEMMA SameRequests ==
  ASSUME toServer' = toServer
  PROVE  \A c \in Conns : /\ Asked(c, "put")' <=> Asked(c, "put")
                          /\ Asked(c, "get")' <=> Asked(c, "get")
  BY DEF Asked

(* What the user types is no request. *)
LEMMA TellAsksNothing ==
  ASSUME Inv, NEW p \in Procs, state[p] = "connected", NEW type \in {"sleep", "exit"},
         Tell(p, type)
  PROVE  \A c \in Conns : /\ Asked(c, "put")' <=> Asked(c, "put")
                          /\ Asked(c, "get")' <=> Asked(c, "get")
<1>1. PICK k : k = fd_cmd[p]
  OBVIOUS
<1>2. /\ k \in Conns /\ Idle(k)
      /\ \A i \in 1..Len(toServer[k]) : toServer[k][i].type \in CommandTypes
  BY <1>1 DEF Inv, ProcsInv, ProcOK
<1>3. Adds(k)
  BY <1>2, TellFacts
<1>4. \A d \in Conns : d # k => toServer'[d] = toServer[d]
  BY <1>1 DEF Tell, Inv, TypeOK, StreamsTypeOK
<1>5. \A i \in 1..Len(toServer'[k]) : toServer'[k][i].type \in CommandTypes
  BY <1>2, <1>3 DEF Adds, CommandTypes
<1>6. ~Asked(k, "put") /\ ~Asked(k, "get") /\ ~Asked(k, "put")' /\ ~Asked(k, "get")'
  BY <1>2, <1>5 DEF Asked, CommandTypes
<1>7. ASSUME NEW d \in Conns, d # k
      PROVE  /\ Asked(d, "put")' <=> Asked(d, "put")
             /\ Asked(d, "get")' <=> Asked(d, "get")
  BY <1>4, <1>7 DEF Asked
<1> QED
  BY <1>6, <1>7

(* What a client dies with is closed. *)
LEMMA DieWaits ==
  ASSUME Inv, WaitInv, NEW p \in Procs, Die(p), UNCHANGED serverVars,
         \A c \in Conns : /\ Asked(c, "put")' <=> Asked(c, "put")
                          /\ Asked(c, "get")' <=> Asked(c, "get")
  PROVE  WaitInv'
<1>1. PICK S : S = Mine(p)
  OBVIOUS
<1>2. /\ uploading' = [c \in Conns |-> IF c \in S THEN NoFile ELSE uploading[c]]
      /\ downloading' = [c \in Conns |-> IF c \in S THEN NoFile ELSE downloading[c]]
      /\ Release(S, {c \in Conns : toClient[c] # <<>>})
      /\ near' = near
  BY <1>1 DEF Die
<1>3. \A c \in Conns : /\ far'[c] = "open" => far[c] = "open"
                       /\ c \in S => far'[c] # "open"
  BY <1>2 DEF Release, CloseFar
<1> QED
  BY <1>2, <1>3, NoFileFacts, GoingOnWaits

(* A client ends a transfer by closing the connection. *)
LEMMA EndWaits ==
  ASSUME Inv, WaitInv, NEW c \in Conns, NEW unread, Release({c}, unread),
         UNCHANGED serverVars, near' = near, toServer' = toServer,
         ~InUse(uploading'[c]) /\ ~InUse(downloading'[c]),
         \A d \in Conns : d # c =>
           uploading'[d] = uploading[d] /\ downloading'[d] = downloading[d]
  PROVE  WaitInv'
<1>1. \A d \in Conns : /\ far'[d] = "open" => far[d] = "open"
                       /\ d = c => far'[d] # "open"
  BY DEF Release, CloseFar
<1> QED
  BY <1>1, SameRequests, GoingOnWaits

LEMMA UploadWaits ==
  ASSUME Inv, WaitInv, NEW c \in Conns, UploadChunk(c), UNCHANGED serverVars
  PROVE  WaitInv'
<1> DEFINE info == uploading[c]
           units == NextUnits(disk[owner[c]][info.file_name], info)
<1>1. /\ InUse(info)
      /\ uploading' = [uploading EXCEPT ![c] = AfterRead(info, units)]
      /\ toServer' = [toServer EXCEPT ![c] = Fit(@, units)]
      /\ near' = near /\ far' = far /\ downloading' = downloading
  BY DEF UploadChunk
<1>2. info \in FileInfos /\ info.file_name \in Names /\ owner[c] \in Procs
  BY <1>1, InUseFacts, OwnerFacts DEF Inv, TypeOK, ClientTypeOK
<1>3. disk[owner[c]][info.file_name] \in Seq(Units)
  BY <1>2 DEF Inv, TypeOK, ClientTypeOK
<1>4. units \in Seq(Units)
  BY <1>2, <1>3, NextUnitsFacts
<1> HIDE DEF units
<1>5. InUse(uploading'[c]) /\ \A d \in Conns : d # c => uploading'[d] = uploading[d]
  BY <1>1, <1>2 DEF Inv, TypeOK, ClientTypeOK, AfterRead, InUse, FileInfos
<1>6. /\ toServer \in [Conns -> Seq(Requests \cup Units)] /\ Len(toServer[c]) \in Nat
      /\ Len(toServer[c]) <= Capacity
  BY DEF Inv, TypeOK, StreamsTypeOK
<1>7. units \in Seq(Requests \cup Units) /\ \A i \in 1..Len(units) : units[i].type = "data"
  BY <1>4, UnitFacts
<1>8. toServer'[c] = Fit(toServer[c], units) /\ \A d \in Conns : d # c => toServer'[d] = toServer[d]
  BY <1>1, <1>6
<1>9. /\ Len(toServer'[c]) = Len(toServer[c]) + Lesser(Capacity - Len(toServer[c]), Len(units))
      /\ \A i \in 1..Len(toServer'[c]) :
           \/ i \in 1..Len(toServer[c]) /\ toServer'[c][i] = toServer[c][i]
           \/ /\ i - Len(toServer[c]) \in 1..Len(units)
              /\ toServer'[c][i] = units[i - Len(toServer[c])]
  BY <1>6, <1>7, <1>8, FitFacts
<1>10. /\ Len(toServer'[c]) \in Nat /\ Len(toServer'[c]) >= Len(toServer[c])
  <2>1. Capacity \in Nat /\ Len(units) \in Nat
    BY <1>7, BoundsFacts
  <2> QED
    BY <1>6, <1>9, <2>1 DEF Lesser
<1>11. \A i \in 1..Len(toServer[c]) : i \in 1..Len(toServer'[c]) /\ toServer'[c][i] = toServer[c][i]
  <2> SUFFICES ASSUME NEW i \in 1..Len(toServer[c])
               PROVE  i \in 1..Len(toServer'[c]) /\ toServer'[c][i] = toServer[c][i]
    OBVIOUS
  <2>1. i \in 1..Len(toServer'[c])
    BY <1>6, <1>10
  <2>2. i - Len(toServer[c]) \notin 1..Len(units)
    BY <1>6
  <2> QED
    BY <1>9, <2>1, <2>2
<1>12. ASSUME NEW type \in {"put", "get"} PROVE Asked(c, type)' <=> Asked(c, type)
  BY <1>7, <1>9, <1>11 DEF Asked
<1>13. ASSUME NEW d \in Conns, d # c
       PROVE  /\ Asked(d, "put")' <=> Asked(d, "put")
              /\ Asked(d, "get")' <=> Asked(d, "get")
  BY <1>8, <1>13 DEF Asked
<1> QED
  BY <1>1, <1>5, <1>12, <1>13, GoingOnWaits

LEMMA ClientsWait ==
  ASSUME Inv, WaitInv, Clients
  PROVE  WaitInv'
<1>1. UNCHANGED serverVars /\ ClientStep
  BY DEF Clients
<1>2. ASSUME NEW p \in Procs, Start(p) PROVE WaitInv'
  <2> DEFINE line == [type |-> "name", user |-> UserOf[p]]
  <2>1. Open(p, line) /\ uploading' = uploading /\ downloading' = downloading
    BY <1>2 DEF Start
  <2>2. line \in Requests /\ line.type = "name"
    BY LineFacts, DropboxAssumption DEF DropboxAssumption
  <2> HIDE DEF line
  <2>3. Usable # {}
    BY <2>1 DEF Open
  <2>4. ~InUse(uploading'[Fresh]) /\ ~InUse(downloading'[Fresh])
    BY <2>1, <2>3, FreshFacts DEF Idle
  <2> QED
    BY <1>1, <2>1, <2>2, <2>4, OpenWaits
<1>3. ASSUME NEW p \in Procs, NEW f \in Files, TypePut(p, f) PROVE WaitInv'
  <2> DEFINE name == <<f, 0>>
             size == Len(disk[p][name])
             line == PutLine(name, size, UserOf[p])
             info == FileInfo(name, size)
  <2>1. /\ Open(p, line) /\ downloading' = downloading
        /\ uploading' = [uploading EXCEPT ![Fresh] = info]
    BY <1>3 DEF TypePut
  <2>2. name \in Names
    BY BoundsFacts DEF Names
  <2> HIDE DEF name
  <2>3. size \in Nat
    <3>1. disk[p][name] \in Seq(Units)
      BY <2>2 DEF Inv, TypeOK, ClientTypeOK
    <3> QED
      BY <3>1
  <2> HIDE DEF size
  <2>4. line \in Requests /\ line.type = "put"
    BY <2>2, <2>3, LineFacts, DropboxAssumption DEF DropboxAssumption, PutLine
  <2>5. InUse(info)
    BY <2>2, <2>3, FileInfoFacts
  <2> HIDE DEF line, info
  <2>6. Usable # {}
    BY <2>1 DEF Open
  <2>7. PICK k : k = Fresh
    OBVIOUS
  <2>8. k \in Conns /\ Idle(k)
    BY <2>6, <2>7, FreshFacts
  <2>9. uploading'[k] = info /\ \A d \in Conns : d # k => uploading'[d] = uploading[d]
    BY <2>1, <2>7, <2>8 DEF Inv, TypeOK, ClientTypeOK
  <2>10. ~InUse(downloading'[k])
    BY <2>1, <2>8 DEF Idle
  <2> QED
    BY <1>1, <2>1, <2>4, <2>5, <2>7, <2>9, <2>10, OpenWaits
<1>4. ASSUME NEW p \in Procs, NEW n \in 1..Capacity, ReadNew(p, n) PROVE WaitInv'
  <2> DEFINE head == Head(toClient[fd_cmd[p]])
             name == head.file
             line == [type |-> "get", file |-> name]
             info == FileInfo(name, head.size)
  <2>1. /\ Response(p, n) /\ head.type = "put" /\ Open(p, line) /\ uploading' = uploading
        /\ downloading' = [downloading EXCEPT ![Fresh] = info]
    BY <1>4 DEF ReadNew
  <2>2. head \in Notices \cup Units
    BY <2>1, ResponseFacts
  <2> HIDE DEF head
  <2>3. name \in Names /\ head.size \in Nat
    BY <2>1, <2>2, NoticeFacts
  <2> HIDE DEF name
  <2>4. line \in Requests /\ line.type = "get"
    BY <2>3, LineFacts
  <2>5. InUse(info)
    BY <2>3, FileInfoFacts
  <2> HIDE DEF line, info
  <2>6. Usable # {}
    BY <2>1 DEF Open
  <2>7. PICK k : k = Fresh
    OBVIOUS
  <2>8. k \in Conns /\ Idle(k)
    BY <2>6, <2>7, FreshFacts
  <2>9. downloading'[k] = info /\ \A d \in Conns : d # k => downloading'[d] = downloading[d]
    BY <2>1, <2>7, <2>8 DEF Inv, TypeOK, ClientTypeOK
  <2>10. ~InUse(uploading'[k])
    BY <2>1, <2>8 DEF Idle
  <2> QED
    BY <1>1, <2>1, <2>4, <2>5, <2>7, <2>9, <2>10, OpenWaits
<1>5. ASSUME NEW p \in Procs, NEW n \in 1..Capacity, ReadKnown(p, n) PROVE WaitInv'
  <2>1. near' = near /\ far' = far /\ toServer' = toServer /\ UNCHANGED clientVars
    BY <1>5 DEF ReadKnown
  <2>2. uploading' = uploading /\ downloading' = downloading
    BY <2>1 DEF clientVars
  <2> QED
    BY <1>1, <2>1, <2>2, SameRequests, GoingOnWaits
<1>6. ASSUME NEW p \in Procs, TypeSleep(p) PROVE WaitInv'
  <2>1. /\ state[p] = "connected" /\ Tell(p, "sleep")
        /\ near' = near /\ far' = far /\ UNCHANGED clientVars
    BY <1>6 DEF TypeSleep
  <2>2. uploading' = uploading /\ downloading' = downloading
    BY <2>1 DEF clientVars
  <2> QED
    BY <1>1, <2>1, <2>2, TellAsksNothing, GoingOnWaits
<1>7. ASSUME NEW p \in Procs, TypeExit(p) PROVE WaitInv'
  <2>1. state[p] = "connected" /\ Tell(p, "exit") /\ Die(p)
    BY <1>7 DEF TypeExit
  <2> QED
    BY <1>1, <2>1, TellAsksNothing, DieWaits
<1>8. ASSUME NEW p \in Procs, Die(p), toServer' = toServer PROVE WaitInv'
  BY <1>1, <1>8, SameRequests, DieWaits
<1>9. ASSUME NEW c \in Conns, FinishUpload(c) PROVE WaitInv'
  <2>1. /\ InUse(uploading[c]) /\ Release({c}, {})
        /\ uploading' = [uploading EXCEPT ![c] = NoFile]
        /\ near' = near /\ toServer' = toServer /\ downloading' = downloading
    BY <1>9 DEF FinishUpload
  <2>2. ~InUse(uploading'[c]) /\ \A d \in Conns : d # c => uploading'[d] = uploading[d]
    BY <2>1, NoFileFacts DEF Inv, TypeOK, ClientTypeOK
  <2>3. ~InUse(downloading'[c])
    BY <2>1 DEF Inv, FarInv, FarOK
  <2> QED
    BY <1>1, <2>1, <2>2, <2>3, EndWaits
<1>10. ASSUME NEW c \in Conns, NEW n \in 0..Chunk, DownloadMore(c, n) PROVE WaitInv'
  <2>1. /\ ReadsUnits(c, n) /\ downloading' = [downloading EXCEPT ![c].current = @ + n]
        /\ near' = near /\ far' = far /\ toServer' = toServer /\ uploading' = uploading
    BY <1>10 DEF DownloadMore, ReadsUnits
  <2>2. InUse(downloading[c]) /\ downloading[c] \in FileInfos
    BY <2>1, ReadsUnitsFacts
  <2>3. \A d \in Conns : InUse(downloading'[d]) <=> InUse(downloading[d])
    BY <2>1, <2>2 DEF Inv, TypeOK, ClientTypeOK, FileInfos, InUse
  <2> QED
    BY <1>1, <2>1, <2>3, SameRequests, GoingOnWaits
<1>11. ASSUME NEW c \in Conns, NEW n \in 0..Chunk, FinishDownload(c, n) PROVE WaitInv'
  <2>1. /\ ReadsUnits(c, n) /\ Release({c}, {d \in Conns : Len(toClient[d]) > n})
        /\ downloading' = [downloading EXCEPT ![c] = NoFile]
        /\ near' = near /\ toServer' = toServer /\ uploading' = uploading
    BY <1>11 DEF FinishDownload, ReadsUnits
  <2>2. InUse(downloading[c])
    BY <2>1, ReadsUnitsFacts
  <2>3. ~InUse(downloading'[c]) /\ \A d \in Conns : d # c => downloading'[d] = downloading[d]
    BY <2>1, NoFileFacts DEF Inv, TypeOK, ClientTypeOK
  <2>4. ~InUse(uploading'[c])
    BY <2>1, <2>2 DEF Inv, FarInv, FarOK
  <2> QED
    BY <1>1, <2>1, <2>3, <2>4, EndWaits
<1>12. ASSUME NEW c \in Conns, DivideByZero(c) PROVE WaitInv'
  <2>1. Die(owner[c]) /\ toServer' = toServer /\ owner[c] \in Procs
    BY <1>12, OwnerFacts DEF DivideByZero
  <2> QED
    BY <1>8, <2>1
<1>13. ASSUME NEW c \in Conns, Transfer(c) PROVE WaitInv'
  BY <1>1, <1>9, <1>10, <1>11, <1>12, <1>13, UploadWaits DEF Transfer
<1>14. ASSUME NEW p \in Procs, ServerResponse(p) \/ Input(p) PROVE WaitInv'
  BY <1>2, <1>3, <1>4, <1>5, <1>6, <1>7, <1>8, <1>14 DEF ServerResponse, Input, Killed
<1> QED
  BY <1>1, <1>13, <1>14 DEF ClientStep

LEMMA NextWaits ==
  ASSUME Inv, WaitInv, [Next]_vars
  PROVE  WaitInv'
<1>1. ASSUME UNCHANGED vars PROVE WaitInv'
  <2>1. UNCHANGED <<near, far, toServer, receiving, sending, uploading, downloading>>
    BY <1>1 DEF vars, streamVars, serverVars, clientVars
  <2>2. \A c \in Conns : WaitOK(c)'
    <3> SUFFICES ASSUME NEW c \in Conns PROVE WaitOK(c)'
      OBVIOUS
    <3> QED
      BY <2>1, SameRequests, WaitParts, WaitSame
  <2> QED
    BY <2>2, WaitParts
<1> QED
  BY <1>1, ServerWaits, ClientsWait DEF Next, Over

LEMMA InitWaits ==
  ASSUME Init
  PROVE  WaitInv
<1> SUFFICES ASSUME NEW c \in Conns PROVE WaitOK(c)
  BY WaitParts
<1>1. /\ ~InUse(receiving[c]) /\ ~InUse(sending[c])
      /\ ~InUse(uploading[c]) /\ ~InUse(downloading[c])
  BY NoFileFacts DEF Init, ServerInit, ClientInit
<1>2. ~Asked(c, "put") /\ ~Asked(c, "get")
  <2>1. toServer[c] = <<>>
    BY DEF Init, StreamsInit
  <2> QED
    BY <2>1 DEF Asked
<1> QED
  BY <1>1, <1>2, Zenon DEF WaitOK

(* Nobody waits for what will not come (handle_client, receive_file, send_file *)
(* of server.cpp; upload_file, download_file of client.cpp): a transfer that   *)
(* one end has begun has its other end, or will have it when the server reads  *)
(* the request, or that end is closed; however fast the server is and whoever  *)
(* is killed.                                                                  *)
THEOREM TransfersHaveTwoEnds == Spec => []NobodyWaitsInVain
<1>1. Init => WaitInv
  BY InitWaits
<1>2. Inv /\ WaitInv /\ [Next]_vars => WaitInv'
  BY NextWaits
<1>3. WaitInv => NobodyWaitsInVain
  BY DEF WaitInv
<1> QED
  BY <1>1, <1>2, <1>3, Invariance, PTL DEF Spec

-----------------------------------------------------------------------------
(* Clients get what they asked for, and notifications of their own user's      *)
(* files, from a server that writes to descriptors it remembers.               *)

HearOK(c) ==
  far[c] = "open" => \A i \in 1..Len(toClient[c]) : TheirOwn(c, toClient[c][i])

FilesGrow == \A u \in Owners : client_files[u] \subseteq client_files'[u]

LEMMA OwnParts ==
  /\ OwnInv <=> \A c \in Conns : HearOK(c) /\ NameOK(c) /\ KnownOK(c)
  /\ OwnInv' <=> \A c \in Conns : HearOK(c)' /\ NameOK(c)' /\ KnownOK(c)'
  BY DEF OwnInv, ClientsGetTheirOwn, HearOK

(* What a client has still to read stays its own. *)
LEMMA TheirOwnStays ==
  ASSUME Inv, NEW c \in Conns, NEW item \in Notices \cup Units, TheirOwn(c, item),
         FilesGrow, owner'[c] = owner[c],
         InUse(downloading'[c]) <=> InUse(downloading[c])
  PROVE  TheirOwn(c, item)'
<1>1. item.type = "put" => item.user \in Owners
  BY NoticeFacts
<1> QED
  BY <1>1 DEF TheirOwn, FilesGrow

LEMMA HearPrimed ==
  ASSUME NEW c \in Conns,
         far'[c] = "open" => \A i \in 1..Len(toClient'[c]) :
           \E item : toClient'[c][i] = item /\ TheirOwn(c, item)'
  PROVE  HearOK(c)'
<1> SUFFICES ASSUME far'[c] = "open", NEW i \in 1..Len(toClient'[c])
             PROVE  /\ toClient'[c][i].type = "data" <=> InUse(downloading'[c])
                    /\ toClient'[c][i].type = "put" =>
                         /\ toClient'[c][i].user = UserOf[owner'[c]]
                         /\ toClient'[c][i].file \in client_files'[toClient'[c][i].user]
  BY DEF HearOK, TheirOwn
<1>1. PICK item : toClient'[c][i] = item /\ TheirOwn(c, item)'
  OBVIOUS
<1> QED
  BY <1>1 DEF TheirOwn

LEMMA HearSame ==
  ASSUME Inv, NEW c \in Conns, HearOK(c), FilesGrow,
         far'[c] = "open" =>
           /\ far[c] = "open" /\ owner'[c] = owner[c]
           /\ InUse(downloading'[c]) <=> InUse(downloading[c])
           /\ \A i \in 1..Len(toClient'[c]) :
                \E j \in 1..Len(toClient[c]) : toClient'[c][i] = toClient[c][j]
  PROVE  HearOK(c)'
<1> SUFFICES ASSUME far'[c] = "open", NEW i \in 1..Len(toClient'[c])
             PROVE  \E item : toClient'[c][i] = item /\ TheirOwn(c, item)'
  BY HearPrimed
<1>1. PICK j \in 1..Len(toClient[c]) : toClient'[c][i] = toClient[c][j]
  OBVIOUS
<1>2. toClient[c][j] \in Notices \cup Units
  BY DEF Inv, TypeOK, StreamsTypeOK
<1>3. TheirOwn(c, toClient[c][j])
  BY DEF HearOK
<1>4. PICK item : item = toClient[c][j]
  OBVIOUS
<1>5. TheirOwn(c, item)'
  BY <1>2, <1>3, <1>4, TheirOwnStays
<1> QED
  BY <1>1, <1>4, <1>5

(* The server writes what belongs to those it writes to. *)
LEMMA HearWritten ==
  ASSUME Inv, OwnInv, FilesGrow, UNCHANGED clientVars,
         NEW S \in SUBSET Conns, NEW items \in Seq(Notices \cup Units), NEW again,
         Write(S, items, again),
         \A d \in S : far[d] = "open" => \A j \in 1..Len(items) : TheirOwn(d, items[j])'
  PROVE  \A d \in Conns : HearOK(d)'
<1> SUFFICES ASSUME NEW d \in Conns, far'[d] = "open", NEW i \in 1..Len(toClient'[d])
             PROVE  \E item : toClient'[d][i] = item /\ TheirOwn(d, item)'
  BY HearPrimed
<1>1. /\ far[d] = "open"
      /\ d \notin S => toClient'[d] = toClient[d]
      /\ \/ i \in 1..Len(toClient[d]) /\ toClient'[d][i] = toClient[d][i]
         \/ \E j \in 1..Len(items) : toClient'[d][i] = items[j]
  BY WriteFacts DEF Inv, TypeOK
<1>2. owner' = owner /\ downloading' = downloading
  BY DEF clientVars
<1>3. ASSUME i \in 1..Len(toClient[d]), toClient'[d][i] = toClient[d][i]
      PROVE  \E item : toClient'[d][i] = item /\ TheirOwn(d, item)'
  <2>1. PICK item : item = toClient[d][i]
    OBVIOUS
  <2>2. item \in Notices \cup Units
    BY <1>3, <2>1 DEF Inv, TypeOK, StreamsTypeOK
  <2>3. TheirOwn(d, item)
    BY <1>1, <1>3, <2>1, OwnParts DEF HearOK
  <2>4. TheirOwn(d, item)'
    BY <1>2, <2>2, <2>3, TheirOwnStays
  <2> QED
    BY <1>3, <2>1, <2>4
<1> QED
  BY <1>1, <1>3

LEMMA NameSame ==
  ASSUME NEW c \in Conns, NameOK(c),
         far'[c] = "open" =>
           /\ far[c] = "open" /\ owner'[c] = owner[c]
           /\ name_map'[c] = name_map[c] \/ name_map'[c] = ""
           /\ \A i \in 1..Len(toServer'[c]) :
                \/ \E j \in 1..Len(toServer[c]) : toServer'[c][i] = toServer[c][j]
                \/ toServer'[c][i].type \notin {"name", "exit"}
  PROVE  NameOK(c)'
<1> SUFFICES ASSUME far'[c] = "open"
             PROVE  /\ name_map'[c] # "" => name_map'[c] = UserOf[owner'[c]]
                    /\ ~Asked(c, "exit")'
                    /\ \A i \in 1..Len(toServer'[c]) :
                         toServer'[c][i].type = "name" =>
                           toServer'[c][i].user = UserOf[owner'[c]]
  BY DEF NameOK
<1>1. /\ name_map[c] # "" => name_map[c] = UserOf[owner[c]]
      /\ ~Asked(c, "exit")
      /\ \A i \in 1..Len(toServer[c]) :
           toServer[c][i].type = "name" => toServer[c][i].user = UserOf[owner[c]]
  BY DEF NameOK
<1> QED
  BY <1>1 DEF Asked

LEMMA KnownSame ==
  ASSUME Inv, NEW c \in Conns, KnownOK(c), FilesGrow,
         InUse(receiving'[c]) =>
           /\ InUse(receiving[c]) /\ receiving'[c].file_name = receiving[c].file_name
           /\ fd_file_map'[c] = fd_file_map[c]
  PROVE  KnownOK(c)'
<1>1. InUse(receiving[c]) => fd_file_map[c] \in Owners
  BY DEF Inv, TypeOK, ServerTypeOK
<1> QED
  BY <1>1 DEF KnownOK, FilesGrow

LEMMA ServerGrows ==
  ASSUME Inv, NEW c \in Conns, Server(c)
  PROVE  FilesGrow
<1>1. \/ client_files' = client_files
      \/ \E user, name : client_files' = [client_files EXCEPT ![user] = @ \cup {name}]
  BY DEF Server, ServerStep, Accept, HandleClient, Hangup, Leave, Disconnect, Ignore, Name,
         Get, Put, PutWithData, StartReceive, ReceiveFile, ReceiveMore, FinishReceive,
         SendFile, SendChunk, FinishSend, serverVars, tableVars
<1> QED
  BY <1>1 DEF FilesGrow, Inv, TypeOK, ServerTypeOK

(* The steps of the server but for those that write. *)
LEMMA SilenceHears ==
  ASSUME Inv, OwnInv, FilesGrow, UNCHANGED clientVars, far' = far, toClient' = toClient
  PROVE  \A d \in Conns : HearOK(d)'
<1>1. owner' = owner /\ downloading' = downloading
  BY DEF clientVars
<1> QED
  BY <1>1, OwnParts, HearSame

(* A client that has not closed is given the name that it sent. *)
LEMMA NamedAsGiven ==
  ASSUME Inv, OwnInv, NEW c \in Conns, NEW n \in 1..Len(toServer[c]), Name(c, n),
         far[c] = "open"
  PROVE  CommandOf(c, n).user = UserOf[owner[c]]
<1>1. CommandOf(c, n).type = "name" /\ toServer[c][1].type = "name"
  BY CommandFacts DEF Name, Reads, Inv, TypeOK
<1>2. Len(toServer[c]) \in Nat /\ 1 \in 1..Len(toServer[c])
  BY DEF Inv, TypeOK, StreamsTypeOK
<1>3. /\ \A i \in 1..Len(toServer[c]) : toServer[c][i].type # "exit"
      /\ toServer[c][1].user = UserOf[owner[c]]
  BY <1>1, <1>2, OwnParts DEF NameOK, Asked
<1>4. PICK read : read = First(toServer[c], n)
  OBVIOUS
<1>5. /\ toServer[c] \in Seq(Requests \cup Units)
      /\ n \in Nat /\ n <= Len(toServer[c]) /\ n >= 1
  BY <1>2 DEF Inv, TypeOK, StreamsTypeOK
<1>6. /\ Len(read) = Lesser(n, Len(toServer[c]))
      /\ \A i \in 1..Len(read) : read[i] = toServer[c][i]
  BY <1>4, <1>5, FirstFacts
<1>7. Len(read) = n
  BY <1>5, <1>6 DEF Lesser
<1>8. read[1] = toServer[c][1] /\ (n > 1 => read[2].type # "exit")
  BY <1>3, <1>5, <1>6, <1>7
<1>9. CommandOf(c, n) = Command(read)
  BY <1>4 DEF CommandOf
<1> QED
  BY <1>1, <1>3, <1>7, <1>8, <1>9 DEF Command

(* The welcome, and the files of the user that the connection was given to. *)
LEMMA NameHears ==
  ASSUME Inv, OwnInv, NEW c \in Conns, NEW n \in 1..Len(toServer[c]), Name(c, n), Server(c)
  PROVE  \A d \in Conns : HearOK(d)'
<1>0. PICK user, items :
        user = CommandOf(c, n).user /\ items = <<[type |-> "welcome"]>> \o Catalogue(user)
  OBVIOUS
<1>1. /\ CommandOf(c, n).type = "name" /\ UNCHANGED clientVars
      /\ Write({c}, items, client_files[user] # {})
      /\ client_files' = client_files
  BY <1>0 DEF Name, Reads, Server
<1>2. toServer[c][1].type = "name" /\ user \in Owners
  BY <1>0, <1>1, CommandFacts DEF Inv, TypeOK
<1>3. Len(toServer[c]) \in Nat /\ 1 \in 1..Len(toServer[c])
  BY DEF Inv, TypeOK, StreamsTypeOK
<1>4. ~InUse(downloading[c])
  BY <1>2, <1>3 DEF Inv, NearInv, StreamOK, ItemOK, CommandTypes, Idle
<1>5. far[c] = "open" => user = UserOf[owner[c]]
  BY <1>0, NamedAsGiven
<1>6. /\ items \in Seq(Notices \cup Units)
      /\ \A j \in 1..Len(items) :
           /\ items[j].type # "data"
           /\ items[j].type = "put" => items[j].user = user /\ items[j].file \in client_files[user]
  <2>1. /\ Catalogue(user) \in Seq(Notices)
        /\ \A j \in 1..Len(Catalogue(user)) : Catalogue(user)[j].file \in client_files[user]
    BY <1>2, CatalogueFacts DEF Inv, TypeOK
  <2>2. \A j \in 1..Len(Catalogue(user)) :
          Catalogue(user)[j].type = "put" /\ Catalogue(user)[j].user = user
    BY DEF Catalogue, PutLine
  <2>3. [type |-> "welcome"] \in Notices
    BY LineFacts
  <2> DEFINE files == Catalogue(user)
  <2>4. items = <<[type |-> "welcome"]>> \o files
    BY <1>0
  <2> HIDE DEF files
  <2>5. /\ files \in Seq(Notices)
        /\ \A j \in 1..Len(files) : files[j].type = "put" /\ files[j].user = user
                                    /\ files[j].file \in client_files[user]
    BY <2>1, <2>2 DEF files
  <2>6. /\ items \in Seq(Notices) /\ Len(items) = 1 + Len(files)
        /\ items[1] = [type |-> "welcome"]
        /\ \A j \in 2..Len(items) : j - 1 \in 1..Len(files) /\ items[j] = files[j - 1]
    BY <2>3, <2>4, <2>5
  <2>7. \A j \in 1..Len(items) : j = 1 \/ j \in 2..Len(items)
    BY <2>6
  <2> QED
    BY <2>5, <2>6, <2>7
<1>7. owner' = owner /\ downloading' = downloading
  BY <1>1 DEF clientVars
<1>8. far[c] = "open" => \A j \in 1..Len(items) : TheirOwn(c, items[j])'
  BY <1>1, <1>4, <1>5, <1>6, <1>7 DEF TheirOwn
<1> QED
  BY <1>1, <1>6, <1>8, HearWritten, ServerGrows

(* sync_peers: the connections of the user are those of clients that gave it. *)
LEMMA SyncHears ==
  ASSUME Inv, OwnInv, NEW c \in Conns, NEW n \in 0..Chunk, FinishReceive(c, n), Server(c)
  PROVE  \A d \in Conns : HearOK(d)'
<1>0. PICK info, user, line, S :
        /\ info = receiving[c] /\ user = fd_file_map[c] /\ S = name_clients_map[user]
        /\ line = PutLine(info.file_name, Len(folder'[info.file_name]), user)
  OBVIOUS
<1>1. /\ ReadsData(c, n) /\ UNCHANGED clientVars /\ client_files' = client_files
      /\ \/ Write(S, <<line>>, FALSE)
         \/ far' = far /\ toClient' = toClient
  BY <1>0 DEF FinishReceive, Server
<1>2. /\ InUse(info) /\ info.file_name \in Names /\ user \in Owners
      /\ Len(folder'[info.file_name]) \in Nat
  <2>1. /\ InUse(info) /\ info.file_name \in Names /\ folder' \in [Names -> Seq(Units)]
    BY <1>0, <1>1, ReadsDataFacts
  <2>2. user \in Owners
    BY <1>0, <2>1 DEF Inv, TypeOK, ServerTypeOK
  <2> QED
    BY <2>1, <2>2
<1>3. info.file_name \in client_files[user]
  BY <1>0, <1>2, OwnParts DEF KnownOK
<1>4. /\ line \in Notices
      /\ line.type = "put" /\ line.user = user /\ line.file = info.file_name
  BY <1>0, <1>2, LineFacts DEF PutLine
<1>5. S \in SUBSET Conns /\ \A d \in S : name_map[d] = user
  BY <1>0, <1>2 DEF Inv, NamesAgree, clients
<1>6. owner' = owner /\ downloading' = downloading
  BY <1>1 DEF clientVars
<1>7. ASSUME NEW d \in S, far[d] = "open" PROVE TheirOwn(d, line)'
  <2>1. d \in Conns /\ name_map[d] = user /\ user # ""
    BY <1>2, <1>5, OwnersHaveNames
  <2>2. user = UserOf[owner[d]]
    BY <1>7, <2>1, OwnParts DEF NameOK
  <2>3. ~InUse(downloading[d])
    BY <2>1 DEF Inv, NearInv, NamedOK, Idle
  <2> QED
    BY <1>1, <1>3, <1>4, <1>6, <2>2, <2>3 DEF TheirOwn
<1>8. PICK items : items = <<line>>
  OBVIOUS
<1>9. items \in Seq(Notices \cup Units) /\ Len(items) = 1 /\ items[1] = line
  BY <1>4, <1>8
<1>10. \A d \in S : far[d] = "open" => \A j \in 1..Len(items) : TheirOwn(d, items[j])'
  BY <1>7, <1>9
<1>11. ASSUME Write(S, <<line>>, FALSE) PROVE \A d \in Conns : HearOK(d)'
  BY <1>1, <1>5, <1>8, <1>9, <1>10, <1>11, HearWritten, ServerGrows
<1> QED
  BY <1>1, <1>11, SilenceHears, ServerGrows

LEMMA SendHears ==
  ASSUME Inv, WaitInv, OwnInv, NEW c \in Conns, SendChunk(c), Server(c)
  PROVE  \A d \in Conns : HearOK(d)'
<1>0. PICK info, units :
        info = sending[c] /\ units = NextUnits(folder[info.file_name], info)
  OBVIOUS
<1>1. /\ InUse(info) /\ UNCHANGED clientVars /\ client_files' = client_files
      /\ Write(IF units = <<>> THEN {} ELSE {c}, units, FALSE)
  BY <1>0 DEF SendChunk, Server, tableVars
<1>2. units \in Seq(Units)
  <2>1. info \in FileInfos /\ info.file_name \in Names
    BY <1>0, <1>1, InUseFacts DEF Inv, TypeOK, ServerTypeOK
  <2>2. folder[info.file_name] \in Seq(Units)
    BY <2>1 DEF Inv, TypeOK, ServerTypeOK
  <2> QED
    BY <1>0, <2>1, <2>2, NextUnitsFacts
<1>3. far[c] = "open" => InUse(downloading[c])
  BY <1>0, <1>1 DEF WaitInv, NobodyWaitsInVain
<1>4. units \in Seq(Notices \cup Units) /\ \A j \in 1..Len(units) : units[j].type = "data"
  BY <1>2, UnitFacts
<1>5. owner' = owner /\ downloading' = downloading
  BY <1>1 DEF clientVars
<1>6. far[c] = "open" => \A j \in 1..Len(units) : TheirOwn(c, units[j])'
  BY <1>3, <1>4, <1>5 DEF TheirOwn
<1>7. (IF units = <<>> THEN {} ELSE {c}) \in SUBSET Conns
  OBVIOUS
<1>8. \A d \in (IF units = <<>> THEN {} ELSE {c}) :
        far[d] = "open" => \A j \in 1..Len(units) : TheirOwn(d, units[j])'
  BY <1>6
<1> QED
  BY <1>1, <1>4, <1>7, <1>8, HearWritten, ServerGrows

LEMMA ServerHears ==
  ASSUME Inv, WaitInv, OwnInv, NEW c \in Conns, Server(c)
  PROVE  \A d \in Conns : HearOK(d)'
<1>1. UNCHANGED clientVars /\ FilesGrow /\ ServerStep(c)
  BY ServerGrows DEF Server
<1>2. ASSUME NEW n \in 0..Chunk, ReceiveMore(c, n) PROVE far' = far /\ toClient' = toClient
  BY <1>2 DEF ReceiveMore
<1>3. ASSUME NEW n \in 1..Len(toServer[c]),
             Leave(c, n) \/ Ignore(c, n) \/ Get(c, n) \/ Put(c, n) \/ PutWithData(c, n)
      PROVE  far' = far /\ toClient' = toClient
  BY <1>3 DEF Leave, Disconnect, Ignore, Get, Put, PutWithData
<1>4. ASSUME Accept(c) \/ Hangup(c) \/ FinishSend(c) PROVE far' = far /\ toClient' = toClient
  BY <1>4 DEF Accept, Hangup, Disconnect, FinishSend
<1> QED
  BY <1>1, <1>2, <1>3, <1>4, SilenceHears, NameHears, SyncHears, SendHears
     DEF ServerStep, HandleClient, ReceiveFile, SendFile

(* The server names a connection as its client does, and forgets the name of one *)
(* that it closes.                                                             *)
LEMMA ServerNames ==
  ASSUME Inv, OwnInv, NEW c \in Conns, Server(c)
  PROVE  \A d \in Conns : NameOK(d)'
<1> SUFFICES ASSUME NEW d \in Conns, far'[d] = "open" PROVE NameOK(d)'
  BY DEF NameOK
<1>1. /\ UNCHANGED clientVars /\ ServerStep(c) /\ StreamsTypeOK /\ NameOK(d)
      /\ owner' = owner
  BY OwnParts DEF Server, Inv, TypeOK, clientVars
<1>2. ASSUME far[d] = "open", name_map'[d] = name_map[d] \/ name_map'[d] = "",
             \A i \in 1..Len(toServer'[d]) :
               \E j \in 1..Len(toServer[d]) : toServer'[d][i] = toServer[d][j]
      PROVE  NameOK(d)'
  BY <1>1, <1>2, NameSame
<1>3. ASSUME far[d] = "open", name_map'[d] = name_map[d] \/ name_map'[d] = "",
             NEW m \in 0..Len(toServer[c]), Consume(c, m)
      PROVE  NameOK(d)'
  BY <1>1, <1>2, <1>3, ConsumeFacts
<1>4. ASSUME far[d] = "open", name_map'[d] = name_map[d] \/ name_map'[d] = "", CloseNear(c)
      PROVE  NameOK(d)'
  <2>1. Len(toServer'[c]) = 0 /\ (d # c => toServer'[d] = toServer[d])
    BY <1>1, <1>4, CloseNearFacts
  <2>2. CASE d = c
    <3>1. \A i \in 1..Len(toServer'[d]) : FALSE
      BY <2>1, <2>2
    <3> QED
      BY <1>2, <1>4, <3>1
  <2>3. CASE d # c
    BY <1>2, <1>4, <2>1, <2>3
  <2> QED
    BY <2>2, <2>3
<1>5. \A n \in 1..Len(toServer[c]) : n \in 0..Len(toServer[c])
  BY <1>1 DEF StreamsTypeOK
<1>6. CASE Accept(c)
  BY <1>2, <1>6 DEF Accept, serverVars, tableVars
<1>7. ASSUME Disconnect(c) PROVE NameOK(d)'
  <2>1. name_map'[d] = name_map[d] \/ name_map'[d] = ""
    BY <1>7 DEF Disconnect, ForgetName, Inv, TypeOK, ServerTypeOK
  <2> QED
    BY <1>4, <1>7, <2>1 DEF Disconnect
<1>8. ASSUME NEW n \in 1..Len(toServer[c]),
             Ignore(c, n) \/ Get(c, n) \/ Put(c, n) \/ PutWithData(c, n)
      PROVE  NameOK(d)'
  <2>1. Consume(c, n) /\ far' = far /\ name_map' = name_map
    BY <1>8 DEF Ignore, Get, Put, PutWithData, serverVars, tableVars
  <2> QED
    BY <1>3, <1>5, <2>1
<1>9. ASSUME NEW n \in 1..Len(toServer[c]), Name(c, n) PROVE NameOK(d)'
  <2>1. PICK user : user = CommandOf(c, n).user
    OBVIOUS
  <2>2. /\ CommandOf(c, n).type = "name" /\ Consume(c, n)
        /\ name_map' = [name_map EXCEPT ![c] = user]
    BY <1>9, <2>1 DEF Name, Reads
  <2>3. far[d] = "open"
    <3>1. PICK items, again : Write({c}, items, again)
      BY <1>9 DEF Name
    <3> QED
      BY <1>1, <3>1 DEF Write, StreamsTypeOK
  <2>4. CASE d # c
    <3>1. name_map'[d] = name_map[d]
      BY <2>2, <2>4 DEF Inv, TypeOK, ServerTypeOK
    <3> QED
      BY <1>3, <1>5, <2>2, <2>3, <3>1
  <2>5. CASE d = c
    <3>1. user = UserOf[owner[c]]
      BY <1>9, <2>1, <2>3, <2>5, NamedAsGiven
    <3>2. \A i \in 1..Len(toServer'[c]) :
            \E j \in 1..Len(toServer[c]) : toServer'[c][i] = toServer[c][j]
      BY <1>1, <1>5, <2>2, ConsumeFacts
    <3>3. name_map'[c] = user
      BY <2>2 DEF Inv, TypeOK, ServerTypeOK
    <3> QED
      BY <1>1, <2>3, <2>5, <3>1, <3>2, <3>3 DEF NameOK, Asked
  <2> QED
    BY <2>4, <2>5
<1>10. ASSUME NEW n \in 0..Chunk, ReceiveMore(c, n) PROVE NameOK(d)'
  <2> DEFINE m == IF n = 0 THEN Len(toServer[c]) ELSE n
  <2>1. /\ ReadsData(c, n) /\ Consume(c, m) /\ far' = far /\ name_map' = name_map
    BY <1>10 DEF ReceiveMore
  <2>2. m \in 0..Len(toServer[c])
    BY <1>1, <2>1, ReadsDataFacts DEF StreamsTypeOK
  <2> HIDE DEF m
  <2> QED
    BY <1>3, <2>1, <2>2
<1>11. ASSUME NEW n \in 0..Chunk, FinishReceive(c, n) PROVE NameOK(d)'
  <2>1. CloseNear(c) /\ name_map' = name_map
    BY <1>11 DEF FinishReceive
  <2>2. far[d] = "open"
    <3>1. far' = far \/ \E S, items : Write(S, items, FALSE)
      BY <1>11 DEF FinishReceive
    <3> QED
      BY <1>1, <3>1 DEF Write, StreamsTypeOK
  <2> QED
    BY <1>4, <2>1, <2>2
<1>12. CASE SendChunk(c)
  <2>1. toServer' = toServer /\ name_map' = name_map
    BY <1>12 DEF SendChunk, tableVars
  <2>2. far[d] = "open"
    <3>1. \E S, items : Write(S, items, FALSE)
      BY <1>12 DEF SendChunk
    <3> QED
      BY <1>1, <3>1 DEF Write, StreamsTypeOK
  <2> QED
    BY <1>2, <2>1, <2>2
<1>13. CASE FinishSend(c)
  BY <1>4, <1>13 DEF FinishSend, tableVars
<1> QED
  BY <1>1, <1>6, <1>7, <1>8, <1>9, <1>10, <1>11, <1>12, <1>13
     DEF ServerStep, HandleClient, Hangup, Leave, ReceiveFile, SendFile

(* An upload's name is in its user's set from its first step on. *)
LEMMA ServerKnows ==
  ASSUME Inv, OwnInv, NEW c \in Conns, Server(c)
  PROVE  \A d \in Conns : KnownOK(d)'
<1> SUFFICES ASSUME NEW d \in Conns PROVE KnownOK(d)'
  OBVIOUS
<1>1. FilesGrow /\ KnownOK(d) /\ ServerStep(c) /\ ServerTypeOK
  BY ServerGrows, OwnParts DEF Server, Inv, TypeOK
<1>2. ASSUME receiving'[d].file_name = receiving[d].file_name \/ ~InUse(receiving'[d]),
             fd_file_map'[d] = fd_file_map[d]
      PROVE  KnownOK(d)'
  BY <1>1, <1>2, KnownSame DEF InUse
<1>3. ASSUME receiving' = receiving, fd_file_map' = fd_file_map PROVE KnownOK(d)'
  BY <1>2, <1>3
<1>4. ASSUME NEW n \in 1..Len(toServer[c]), Put(c, n) \/ PutWithData(c, n) PROVE KnownOK(d)'
  <2>1. PICK user, units : /\ user \in {Garbled, CommandOf(c, n).user}
                           /\ StartReceive(c, user, CommandOf(c, n), units)
    BY <1>4 DEF Put, PutWithData
  <2>2. CommandOf(c, n).type = "put"
    BY <1>4 DEF Put, PutWithData, Reads
  <2>3. CommandOf(c, n).user \in Users
    BY <2>2, CommandFacts, RequestFacts DEF Inv, TypeOK
  <2>4. user \in Owners
    BY <2>1, <2>3 DEF Owners
  <2>5. PICK name : name = StoredName(user, CommandOf(c, n).file[1])
    OBVIOUS
  <2>6. /\ client_files' = [client_files EXCEPT ![user] = @ \cup {name}]
        /\ fd_file_map' = [fd_file_map EXCEPT ![c] = user]
        /\ \E info : receiving' = [receiving EXCEPT ![c] = info] /\ info.file_name = name
    <3>1. \A size, current :
            [FileInfo(name, size) EXCEPT !.current = current].file_name = name
      BY DEF FileInfo
    <3> QED
      BY <2>1, <2>5, <3>1 DEF StartReceive
  <2>7. CASE d = c
    BY <1>1, <2>4, <2>6, <2>7 DEF KnownOK, ServerTypeOK
  <2>8. CASE d # c
    BY <1>1, <1>2, <2>6, <2>8 DEF ServerTypeOK
  <2> QED
    BY <2>7, <2>8
<1>5. ASSUME NEW n \in 0..Chunk, ReceiveMore(c, n) \/ FinishReceive(c, n) PROVE KnownOK(d)'
  <2>1. /\ fd_file_map' = fd_file_map
        /\ \/ receiving' = [receiving EXCEPT ![c].current = @ + n]
           \/ receiving' = [receiving EXCEPT ![c] = NoFile]
    BY <1>5 DEF ReceiveMore, FinishReceive
  <2>2. receiving'[d].file_name = receiving[d].file_name \/ ~InUse(receiving'[d])
    <3>1. receiving \in [Conns -> FileInfos]
      BY <1>1 DEF ServerTypeOK
    <3>2. receiving' = [receiving EXCEPT ![c].current = @ + n] =>
            receiving'[d].file_name = receiving[d].file_name
      BY <3>1 DEF FileInfos
    <3> QED
      BY <1>1, <2>1, <3>2, NoFileFacts DEF ServerTypeOK
  <2> QED
    BY <1>2, <2>1, <2>2
<1>6. ASSUME NEW n \in 1..Len(toServer[c]), Leave(c, n) \/ Ignore(c, n) \/ Name(c, n) \/ Get(c, n)
      PROVE  KnownOK(d)'
  BY <1>3, <1>6 DEF Leave, Disconnect, Ignore, Name, Get, serverVars, tableVars
<1> QED
  BY <1>1, <1>3, <1>4, <1>5, <1>6
     DEF ServerStep, HandleClient, ReceiveFile, SendFile, Accept, Hangup, Disconnect,
         SendChunk, FinishSend, serverVars, tableVars

LEMMA ServerOwns ==
  ASSUME Inv, WaitInv, OwnInv, NEW c \in Conns, Server(c)
  PROVE  OwnInv'
  BY OwnParts, ServerHears, ServerNames, ServerKnows

(* A client changes nothing of what the server knows. *)
LEMMA ClientsLeave ==
  ASSUME Inv, OwnInv, UNCHANGED serverVars
  PROVE  FilesGrow /\ name_map' = name_map /\ \A c \in Conns : KnownOK(c)'
<1>1. /\ client_files' = client_files /\ receiving' = receiving
      /\ fd_file_map' = fd_file_map /\ name_map' = name_map
  BY DEF serverVars, tableVars
<1>2. FilesGrow
  BY <1>1 DEF FilesGrow
<1> QED
  BY <1>1, <1>2, OwnParts, KnownSame

(* A connection is opened with nothing on it but the first line. *)
LEMMA OpenOwns ==
  ASSUME Inv, OwnInv, NEW p \in Procs, NEW line \in Requests, Open(p, line),
         UNCHANGED serverVars, LeavesPart,
         line.type # "exit", line.type = "name" => line.user = UserOf[p],
         \A d \in Conns : d # Fresh =>
           InUse(downloading'[d]) <=> InUse(downloading[d])
  PROVE  OwnInv'
<1>1. PICK k :
      /\ k = Fresh
      /\ Usable # {} /\ far'[k] = "open" /\ owner'[k] = p
      /\ Len(toServer'[k]) = 1 /\ toServer'[k][1] = line
      /\ \A d \in Conns : d # k =>
           /\ far'[d] = far[d] /\ owner'[d] = owner[d] /\ toServer'[d] = toServer[d]
  BY OpenFacts
<1>2. k \in Conns /\ name_map[k] = "" /\ Len(toClient[k]) = 0
  BY <1>1, FreshFacts
<1>3. FilesGrow /\ name_map' = name_map /\ \A c \in Conns : KnownOK(c)'
  BY ClientsLeave
<1>4. \A c \in Conns : \A i \in 1..Len(toClient'[c]) :
        \E j \in 1..Len(toClient[c]) : toClient'[c][i] = toClient[c][j]
  BY DEF LeavesPart
<1>5. HearOK(k)'
  <2>1. \A i \in 1..Len(toClient'[k]) : FALSE
    <3>1. Len(toClient[k]) = 0
      BY <1>2
    <3>2. \A j \in 1..Len(toClient[k]) : FALSE
      BY <3>1
    <3> QED
      BY <1>2, <1>4, <3>2
  <2> QED
    BY <1>2, <2>1, HearPrimed
<1>6. NameOK(k)'
  <2>1. ~Asked(k, "exit")'
    BY <1>1 DEF Asked
  <2> QED
    <3>1. name_map'[k] = ""
      BY <1>2, <1>3
    <3>2. \A i \in 1..Len(toServer'[k]) :
            toServer'[k][i].type = "name" => toServer'[k][i].user = UserOf[owner'[k]]
      BY <1>1
    <3> QED
      BY <2>1, <3>1, <3>2, Zenon DEF NameOK
<1>7. ASSUME NEW d \in Conns, d # k PROVE HearOK(d)' /\ NameOK(d)'
  <2>1. HearOK(d) /\ NameOK(d)
    BY OwnParts
  <2>2. HearOK(d)'
    BY <1>1, <1>3, <1>4, <1>7, <2>1, HearSame
  <2>3. NameOK(d)'
    BY <1>1, <1>3, <1>7, <2>1, NameSame
  <2> QED
    BY <2>2, <2>3
<1> QED
  BY <1>3, <1>5, <1>6, <1>7, OwnParts

(* A client that opens no connection writes no name, and `/exit' only when it dies. *)
LEMMA GoingOnOwns ==
  ASSUME Inv, OwnInv, UNCHANGED serverVars,
         \A c \in Conns : far'[c] = "open" =>
           /\ far[c] = "open" /\ owner'[c] = owner[c]
           /\ InUse(downloading'[c]) <=> InUse(downloading[c])
           /\ \A i \in 1..Len(toClient'[c]) :
                \E j \in 1..Len(toClient[c]) : toClient'[c][i] = toClient[c][j]
           /\ \A i \in 1..Len(toServer'[c]) :
                \/ \E j \in 1..Len(toServer[c]) : toServer'[c][i] = toServer[c][j]
                \/ toServer'[c][i].type \notin {"name", "exit"}
  PROVE  OwnInv'
<1>1. FilesGrow /\ name_map' = name_map /\ \A c \in Conns : KnownOK(c)'
  BY ClientsLeave
<1>2. ASSUME NEW c \in Conns PROVE HearOK(c)' /\ NameOK(c)'
  BY <1>1, <1>2, OwnParts, HearSame, NameSame
<1> QED
  BY <1>1, <1>2, OwnParts

(* Connections are closed. *)
LEMMA ReleaseOwns ==
  ASSUME Inv, OwnInv, UNCHANGED serverVars, NEW S \in SUBSET Conns, NEW unread,
         Release(S, unread),
         \A c \in Conns \ S : downloading'[c] = downloading[c] /\ toServer'[c] = toServer[c]
  PROVE  OwnInv'
<1>1. ASSUME NEW c \in Conns, far'[c] = "open"
      PROVE  /\ c \notin S /\ far[c] = "open" /\ owner'[c] = owner[c]
             /\ toClient'[c] = toClient[c]
  BY <1>1 DEF Release, CloseFar
<1> QED
  BY <1>1, GoingOnOwns

LEMMA DieOwns ==
  ASSUME Inv, OwnInv, NEW p \in Procs, Die(p), UNCHANGED serverVars,
         \A c \in Conns \ Mine(p) : toServer'[c] = toServer[c]
  PROVE  OwnInv'
<1>1. PICK S, unread :
        /\ S = Mine(p) /\ Release(S, unread)
        /\ downloading' = [c \in Conns |-> IF c \in S THEN NoFile ELSE downloading[c]]
  BY DEF Die
<1>2. S \in SUBSET Conns
  BY <1>1 DEF Mine
<1> QED
  BY <1>1, <1>2, ReleaseOwns

(* What comes into a stream was there, or is one of the items written to it.   *)
LEMMA QueuedFacts ==
  ASSUME NEW S, NEW queue \in Seq(S), NEW items \in Seq(S), Len(queue) <= Capacity
  PROVE  \A i \in 1..Len(Fit(queue, items)) :
           \/ \E j \in 1..Len(queue) : Fit(queue, items)[i] = queue[j]
           \/ \E j \in 1..Len(items) : Fit(queue, items)[i] = items[j]
  BY FitFacts

LEMMA UploadOwns ==
  ASSUME Inv, OwnInv, NEW c \in Conns, UploadChunk(c), UNCHANGED serverVars
  PROVE  OwnInv'
<1>1. PICK info, units :
        /\ info = uploading[c] /\ units = NextUnits(disk[owner[c]][info.file_name], info)
        /\ InUse(info) /\ toServer' = [toServer EXCEPT ![c] = Fit(@, units)]
        /\ UNCHANGED <<far, toClient, owner, downloading>>
  BY DEF UploadChunk
<1>2. info \in FileInfos /\ info.file_name \in Names /\ owner[c] \in Procs
  BY <1>1, InUseFacts, OwnerFacts DEF Inv, TypeOK, ClientTypeOK
<1>3. disk[owner[c]][info.file_name] \in Seq(Units)
  BY <1>2 DEF Inv, TypeOK, ClientTypeOK
<1>4. units \in Seq(Units)
  BY <1>1, <1>2, <1>3, NextUnitsFacts
<1>5. units \in Seq(Requests \cup Units) /\ \A i \in 1..Len(units) : units[i].type = "data"
  BY <1>4, UnitFacts
<1>6. toServer \in [Conns -> Seq(Requests \cup Units)] /\ Len(toServer[c]) <= Capacity
  BY DEF Inv, TypeOK, StreamsTypeOK
<1>7. \A i \in 1..Len(toServer'[c]) :
        \/ \E j \in 1..Len(toServer[c]) : toServer'[c][i] = toServer[c][j]
        \/ toServer'[c][i].type = "data"
  <2>1. toServer'[c] = Fit(toServer[c], units)
    BY <1>1, <1>6
  <2>2. toServer[c] \in Seq(Requests \cup Units)
    BY <1>6
  <2>3. \A i \in 1..Len(Fit(toServer[c], units)) :
          \/ \E j \in 1..Len(toServer[c]) : Fit(toServer[c], units)[i] = toServer[c][j]
          \/ \E j \in 1..Len(units) : Fit(toServer[c], units)[i] = units[j]
    BY <1>5, <1>6, <2>2, QueuedFacts
  <2> QED
    BY <1>5, <2>1, <2>3
<1>8. \A d \in Conns : d # c => toServer'[d] = toServer[d]
  BY <1>1, <1>6
<1> QED
  BY <1>1, <1>7, <1>8, GoingOnOwns

LEMMA ClientsOwn ==
  ASSUME Inv, OwnInv, Clients
  PROVE  OwnInv'
<1>1. UNCHANGED serverVars /\ ClientStep
  BY DEF Clients
<1>2. ASSUME NEW p \in Procs, Start(p) PROVE OwnInv'
  <2>1. PICK line : /\ line = [type |-> "name", user |-> UserOf[p]]
                    /\ Open(p, line) /\ toClient' = toClient /\ downloading' = downloading
    BY <1>2 DEF Start
  <2>2. line \in Requests /\ line.type = "name" /\ line.user = UserOf[p]
    BY <2>1, LineFacts, DropboxAssumption DEF DropboxAssumption
  <2>3. LeavesPart
    BY <2>1, LeavesAll DEF Inv, TypeOK
  <2> QED
    BY <1>1, <2>1, <2>2, <2>3, OpenOwns
<1>3. ASSUME NEW p \in Procs, NEW f \in Files, TypePut(p, f) PROVE OwnInv'
  <2>1. PICK name, size, line :
          /\ name = <<f, 0>> /\ size = Len(disk[p][name])
          /\ line = PutLine(name, size, UserOf[p])
          /\ Open(p, line) /\ toClient' = toClient /\ downloading' = downloading
    BY <1>3 DEF TypePut
  <2>2. name \in Names
    BY <2>1, BoundsFacts DEF Names
  <2>3. size \in Nat
    <3>1. disk[p][name] \in Seq(Units)
      BY <2>2 DEF Inv, TypeOK, ClientTypeOK
    <3> QED
      BY <2>1, <3>1
  <2>4. line \in Requests /\ line.type = "put"
    BY <2>1, <2>2, <2>3, LineFacts, DropboxAssumption DEF DropboxAssumption, PutLine
  <2>5. LeavesPart
    BY <2>1, LeavesAll DEF Inv, TypeOK
  <2> QED
    BY <1>1, <2>1, <2>4, <2>5, OpenOwns
<1>4. ASSUME NEW p \in Procs, NEW n \in 1..Capacity, ReadNew(p, n) PROVE OwnInv'
  <2>1. PICK head, line, info :
          /\ head = Head(toClient[fd_cmd[p]]) /\ line = [type |-> "get", file |-> head.file]
          /\ Response(p, n) /\ head.type = "put" /\ Open(p, line)
          /\ downloading' = [downloading EXCEPT ![Fresh] = info]
    BY <1>4 DEF ReadNew
  <2>2. head \in Notices \cup Units /\ LeavesPart
    BY <2>1, ResponseFacts
  <2>3. line \in Requests /\ line.type = "get"
    BY <2>1, <2>2, NoticeFacts, LineFacts
  <2>4. \A d \in Conns : d # Fresh => downloading'[d] = downloading[d]
    BY <2>1 DEF Inv, TypeOK, ClientTypeOK
  <2> QED
    BY <1>1, <2>1, <2>2, <2>3, <2>4, OpenOwns
<1>5. ASSUME NEW p \in Procs, NEW n \in 1..Capacity, ReadKnown(p, n) PROVE OwnInv'
  <2>1. /\ Response(p, n) /\ far' = far /\ toServer' = toServer
        /\ owner' = owner /\ downloading' = downloading
    BY <1>5 DEF ReadKnown, clientVars
  <2>2. \A c \in Conns : \A i \in 1..Len(toClient'[c]) :
          \E j \in 1..Len(toClient[c]) : toClient'[c][i] = toClient[c][j]
    BY <2>1, ResponseFacts DEF LeavesPart
  <2> QED
    BY <1>1, <2>1, <2>2, GoingOnOwns
<1>6. ASSUME NEW p \in Procs, TypeSleep(p) PROVE OwnInv'
  <2>1. PICK k, queue :
          /\ k = fd_cmd[p] /\ k \in Conns /\ queue = toServer[k]
          /\ toServer' = [toServer EXCEPT ![k] = Fit(queue, <<[type |-> "sleep"]>>)]
          /\ UNCHANGED <<far, toClient, owner, downloading>>
    BY <1>6 DEF TypeSleep, Tell, Inv, ProcsInv, ProcOK, clientVars
  <2>2. /\ toServer \in [Conns -> Seq(Requests \cup Units)]
        /\ queue \in Seq(Requests \cup Units) /\ Len(queue) <= Capacity
    BY <2>1 DEF Inv, TypeOK, StreamsTypeOK
  <2>3. PICK items : items = <<[type |-> "sleep"]>>
    OBVIOUS
  <2>4. /\ items \in Seq(Requests \cup Units)
        /\ \A j \in 1..Len(items) : items[j].type = "sleep"
    BY <2>3, LineFacts
  <2>5. \A i \in 1..Len(toServer'[k]) :
          \/ \E j \in 1..Len(toServer[k]) : toServer'[k][i] = toServer[k][j]
          \/ toServer'[k][i].type = "sleep"
    <3>1. toServer'[k] = Fit(queue, items)
      BY <2>1, <2>2, <2>3
    <3>2. \A i \in 1..Len(Fit(queue, items)) :
            \/ \E j \in 1..Len(queue) : Fit(queue, items)[i] = queue[j]
            \/ \E j \in 1..Len(items) : Fit(queue, items)[i] = items[j]
      <4>1. PICK S : S = Requests \cup Units
        OBVIOUS
      <4>2. queue \in Seq(S) /\ items \in Seq(S) /\ Len(queue) <= Capacity
        BY <2>2, <2>4, <4>1
      <4> QED
        BY <4>2, QueuedFacts
    <3>3. \A i \in 1..Len(Fit(queue, items)) :
            \/ \E j \in 1..Len(queue) : Fit(queue, items)[i] = queue[j]
            \/ Fit(queue, items)[i].type = "sleep"
      BY <2>4, <3>2
    <3> QED
      BY <2>1, <3>1, <3>3
  <2>6. \A d \in Conns : d # k => toServer'[d] = toServer[d]
    BY <2>1, <2>2
  <2> QED
    BY <1>1, <2>1, <2>5, <2>6, GoingOnOwns
<1>7. ASSUME NEW p \in Procs, TypeExit(p) PROVE OwnInv'
  <2>1. state[p] = "connected" /\ Tell(p, "exit") /\ Die(p)
    BY <1>7 DEF TypeExit
  <2>2. fd_cmd[p] \in Mine(p)
    BY <2>1 DEF Inv, ProcsInv, ProcOK, Mine
  <2>3. \A c \in Conns \ Mine(p) : toServer'[c] = toServer[c]
    BY <2>1, <2>2 DEF Tell, Inv, TypeOK, StreamsTypeOK
  <2> QED
    BY <1>1, <2>1, <2>3, DieOwns
<1>8. ASSUME NEW p \in Procs, Die(p), toServer' = toServer PROVE OwnInv'
  BY <1>1, <1>8, DieOwns
<1>9. ASSUME NEW c \in Conns, FinishUpload(c) PROVE OwnInv'
  BY <1>1, <1>9, ReleaseOwns DEF FinishUpload
<1>10. ASSUME NEW c \in Conns, NEW n \in 0..Chunk, DownloadMore(c, n) PROVE OwnInv'
  <2>1. /\ ReadsUnits(c, n) /\ downloading' = [downloading EXCEPT ![c].current = @ + n]
        /\ far' = far /\ toServer' = toServer /\ owner' = owner
        /\ toClient' = [toClient EXCEPT ![c] = AllBut(@, n)]
    BY <1>10 DEF DownloadMore, ReadsUnits
  <2>2. n \in 0..Len(toClient[c])
    BY <2>1, ReadsUnitsFacts
  <2>3. \A d \in Conns : InUse(downloading'[d]) <=> InUse(downloading[d])
    BY <2>1 DEF Inv, TypeOK, ClientTypeOK, FileInfos, InUse
  <2>4. LeavesPart
    BY <2>1, <2>2, ReadLeavesPart DEF Inv, TypeOK
  <2> QED
    BY <1>1, <2>1, <2>3, <2>4, GoingOnOwns DEF LeavesPart
<1>11. ASSUME NEW c \in Conns, NEW n \in 0..Chunk, FinishDownload(c, n) PROVE OwnInv'
  <2>1. /\ \E unread : Release({c}, unread)
        /\ downloading' = [downloading EXCEPT ![c] = NoFile] /\ toServer' = toServer
    BY <1>11 DEF FinishDownload, ReadsUnits
  <2>2. \A d \in Conns \ {c} : downloading'[d] = downloading[d]
    BY <2>1 DEF Inv, TypeOK, ClientTypeOK
  <2> QED
    BY <1>1, <2>1, <2>2, ReleaseOwns
<1>12. ASSUME NEW c \in Conns, DivideByZero(c) PROVE OwnInv'
  <2>1. Die(owner[c]) /\ toServer' = toServer /\ owner[c] \in Procs
    BY <1>12, OwnerFacts DEF DivideByZero
  <2> QED
    BY <1>8, <2>1
<1>13. ASSUME NEW c \in Conns, Transfer(c) PROVE OwnInv'
  BY <1>1, <1>9, <1>10, <1>11, <1>12, <1>13, UploadOwns DEF Transfer
<1>14. ASSUME NEW p \in Procs, ServerResponse(p) \/ Input(p) PROVE OwnInv'
  BY <1>2, <1>3, <1>4, <1>5, <1>6, <1>7, <1>8, <1>14 DEF ServerResponse, Input, Killed
<1> QED
  BY <1>1, <1>13, <1>14 DEF ClientStep

LEMMA NextOwns ==
  ASSUME Inv, WaitInv, OwnInv, [Next]_vars
  PROVE  OwnInv'
<1>1. ASSUME UNCHANGED vars PROVE OwnInv'
  <2>1. /\ UNCHANGED serverVars
        /\ UNCHANGED <<far, toClient, toServer, owner, downloading>>
    BY <1>1 DEF vars, streamVars, clientVars
  <2> QED
    BY <2>1, GoingOnOwns
<1> QED
  BY <1>1, ServerOwns, ClientsOwn DEF Next, Over

(* What reaches a client is what it asked for: data and nothing else where it   *)
(* downloads, and notifications of files that its own user has stored           *)
(* elsewhere; although sync_peers writes to descriptors that the server         *)
(* remembers of a user, and that are closed and handed out again.               *)
THEOREM ClientsHearOfTheirOwn == Spec => []ClientsGetTheirOwn
<1>1. Init => WaitInv /\ OwnInv
  <2> SUFFICES ASSUME Init PROVE WaitInv /\ OwnInv
    OBVIOUS
  <2>1. WaitInv
    BY InitWaits
  <2>2. ASSUME NEW c \in Conns PROVE HearOK(c) /\ NameOK(c) /\ KnownOK(c)
    <3>1. far[c] = "closed"
      BY DEF Init, StreamsInit
    <3>2. ~InUse(receiving[c])
      BY NoFileFacts DEF Init, ServerInit
    <3> QED
      BY <3>1, <3>2 DEF HearOK, NameOK, KnownOK
  <2> QED
    BY <2>1, <2>2, OwnParts
<1>2. Inv /\ WaitInv /\ OwnInv /\ [Next]_vars => WaitInv' /\ OwnInv'
  BY NextWaits, NextOwns
<1>3. OwnInv => ClientsGetTheirOwn
  BY DEF OwnInv
<1> QED
  BY <1>1, <1>2, <1>3, Invariance, PTL DEF Spec
=============================================================================
