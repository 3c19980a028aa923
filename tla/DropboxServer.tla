---------------------------- MODULE DropboxServer ----------------------------
(***************************************************************************)
(* The server of hw3 (hw3/server.cpp): one process, one epoll loop, level  *)
(* triggered.  A connection carries either the commands of a client, or    *)
(* one upload, or one download.                                            *)
(***************************************************************************)
EXTENDS DropboxFiles

CONSTANTS
  Users,   \* the names clients give
  Garbled  \* a user name that ran together with what was sent after it

ASSUME DropboxServerAssumption ==
  Garbled \notin Users /\ "" \notin Users \cup {Garbled}

VARIABLES
  name_map,          \* the user a command connection belongs to, or ""
  name_clients_map,  \* the command connections of a user
  client_files,      \* the names of a user's files
  receiving,         \* the file a connection uploads, or NoFile
  sending,           \* the file a connection downloads, or NoFile
  fail_count,        \* reads that brought nothing, of an upload
  fd_file_map,       \* the user an upload belongs to
  folder,            \* the server's directory: what is in the file of a name
  shared             \* (history) the names announced by sync_peers

tableVars == <<name_map, name_clients_map, client_files, fail_count, fd_file_map>>
serverVars == <<tableVars, receiving, sending, folder, shared>>

Owners == Users \cup {Garbled}
ServerInit ==
  /\ name_map = [c \in Conns |-> ""]
  /\ name_clients_map = [u \in Owners |-> {}]
  /\ client_files = [u \in Owners |-> {}]
  /\ receiving = [c \in Conns |-> NoFile]
  /\ sending = [c \in Conns |-> NoFile]
  /\ fail_count = [c \in Conns |-> 0]
  /\ fd_file_map = [c \in Conns |-> ""]
  /\ folder = [n \in Names |-> <<>>]
  /\ shared = {}

clients == {c \in Conns : near[c] = "open"}

-----------------------------------------------------------------------------
(* Server::run: connections. *)

Accept(c) ==
  /\ alive
  /\ near[c] = "pending"
  /\ near' = [near EXCEPT ![c] = "open"]
  /\ UNCHANGED <<far, toServer, toClient, alive, serverVars>>

(* Mutant of ForgetName: the connection stays in its user's set. *)
ForgetNameOnly(c) ==
  /\ name_map' = [name_map EXCEPT ![c] = ""]
  /\ UNCHANGED name_clients_map

(* disconnect: the connection leaves both maps. *)
ForgetName(c) ==
  /\ name_clients_map' = [u \in Owners |-> IF u = name_map[c]
                            THEN name_clients_map[u] \ {c} ELSE name_clients_map[u]]
  /\ name_map' = [name_map EXCEPT ![c] = ""]

Disconnect(c) ==
  /\ ForgetName(c)
  /\ CloseNear(c)
  /\ UNCHANGED <<far, toClient, alive, client_files, receiving, sending,
                 fail_count, fd_file_map, folder, shared>>

-----------------------------------------------------------------------------
(* Server::handle_client: commands.  What was sent in several writes may be    *)
(* read at once, with nothing between one and the next.                        *)

(* What the tokens of the read items make: a name that is followed by "/exit"  *)
(* is another name; followed by anything with a word of its own it is nothing. *)
Command(items) ==
  LET head == items[1] IN
  CASE head.type = "name" /\ Len(items) = 2 /\ items[2].type = "exit" ->
         [head EXCEPT !.user = Garbled]
    [] head.type = "name" /\ Len(items) > 1 /\ items[2].type # "exit" ->
         [type |-> "none"]
    [] OTHER -> head

CommandOf(c, n) == Command(First(toServer[c], n))

(* handle_client reads n items that make a command of this type. *)
Reads(c, n, type) ==
  /\ alive
  /\ c \in clients
  /\ ~InUse(receiving[c]) /\ ~InUse(sending[c])
  /\ n \in 1..Len(toServer[c])
  /\ CommandOf(c, n).type = type

Consume(c, n) ==
  toServer' = [toServer EXCEPT ![c] = AllBut(@, n)]

(* The end of the stream. *)
Hangup(c) ==
  /\ alive
  /\ c \in clients
  /\ ~InUse(receiving[c]) /\ ~InUse(sending[c])
  /\ EndOfStream(c)
  /\ Disconnect(c)

(* `/exit' *)
Leave(c, n) == Reads(c, n, "exit") /\ Disconnect(c)

(* `/sleep', and what the coalesced commands make: no branch takes it. *)
Ignore(c, n) ==
  /\ Reads(c, n, "sleep") \/ Reads(c, n, "none")
  /\ Consume(c, n)
  /\ UNCHANGED <<near, far, toClient, alive, serverVars>>

(* Mutant of Catalogue: of an upload under way, the size it is to have. *)
CatalogueOfRequests(user) ==
  LET names == SetToSeq(client_files[user])
      uploads(n) == {c \in Conns : receiving[c].file_name = n}
      size(n) == IF uploads(n) = {} THEN Len(folder[n])
                 ELSE receiving[CHOOSE c \in uploads(n) : TRUE].size IN
  [i \in DOMAIN names |-> PutLine(names[i], size(names[i]), user)]

(* sync_new_connection: a notification for each file of the user, with what is *)
(* there of it, whether it is whole, still comes, or broke off.                *)
Catalogue(user) ==
  LET names == SetToSeq(client_files[user]) IN
  [i \in DOMAIN names |-> PutLine(names[i], Len(folder[names[i]]), user)]

(* `/name': the welcome and the notifications are separate writes. *)
Name(c, n) ==
  LET user == CommandOf(c, n).user IN
  /\ Reads(c, n, "name")
  /\ Consume(c, n)
  /\ name_map' = [name_map EXCEPT ![c] = user]
  /\ name_clients_map' = [name_clients_map EXCEPT ![user] = @ \cup {c}]
  /\ Write({c}, <<[type |-> "welcome"]>> \o Catalogue(user), client_files[user] # {})
  /\ UNCHANGED <<near, client_files, receiving, sending, fail_count, fd_file_map,
                 folder, shared>>

(* `/get': from now on the connection waits to be written to. *)
Get(c, n) ==
  LET name == CommandOf(c, n).file IN
  /\ Reads(c, n, "get")
  /\ Consume(c, n)
  /\ sending' = [sending EXCEPT ![c] = FileInfo(name, Len(folder[name]))]
  /\ UNCHANGED <<near, far, toClient, alive, tableVars, receiving, folder, shared>>

(* Mutant of StoredName: the user's files are not looked through. *)
GivenName(user, f) == <<f, 0>>

(* The name a user's file is stored under: the first that the user has not. *)
StoredName(user, f) ==
  LET free == {k \in 0..MaxCopies : <<f, k>> \notin client_files[user]} IN
  <<f, CHOOSE k \in free : \A j \in free : k <= j>>

(* (Bound of the model.)  There is still a name. *)
HasName(user, f) == \E k \in 0..MaxCopies : <<f, k>> \notin client_files[user]

(* Mutant of StartReceive: the upload's user is not remembered. *)
StartReceiveForNobody(c, user, request, units) ==
  LET name == StoredName(user, request.file[1]) IN
  /\ HasName(user, request.file[1])
  /\ client_files' = [client_files EXCEPT ![user] = @ \cup {name}]
  /\ receiving' = [receiving EXCEPT ![c] =
                     [FileInfo(name, request.size) EXCEPT !.current = Len(units)]]
  /\ folder' = [folder EXCEPT ![name] = units]
  /\ UNCHANGED fd_file_map

(* The upload begins with units in hand; opening the stream empties the file. *)
StartReceive(c, user, request, units) ==
  LET name == StoredName(user, request.file[1]) IN
  /\ HasName(user, request.file[1])
  /\ client_files' = [client_files EXCEPT ![user] = @ \cup {name}]
  /\ fd_file_map' = [fd_file_map EXCEPT ![c] = user]
  /\ receiving' = [receiving EXCEPT ![c] =
                     [FileInfo(name, request.size) EXCEPT !.current = Len(units)]]
  /\ folder' = [folder EXCEPT ![name] = units]

(* `/put' that is read before any data is there. *)
Put(c, n) ==
  /\ n = 1
  /\ Reads(c, n, "put")
  /\ Consume(c, n)
  /\ StartReceive(c, CommandOf(c, n).user, CommandOf(c, n), <<>>)
  /\ UNCHANGED <<near, far, toClient, alive, name_map, name_clients_map, fail_count,
                 sending, shared>>

(* `/put' that is read together with data: the data up to its first blank is     *)
(* taken for a part of the user's name and is lost with that blank, all of it    *)
(* if it has no other. Data that begins with a blank, or is blank, loses only    *)
(* that, and leaves the user's name as it is. The lines that end an upload       *)
(* within `/put' (server.cpp:122-135) never run: only when a word follows the    *)
(* user's is anything written here, so that there is data, and the blank before  *)
(* that word is lost, so that the file is not complete.                          *)
PutWithData(c, n) ==
  /\ n > 1
  /\ Reads(c, n, "put")
  /\ Consume(c, n)
  /\ \E word \in 1..(n - 1), user \in {Garbled, CommandOf(c, n).user} :
       /\ user = Garbled \/ word \in {1, n - 1}
       /\ StartReceive(c, user, CommandOf(c, n), SubSeq(toServer[c], word + 2, n))
  /\ UNCHANGED <<near, far, toClient, alive, name_map, name_clients_map, fail_count,
                 sending, shared>>

HandleClient(c) ==
  \/ Hangup(c)
  \/ \E n \in 1..Len(toServer[c]) :
       \/ Leave(c, n)
       \/ Ignore(c, n)
       \/ Name(c, n)
       \/ Get(c, n)
       \/ Put(c, n)
       \/ PutWithData(c, n)

-----------------------------------------------------------------------------
(* Server::receive_file *)

(* A read of n items, none only at the end of the stream, is written out. *)
ReadsData(c, n) ==
  LET info == receiving[c] IN
  /\ alive
  /\ c \in clients
  /\ InUse(info)
  /\ n \in 0..Lesser(Chunk, Len(toServer[c]))
  /\ n = 0 => EndOfStream(c)
  /\ folder' = [folder EXCEPT ![info.file_name] =
                  WriteAt(@, info.current, First(toServer[c], n))]

(* Mutant of CountEmpty: empty reads are not counted. *)
CountNone(c, n) == UNCHANGED fail_count

(* Mutant of CountEmpty: the count is not reset by the third. *)
CountOn(c, n) ==
  fail_count' = IF n > 0 THEN fail_count ELSE [fail_count EXCEPT ![c] = @ + 1]

(* fail_count: empty reads are counted, and the third is the last. *)
CountEmpty(c, n) ==
  fail_count' = IF n > 0 THEN fail_count ELSE [fail_count EXCEPT ![c] = (@ + 1) % 3]

(* More is to come, or nothing came for the first or second time. *)
ReceiveMore(c, n) ==
  /\ ReadsData(c, n)
  /\ IF n = 0 THEN fail_count[c] < 2 ELSE ~Done(receiving[c], n)
  /\ CountEmpty(c, n)
  /\ receiving' = [receiving EXCEPT ![c].current = @ + n]
  /\ Consume(c, IF n = 0 THEN Len(toServer[c]) ELSE n)
  /\ UNCHANGED <<near, far, toClient, alive, name_map, name_clients_map, client_files,
                 fd_file_map, sending, shared>>

(* The upload is over.  A complete file is closed and announced to the user's  *)
(* connections (sync_peers).                                                  *)
FinishReceive(c, n) ==
  LET info == receiving[c]
      user == fd_file_map[c] IN
  /\ ReadsData(c, n)
  /\ IF n = 0 THEN fail_count[c] = 2 ELSE Done(info, n)
  /\ CountEmpty(c, n)
  /\ receiving' = [receiving EXCEPT ![c] = NoFile]
  /\ CloseNear(c)
  /\ IF Done(info, n)
     THEN /\ Write(name_clients_map[user],
                   <<PutLine(info.file_name, Len(folder'[info.file_name]), user)>>, FALSE)
          /\ shared' = shared \cup {info.file_name}
     ELSE UNCHANGED <<toClient, far, alive, shared>>
  /\ UNCHANGED <<name_map, name_clients_map, client_files, fd_file_map, sending>>

ReceiveFile(c) ==
  \E n \in 0..Chunk : ReceiveMore(c, n) \/ FinishReceive(c, n)

-----------------------------------------------------------------------------
(* Server::send_file *)

(* The event is there when the buffer has room, or the other end is gone. *)
CanWrite(c) == HasRoom(toClient[c]) \/ far[c] # "open"

SendChunk(c) ==
  LET info == sending[c]
      units == NextUnits(folder[info.file_name], info) IN
  /\ alive
  /\ InUse(info) /\ ~info.eof
  /\ CanWrite(c)
  /\ sending' = [sending EXCEPT ![c] = AfterRead(info, units)]
  /\ Write(IF units = <<>> THEN {} ELSE {c}, units, FALSE)
  /\ UNCHANGED <<near, toServer, tableVars, receiving, folder, shared>>

(* Mutant of FinishSend: the connection is not closed. *)
FinishSendKeepsOpen(c) ==
  /\ alive
  /\ InUse(sending[c]) /\ sending[c].eof
  /\ CanWrite(c)
  /\ sending' = [sending EXCEPT ![c] = NoFile]
  /\ UNCHANGED <<streamVars, tableVars, receiving, folder, shared>>

FinishSend(c) ==
  /\ alive
  /\ InUse(sending[c]) /\ sending[c].eof
  /\ CanWrite(c)
  /\ sending' = [sending EXCEPT ![c] = NoFile]
  /\ CloseNear(c)
  /\ UNCHANGED <<far, toClient, alive, tableVars, receiving, folder, shared>>

SendFile(c) == SendChunk(c) \/ FinishSend(c)

ServerStep(c) == Accept(c) \/ HandleClient(c) \/ ReceiveFile(c) \/ SendFile(c)
=============================================================================
