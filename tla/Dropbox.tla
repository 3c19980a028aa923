------------------------------- MODULE Dropbox -------------------------------
(***************************************************************************)
(* The server of hw3 and its clients, connected by TCP.  Every step is one *)
(* handler of one process.                                                 *)
(***************************************************************************)
EXTENDS DropboxServer, DropboxClient

ASSUME DropboxAssumption == UserOf \in [Procs -> Users]

vars == <<streamVars, serverVars, clientVars>>

Init == StreamsInit /\ ServerInit /\ ClientInit

(* Every transfer is over and every stream is read. *)
Quiet ==
  \A c \in Conns :
    /\ near[c] = "open" <=> far[c] = "open"
    /\ near[c] # "pending"
    /\ ~InUse(receiving[c]) /\ ~InUse(sending[c])
    /\ ~InUse(uploading[c]) /\ ~InUse(downloading[c])
    /\ toServer[c] = <<>> /\ toClient[c] = <<>>

(* All wait for the users, or the server is dead. *)
Over == (~alive \/ Quiet) /\ UNCHANGED vars

Server(c) == ServerStep(c) /\ UNCHANGED clientVars
Clients == alive /\ ClientStep /\ UNCHANGED <<alive, serverVars>>

Next == (\E c \in Conns : Server(c)) \/ Clients \/ Over

Spec == Init /\ [][Next]_vars
-----------------------------------------------------------------------------
Requests ==
       [type : {"name"}, user : Users]
  \cup [type : {"put"}, file : Names, size : Nat, user : Users]
  \cup [type : {"get"}, file : Names]
  \cup [type : {"sleep", "exit"}]

Notices ==
       [type : {"put"}, file : Names, size : Nat, user : Owners]
  \cup [type : {"welcome"}]

Units == [type : {"data"}, of : Files \X Procs, at : Nat \ {0}] \cup {Hole}

FileInfos ==
  [file_name : Names \cup {NoName}, current : Nat, size : Nat, eof : BOOLEAN]

StreamsTypeOK ==
  /\ near \in [Conns -> {"closed", "pending", "open"}]
  /\ far \in [Conns -> {"closed", "open", "reset"}]
  /\ toServer \in [Conns -> Seq(Requests \cup Units)]
  /\ toClient \in [Conns -> Seq(Notices \cup Units)]
  /\ \A c \in Conns : Len(toServer[c]) <= Capacity /\ Len(toClient[c]) <= Capacity
  /\ alive \in BOOLEAN

ServerTypeOK ==
  /\ name_map \in [Conns -> Owners \cup {""}]
  /\ name_clients_map \in [Owners -> SUBSET Conns]
  /\ client_files \in [Owners -> SUBSET Names]
  /\ receiving \in [Conns -> FileInfos]
  /\ sending \in [Conns -> FileInfos]
  /\ fail_count \in [Conns -> Nat]
  /\ fd_file_map \in [Conns -> Owners \cup {""}]
  /\ \A c \in Conns : InUse(receiving[c]) => fd_file_map[c] \in Owners
  /\ folder \in [Names -> Seq(Units)]
  /\ shared \subseteq Names

ClientTypeOK ==
  /\ state \in [Procs -> {"new", "connected", "gone"}]
  /\ owner \in [Conns -> Procs \cup {NoProc}]
  /\ fd_cmd \in [Procs -> Conns \cup {NoConn}]
  /\ local_files \in [Procs -> SUBSET Names]
  /\ uploading \in [Conns -> FileInfos]
  /\ downloading \in [Conns -> FileInfos]
  /\ disk \in [Procs -> [Names -> Seq(Units)]]
  /\ puts \in 0..MaxCopies + 1

TypeOK == StreamsTypeOK /\ ServerTypeOK /\ ClientTypeOK

(* Who is told of a user's files: exactly the connections that are open and    *)
(* gave that name.  A descriptor that is closed and handed out again belongs   *)
(* to no user before it says so (disconnect, sync_peers).                      *)
NamesAgree ==
  \A u \in Owners : name_clients_map[u] = {c \in clients : name_map[c] = u}

(* What reaches a client is what it asked for: data and nothing else where it  *)
(* downloads, notifications where it gives commands, and those of files of its *)
(* own user only.  The server writes to descriptors that it remembers of an    *)
(* upload's user (sync_peers), which may have been closed and be another's.    *)
TheirOwn(c, item) ==
  /\ item.type = "data" <=> InUse(downloading[c])
  /\ item.type = "put" =>
       item.user = UserOf[owner[c]] /\ item.file \in client_files[item.user]

ClientsGetTheirOwn ==
  \A c \in Conns : far[c] = "open" =>
    \A i \in 1..Len(toClient[c]) : TheirOwn(c, toClient[c][i])

(* The server has still to read such a request. *)
Asked(c, type) == \E i \in 1..Len(toServer[c]) : toServer[c][i].type = type

(* Nobody waits for what will not come: who uploads or downloads has at the    *)
(* other end a server that does the same, that has still to read the request,  *)
(* or that has closed; and what the server receives or sends has a client at   *)
(* the other end that does the same, or nobody any more.  Whatever was killed, *)
(* coalesced or cut short, on this or an earlier connection of that descriptor. *)
NobodyWaitsInVain ==
  \A c \in Conns :
    /\ InUse(uploading[c]) =>
         InUse(receiving[c]) \/ Asked(c, "put") \/ near[c] = "closed"
    /\ InUse(downloading[c]) =>
         InUse(sending[c]) \/ Asked(c, "get") \/ near[c] = "closed"
    /\ InUse(receiving[c]) => InUse(uploading[c]) \/ far[c] # "open"
    /\ InUse(sending[c]) => InUse(downloading[c]) \/ far[c] # "open"

(* Nothing of a connection outlives it in the server's maps that the next use  *)
(* of its descriptor would find: no transfer, no count of failed reads.        *)
FreshDescriptors ==
  \A c \in Conns \ clients :
    ~InUse(receiving[c]) /\ ~InUse(sending[c]) /\ fail_count[c] = 0 /\ name_map[c] = ""

(* What a client is told of a file is so, whichever of the two tells it:       *)
(* sync_peers, or sync_new_connection, which also names files whose upload is  *)
(* under way or has broken off.  The server has as much of the file as the     *)
(* line says, all of it one client's, and lacks a part of it exactly as long   *)
(* as sync_peers has not announced it.  (An empty file lacks nothing before.)  *)
NoticeIsTrue(line) ==
  LET f == line.file[1]
      file == folder[line.file] IN
  /\ line.size <= Len(file)
  /\ \E p \in Procs :
       /\ IsPrefix(file, Content(f, p))
       /\ SizeOf[f] > 0 => (line.file \in shared <=> file = Content(f, p))

NoticesAreTrue ==
  \A c \in Conns : \A i \in 1..Len(toClient[c]) :
    toClient[c][i].type = "put" => NoticeIsTrue(toClient[c][i])

(* A file that sync_peers announced is never written again: two files put      *)
(* under one name get two names (the loop of handle_client that makes          *)
(* "name(n)").                                                                 *)
SharedStays ==
  [][\A n \in shared : n \in shared' /\ folder'[n] = folder[n]]_vars

(* Nothing of an upload is lost or read as something else: what the client has *)
(* read of its file is what the server has stored and what is under way.       *)
UploadArrives ==
  \A c \in Conns : InUse(uploading[c]) /\ InUse(receiving[c]) =>
    receiving[c].current + Len(toServer[c]) = uploading[c].current

(* What a client has of a file it asked for is a beginning of the server's     *)
(* file, also when the file is still growing, or one of its own.               *)
DownloadIsPrefix ==
  \A p \in Procs : \A n \in local_files[p] :
    IsPrefix(disk[p][n], folder[n]) \/ disk[p][n] = Content(n[1], p)

-----------------------------------------------------------------------------
(* Each process runs when it has something to do: the server's loop while      *)
(* epoll reports an event, a client's while select() reports a descriptor.     *)
(* Nothing is assumed of the users, nor of the order in which a loop takes     *)
(* what is reported.                                                           *)
FairServer == WF_vars(\E c \in Conns : Server(c))

Loop(p) == (\E c \in Mine(p) : Transfer(c)) \/ ServerResponse(p)
FairClient(p) == WF_vars(alive /\ Loop(p) /\ UNCHANGED <<alive, serverVars>>)

FairSpec == Spec /\ FairServer /\ \A p \in Procs : FairClient(p)

(* Every transfer ends, on both sides, also one whose other end was killed:    *)
(* three empty reads end an upload.                                            *)
Busy(c) ==
  InUse(receiving[c]) \/ InUse(sending[c]) \/ InUse(uploading[c]) \/ InUse(downloading[c])

TransfersEnd == \A c \in Conns : Busy(c) ~> ~Busy(c) \/ ~alive

(* An upload whose client stays is announced by sync_peers in the end.         *)
UploadIsShared ==
  \A n \in Names, p \in Procs :
    (\E c \in Conns : receiving[c].file_name = n /\ owner[c] = p)
      ~> n \in shared \/ state[p] = "gone" \/ ~alive

(* "if no file present in current local_file, download files": a file that a   *)
(* client was told of is downloaded in the end.                                *)
Told(p, n) ==
  /\ state[p] = "connected"
  /\ \E i \in 1..Len(toClient[fd_cmd[p]]) :
       /\ toClient[fd_cmd[p]][i].type = "put"
       /\ toClient[fd_cmd[p]][i].file = n

NotifiedIsFetched ==
  \A p \in Procs, n \in Names :
    Told(p, n) ~> n \in local_files[p] \/ state[p] = "gone" \/ ~alive

-----------------------------------------------------------------------------
(***************************************************************************)
(* The dropbox of users who have no file name in common implements         *)
(* SharedFolder: a file is published when sync_peers announces it, and     *)
(* held by the clients whose copy is the server's.  A client runs once: it *)
(* is not started again in the directory that it left.                     *)
(***************************************************************************)
Published == {<<n, folder[n]>> : n \in shared}
Holders == {h \in Procs \X shared : disk[h[1]][h[2]] = folder[h[2]]}

Folder == INSTANCE SharedFolder WITH
  Wholes <- [n \in Names |-> {Content(n[1], p) : p \in Procs}],
  published <- Published, holders <- Holders

ImplementsSharedFolder == Folder!FolderSpec
=============================================================================
