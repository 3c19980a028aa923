----------------------------- MODULE DropboxInv -----------------------------
(***************************************************************************)
(* The inductive invariants behind the safety properties of Dropbox.       *)
(***************************************************************************)
EXTENDS Dropbox

(* What is sent on a command connection, and what on the others. *)
CommandTypes == {"name", "sleep", "exit"}

(* No file moves on the connection, as far as either end knows. *)
Idle(c) ==
  /\ ~InUse(receiving[c]) /\ ~InUse(sending[c])
  /\ ~InUse(uploading[c]) /\ ~InUse(downloading[c])

(* A connection that has a user is open and carries commands only. *)
NamedOK(c) == name_map[c] # "" => near[c] = "open" /\ Idle(c)

(* A request comes first on a connection that has had none; commands and the   *)
(* rest never meet on one connection.                                          *)
ItemOK(c, i) ==
  LET type == toServer[c][i].type IN
  /\ type \in CommandTypes =>
       Idle(c) /\ \A j \in 1..Len(toServer[c]) : toServer[c][j].type \in CommandTypes
  /\ type \notin CommandTypes => name_map[c] = ""
  /\ type \in {"name", "put", "get"} =>
       i = 1 /\ name_map[c] = "" /\ ~InUse(receiving[c]) /\ ~InUse(sending[c])

StreamOK(c) == \A i \in 1..Len(toServer[c]) : ItemOK(c, i)

(* A connection carries one transfer; the server's maps know nothing of a      *)
(* descriptor that it has not open.                                            *)
NearOK(c) ==
  /\ ~InUse(receiving[c]) \/ ~InUse(sending[c])
  /\ near[c] # "open" => ~InUse(receiving[c]) /\ ~InUse(sending[c]) /\ name_map[c] = ""

(* The client's end is open as long as it has an owner, and carries one        *)
(* transfer; nothing is left in it when it is closed.                          *)
FarOK(c) ==
  /\ ~InUse(uploading[c]) \/ ~InUse(downloading[c])
  /\ far[c] = "open" <=> owner[c] # NoProc
  /\ InUse(uploading[c]) \/ InUse(downloading[c]) => far[c] = "open"
  /\ far[c] # "open" => toClient[c] = <<>>

(* What comes for a download is data. *)
DataOK(c) ==
  InUse(downloading[c]) => \A i \in 1..Len(toClient[c]) : toClient[c][i].type = "data"

(* A connected process has a connection for its commands. *)
ProcOK(p) ==
  state[p] = "connected" =>
    /\ fd_cmd[p] \in Conns
    /\ owner[fd_cmd[p]] = p
    /\ Idle(fd_cmd[p])
    /\ \A i \in 1..Len(toServer[fd_cmd[p]]) : toServer[fd_cmd[p]][i].type \in CommandTypes

NearInv == \A c \in Conns : NamedOK(c) /\ StreamOK(c) /\ NearOK(c)
FarInv == \A c \in Conns : FarOK(c) /\ DataOK(c)
ProcsInv == \A p \in Procs : ProcOK(p)

Inv ==
  /\ TypeOK
  /\ NearInv
  /\ FarInv
  /\ ProcsInv
  /\ NamesAgree

(* A request that is read finds its client waiting, or gone. *)
RequestsInv ==
  \A c \in Conns : far[c] = "open" =>
    /\ Asked(c, "put") => InUse(uploading[c])
    /\ Asked(c, "get") => InUse(downloading[c])

WaitInv == NobodyWaitsInVain /\ RequestsInv

(* The user of a command connection that the client has not closed is the one  *)
(* its client gave, or will be: `/exit' comes from a client that has closed.   *)
NameOK(c) ==
  far[c] = "open" =>
    /\ name_map[c] # "" => name_map[c] = UserOf[owner[c]]
    /\ ~Asked(c, "exit")
    /\ \A i \in 1..Len(toServer[c]) :
         toServer[c][i].type = "name" => toServer[c][i].user = UserOf[owner[c]]

(* What is uploaded has a name already. *)
KnownOK(c) ==
  InUse(receiving[c]) => receiving[c].file_name \in client_files[fd_file_map[c]]

OwnInv == ClientsGetTheirOwn /\ \A c \in Conns : NameOK(c) /\ KnownOK(c)

-----------------------------------------------------------------------------
(* With a server that reads a request before the first data comes: *)

(* A request to upload is alone on its connection, and nothing was sent yet.   *)
RequestOK(c) ==
  \A i \in 1..Len(toServer[c]) : toServer[c][i].type = "put" =>
    Len(toServer[c]) = 1 /\ uploading[c].current = 0

(* Reads that bring nothing are counted at the end of an upload only. *)
EmptyOK(c) ==
  fail_count[c] > 0 => InUse(receiving[c]) /\ far[c] # "open" /\ Len(toServer[c]) = 0

ArrivesOK(c) ==
  InUse(uploading[c]) /\ InUse(receiving[c]) =>
    receiving[c].current + Len(toServer[c]) = uploading[c].current

PacedOK(c) == RequestOK(c) /\ EmptyOK(c) /\ ArrivesOK(c)
PacedInv == \A c \in Conns : PacedOK(c)

-----------------------------------------------------------------------------
(* With users besides who have no file name in common: who uploads has a name  *)
(* of its user's for itself that was not announced.                            *)

(* A user's own files. *)
Owns(u, f) == \E p \in Procs : UserOf[p] = u /\ f \in Original[p]

Apart == \A f \in Files, u, v \in Users : Owns(u, f) /\ Owns(v, f) => u = v

(* The names of all users' files. *)
Stored == UNION {client_files[u] : u \in Owners}

(* A request to upload is for a file of the user's. *)
OwnRequest(line) == line.type = "put" => Owns(line.user, line.file[1])

(* An upload has a name for itself. *)
OwnName(c) ==
  InUse(receiving[c]) =>
    /\ receiving[c].file_name \in client_files[fd_file_map[c]] \ shared
    /\ \A d \in Conns \ {c} : receiving[d].file_name # receiving[c].file_name

(* Two uploads of one name at once never write into one file (handle_client,   *)
(* /put), whosever they are.                                                   *)
SharedInv ==
  /\ \A c \in Conns : \A i \in 1..Len(toServer[c]) : OwnRequest(toServer[c][i])
  /\ \A u \in Owners : \A n \in client_files[u] : Owns(u, n[1])
  /\ shared \subseteq Stored
  /\ \A c \in Conns : OwnName(c)

-----------------------------------------------------------------------------
(* With both, what is in the files, and what is under way to them:             *)

(* A file of p's own that has anything in it was put, and stays as it was made. *)
Kept(p, f) ==
  SizeOf[f] > 0 =>
    /\ <<f, 0>> \in local_files[p]
    /\ disk[p][<<f, 0>>] = Content(f, p)
    /\ \A c \in Conns : owner[c] = p => downloading[c].file_name # <<f, 0>>

(* The units are those of p's file f, from one place on. *)
Follow(units, f, p, from) ==
  /\ from + Len(units) <= SizeOf[f]
  /\ \A i \in 1..Len(units) : units[i] = Unit(f, p, from + i)

(* A file of the server's is a beginning of one that a client keeps. *)
FolderOK(n) ==
  folder[n] # <<>> => \E p \in Procs : Follow(folder[n], n[1], p, 0) /\ Kept(p, n[1])

(* What requests ask for is what the client is about to send or to read. *)
AskedOK(c) ==
  \A i \in 1..Len(toServer[c]) :
    LET line == toServer[c][i] IN
    /\ line.type = "put" =>
         /\ line.size = SizeOf[line.file[1]]
         /\ \E p \in Procs : line.user = UserOf[p]
         /\ InUse(uploading[c]) => uploading[c].file_name = <<line.file[1], 0>>
    /\ line.type = "get" /\ InUse(downloading[c]) =>
         /\ downloading[c].file_name = line.file /\ downloading[c].current = 0
         /\ toClient[c] = <<>>

UploadOK(c) ==
  LET info == uploading[c] IN
  InUse(info) =>
    /\ info.file_name[2] = 0 /\ info.size = SizeOf[info.file_name[1]]
    /\ Kept(owner[c], info.file_name[1])

(* What the server has of a file and what comes are one beginning of it. *)
ReceiveOK(c) ==
  LET info == receiving[c]
      f == info.file_name[1]
      file == folder[info.file_name] IN
  InUse(info) =>
    /\ info.size = SizeOf[f] /\ info.current = Len(file)
    /\ \E p \in Procs :
         /\ Follow(file, f, p, 0) /\ Follow(toServer[c], f, p, Len(file))
         /\ Len(file) + Len(toServer[c]) > 0 => Kept(p, f)
         /\ InUse(uploading[c]) => owner[c] = p /\ uploading[c].file_name = <<f, 0>>

(* units are what is in the file from one place on *)
Part(units, file, from) ==
  /\ from + Len(units) <= Len(file)
  /\ \A i \in 1..Len(units) : units[i] = file[from + i]

(* What a client has of a file and what comes are one beginning of the server's. *)
DownloadOK(c) ==
  LET info == downloading[c]
      n == info.file_name
      mine == disk[owner[c]][n] IN
  InUse(info) =>
    /\ n \in local_files[owner[c]] /\ n \in Stored
    /\ info.current = Len(mine)
    /\ Part(mine, folder[n], 0) /\ Part(toClient[c], folder[n], Len(mine))
    /\ InUse(sending[c]) =>
         sending[c].file_name = n /\ sending[c].current = Len(mine) + Len(toClient[c])

(* A process downloads a name once. *)
OnceOK(c) ==
  \A d \in Conns \ {c} :
    InUse(downloading[c]) /\ owner[d] = owner[c] =>
      downloading[d].file_name # downloading[c].file_name

(* What is in the directories of the clients. *)
LocalOK(p, n) ==
  IF n \in local_files[p]
  THEN \/ disk[p][n] = Content(n[1], p)
       \/ n \in Stored /\ Part(disk[p][n], folder[n], 0)
  ELSE disk[p][n] = <<>> \/ (n[2] = 0 /\ disk[p][n] = Content(n[1], p))

(* Notifications are of users' files. *)
NoticeOK(c) ==
  \A i \in 1..Len(toClient[c]) :
    toClient[c][i].type = "put" => toClient[c][i].file \in Stored

ConnOK(c) ==
  /\ AskedOK(c) /\ UploadOK(c) /\ ReceiveOK(c)
  /\ DownloadOK(c) /\ OnceOK(c) /\ NoticeOK(c)

(* sync_peers announces whole files only, however uploads end.                *)
SharedIsWhole ==
  \A n \in shared : \E p \in Procs : folder[n] = Content(n[1], p)

FlowInv ==
  /\ \A n \in Names : FolderOK(n)
  /\ \A c \in Conns : ConnOK(c)
  /\ \A p \in Procs, n \in Names : LocalOK(p, n)
  /\ SharedIsWhole

(* What sync_peers has not announced is not complete, and no notification says *)
(* more than there is.                                                         *)
TruthInv ==
  /\ \A n \in Stored \ shared : SizeOf[n[1]] > 0 => Len(folder[n]) < SizeOf[n[1]]
  /\ \A c \in Conns : \A i \in 1..Len(toClient[c]) :
       toClient[c][i].type = "put" =>
         toClient[c][i].size <= Len(folder[toClient[c][i].file])

(* Every piece of a file arrives where it belongs, on either side, whoever is  *)
(* killed and however small the sockets' buffers (receive_file, send_file).    *)
QuickInv == Inv /\ PacedInv /\ SharedInv /\ FlowInv /\ TruthInv
=============================================================================
