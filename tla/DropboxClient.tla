---------------------------- MODULE DropboxClient ----------------------------
(***************************************************************************)
(* The clients of hw3 (hw3/client.cpp): each is a process in a directory   *)
(* of its own, with a connection for commands and one more for each        *)
(* transfer, served by one select() loop.                                  *)
(***************************************************************************)
EXTENDS DropboxFiles

CONSTANTS
  Procs,       \* client processes
  UserOf,      \* the name each of them gives
  Original,    \* the files each of them has from the start
  SizeOf,      \* units of a file
  Slow,        \* the server may need more than the 50 ms of the `workaound'
  Mortal,      \* client processes that may be killed
  Typed        \* what users type besides `/put'

ASSUME DropboxClientAssumption ==
  /\ "" \notin Procs
  /\ Original \in [Procs -> SUBSET Files]
  /\ SizeOf \in [Files -> Nat]
  /\ Slow \in BOOLEAN
  /\ Mortal \subseteq Procs
  /\ Typed \subseteq {"sleep", "exit"}

VARIABLES
  state,        \* of a process: "new", "connected" or "gone"
  owner,        \* the process that has a connection open
  fd_cmd,       \* a process's connection for commands
  local_files,  \* names a process has uploaded or downloaded
  uploading,    \* the file a connection uploads, or NoFile
  downloading,  \* the file a connection downloads, or NoFile
  disk,         \* the directories of the processes
  puts          \* (bound of the model) uploads begun by all

clientVars == <<state, owner, fd_cmd, local_files, uploading, downloading, disk, puts>>

NoConn == -1
NoProc == ""

(* A file as it was made at p. *)
Content(f, p) == [i \in 1..SizeOf[f] |-> Unit(f, p, i)]

ClientInit ==
  /\ state = [p \in Procs |-> "new"]
  /\ owner = [c \in Conns |-> NoProc]
  /\ fd_cmd = [p \in Procs |-> NoConn]
  /\ local_files = [p \in Procs |-> {}]
  /\ uploading = [c \in Conns |-> NoFile]
  /\ downloading = [c \in Conns |-> NoFile]
  /\ disk = [p \in Procs |-> [n \in Names |->
              IF n[1] \in Original[p] /\ n[2] = 0 THEN Content(n[1], p) ELSE <<>>]]
  /\ puts = 0

Mine(p) == {c \in Conns : owner[c] = p}

(* new_connection, and the first line that is written to it. *)
Open(p, line) ==
  /\ Usable # {}
  /\ near' = [near EXCEPT ![Fresh] = "pending"]
  /\ far' = [far EXCEPT ![Fresh] = "open"]
  /\ toServer' = [toServer EXCEPT ![Fresh] = <<line>>]
  /\ owner' = [owner EXCEPT ![Fresh] = p]

(* Connections are closed by their process. *)
Release(S, unread) ==
  /\ CloseFar(S, unread)
  /\ owner' = [c \in Conns |-> IF c \in S THEN NoProc ELSE owner[c]]

(* The process ends, by exit() or by a signal, and all it has open is closed. *)
Die(p) ==
  /\ state' = [state EXCEPT ![p] = "gone"]
  /\ fd_cmd' = [fd_cmd EXCEPT ![p] = NoConn]
  /\ uploading' = [c \in Conns |-> IF c \in Mine(p) THEN NoFile ELSE uploading[c]]
  /\ downloading' = [c \in Conns |-> IF c \in Mine(p) THEN NoFile ELSE downloading[c]]
  /\ Release(Mine(p), {c \in Conns : toClient[c] # <<>>})
  /\ UNCHANGED <<near, local_files, disk, puts>>

(* Client::Client, and establish_connection up to its loop. *)
Start(p) ==
  /\ state[p] = "new"
  /\ Open(p, [type |-> "name", user |-> UserOf[p]])
  /\ state' = [state EXCEPT ![p] = "connected"]
  /\ fd_cmd' = [fd_cmd EXCEPT ![p] = Fresh]
  /\ UNCHANGED <<toClient, local_files, uploading, downloading, disk, puts>>

-----------------------------------------------------------------------------
(* handle_input: what the user types. *)

(* `/put' of a file that is as its user made it. *)
TypePut(p, f) ==
  LET name == <<f, 0>>
      size == Len(disk[p][name]) IN
  /\ state[p] = "connected"
  /\ f \in Original[p] /\ disk[p][name] = Content(f, p)
  /\ puts <= MaxCopies
  /\ puts' = puts + 1
  /\ Open(p, PutLine(name, size, UserOf[p]))
  /\ uploading' = [uploading EXCEPT ![Fresh] = FileInfo(name, size)]
  /\ local_files' = [local_files EXCEPT ![p] = @ \cup {name}]
  /\ UNCHANGED <<toClient, state, fd_cmd, downloading, disk>>

Tell(p, type) ==
  toServer' = [toServer EXCEPT ![fd_cmd[p]] = Fit(@, <<[type |-> type]>>)]

(* `/sleep': the server is told; the client then does nothing for a while. *)
TypeSleep(p) ==
  /\ state[p] = "connected"
  /\ "sleep" \in Typed
  /\ Tell(p, "sleep")
  /\ UNCHANGED <<near, far, toClient, clientVars>>

TypeExit(p) ==
  /\ state[p] = "connected"
  /\ "exit" \in Typed
  /\ Tell(p, "exit")
  /\ Die(p)

(* The user, or the use of an iterator after it was erased, ends the process. *)
Killed(p) ==
  /\ p \in Mortal
  /\ state[p] = "connected"
  /\ Die(p)
  /\ UNCHANGED toServer

-----------------------------------------------------------------------------
(* server_response: n items are read, the first of them is looked at. *)

Response(p, n) ==
  /\ state[p] = "connected"
  /\ n \in 1..Len(toClient[fd_cmd[p]])
  /\ toClient' = [toClient EXCEPT ![fd_cmd[p]] = AllBut(@, n)]

(* The welcome, or a file that is known: nothing is done. *)
ReadKnown(p, n) ==
  LET line == Head(toClient[fd_cmd[p]]) IN
  /\ Response(p, n)
  /\ line.type = "put" => line.file \in local_files[p]
  /\ UNCHANGED <<near, far, toServer, clientVars>>

(* A file that is not known is asked for, and opened for writing at once. *)
ReadNew(p, n) ==
  LET line == Head(toClient[fd_cmd[p]]) IN
  /\ Response(p, n)
  /\ line.type = "put" /\ line.file \notin local_files[p]
  /\ Open(p, [type |-> "get", file |-> line.file])
  /\ downloading' = [downloading EXCEPT ![Fresh] = FileInfo(line.file, line.size)]
  /\ local_files' = [local_files EXCEPT ![p] = @ \cup {line.file}]
  /\ disk' = [disk EXCEPT ![p][line.file] = <<>>]
  /\ UNCHANGED <<state, fd_cmd, uploading, puts>>

-----------------------------------------------------------------------------
(* upload_file and download_file *)

(* The socket has room, or the server has closed it. *)
Writable(c) == HasRoom(toServer[c]) \/ near[c] = "closed"

(* Mutant of RequestWasRead: without the usleep(). *)
NoPause(c) == toServer[c] = toServer[c]

(* usleep() gave the server the time to read the request by itself. *)
RequestWasRead(c) == \A i \in 1..Len(toServer[c]) : toServer[c][i].type # "put"

UploadChunk(c) ==
  LET info == uploading[c]
      units == NextUnits(disk[owner[c]][info.file_name], info) IN
  /\ InUse(info) /\ ~info.eof /\ info.size > 0
  /\ Writable(c)
  /\ Slow \/ RequestWasRead(c)
  /\ uploading' = [uploading EXCEPT ![c] = AfterRead(info, units)]
  /\ toServer' = [toServer EXCEPT ![c] = Fit(@, units)]
  /\ UNCHANGED <<near, far, toClient, state, owner, fd_cmd, local_files, downloading,
                 disk, puts>>

(* The end of the file was seen: the connection is closed. *)
FinishUpload(c) ==
  /\ InUse(uploading[c]) /\ uploading[c].eof
  /\ Writable(c)
  /\ uploading' = [uploading EXCEPT ![c] = NoFile]
  /\ Release({c}, {})
  /\ UNCHANGED <<near, toServer, state, fd_cmd, local_files, downloading, disk, puts>>

(* n units are read and written to the file; none when the server has closed. *)
ReadsUnits(c, n) ==
  LET info == downloading[c] IN
  /\ InUse(info) /\ info.size > 0
  /\ n \in 0..Lesser(Chunk, Len(toClient[c]))
  /\ n = 0 => (near[c] = "closed" /\ toClient[c] = <<>>)
  /\ disk' = [disk EXCEPT ![owner[c]][info.file_name] =
                WriteAt(@, info.current, First(toClient[c], n))]
  /\ UNCHANGED <<near, toServer, state, fd_cmd, local_files, uploading, puts>>

DownloadMore(c, n) ==
  /\ ReadsUnits(c, n)
  /\ n > 0 /\ ~Done(downloading[c], n)
  /\ downloading' = [downloading EXCEPT ![c].current = @ + n]
  /\ toClient' = [toClient EXCEPT ![c] = AllBut(@, n)]
  /\ UNCHANGED <<far, owner>>

(* The download is over, complete or cut short. *)
FinishDownload(c, n) ==
  /\ ReadsUnits(c, n)
  /\ n = 0 \/ Done(downloading[c], n)
  /\ downloading' = [downloading EXCEPT ![c] = NoFile]
  /\ Release({c}, {d \in Conns : Len(toClient[d]) > n})

(* The progress of an empty file is computed: the process dies of SIGFPE. *)
DivideByZero(c) ==
  /\ \/ InUse(uploading[c]) /\ uploading[c].size = 0
     \/ /\ InUse(downloading[c])
        /\ downloading[c].size = 0
        /\ toClient[c] # <<>> \/ near[c] = "closed"
  /\ Die(owner[c])
  /\ UNCHANGED toServer

-----------------------------------------------------------------------------
(* What the select() loop does without being typed to. *)
Transfer(c) ==
  \/ UploadChunk(c)
  \/ FinishUpload(c)
  \/ \E n \in 0..Chunk : DownloadMore(c, n) \/ FinishDownload(c, n)
  \/ DivideByZero(c)

ServerResponse(p) ==
  \E n \in 1..Capacity : ReadKnown(p, n) \/ ReadNew(p, n)

Input(p) ==
  \/ Start(p)
  \/ \E f \in Files : TypePut(p, f)
  \/ TypeSleep(p)
  \/ TypeExit(p)
  \/ Killed(p)

ClientStep ==
  \/ \E c \in Conns : Transfer(c)
  \/ \E p \in Procs : ServerResponse(p) \/ Input(p)
=============================================================================
