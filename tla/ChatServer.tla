----------------------------- MODULE ChatServer -----------------------------
(***************************************************************************)
(* The chat server of hw1: the loop of epoll_server::Server                *)
(* (hw1/server/server.hpp) with the handlers that hw1/server/server.cpp    *)
(* registers, and the client program (hw1/client) at the other end.        *)
(*                                                                         *)
(* A line is a sequence of words; a segment is what a client writes in one *)
(* call, split at its newlines (so "a\n" is the line a and an empty rest). *)
(* The server runs one line of input at a time; between two lines only the *)
(* clients and the network move.                                           *)
(***************************************************************************)
EXTENDS ChatKernel

CONSTANTS
  ValidNames,  \* the words of 2 to 12 English letters, "anonymous" excepted
  Garbled,     \* the word two writes make when they run together
  Segments,    \* what clients type
  ReadMax,     \* segments that fit in the 2048 bytes of Server::buffer
  MaxPending   \* bound of the model: connections waiting to be accepted

ASSUME ChatServerAssumption ==
  /\ "anonymous" \notin ValidNames /\ "" \notin ValidNames
  /\ ReadMax \in Nat \ {0}
  /\ MaxPending \in Nat

VARIABLES
  alive,        \* the server process runs
  clients,      \* Server::clients
  fd_name_map,  \* fd_name_map; a key that is not there reads as ""
  name_fd_map,  \* name_fd_map; a key that is not there reads as 0
  batch,        \* events of the last epoll_wait not handled yet; 0 is the listener
  serving,      \* the client handleClient was called for; -1 outside of it
  lines,        \* the lines of its input not processed yet
  pending,      \* connections waiting to be accepted
  told          \* (history) the message that the last step delivered by `tell'

serverVars == <<alive, clients, fd_name_map, name_fd_map, batch, serving, lines>>
vars == <<serverVars, pending, told, kernelVars>>

Listener == 0
Bad == -1     \* what accept() returns when it fails

NoTell == [from |-> Bad, shown |-> "", asked |-> "", to |-> Bad]

Init ==
  /\ KernelInit
  /\ alive = TRUE
  /\ clients = {}
  /\ fd_name_map = [c \in Fds \cup {Bad} |-> ""]
  /\ name_fd_map = [n \in ValidNames |-> 0]
  /\ batch = {}
  /\ serving = Bad
  /\ lines = <<>>
  /\ pending = 0
  /\ told = NoTell

(* name_fd_map[w] *)
NameFd(w) == IF w \in ValidNames THEN name_fd_map[w] ELSE 0

(* The server writes to the sockets of S, to those of `again' repeatedly.  It *)
(* may die of it.                                                             *)
Write(S, again) ==
  /\ peer' = AfterWrite(S \cup again)
  /\ alive' \in IF MayKill(S \cup again, again) THEN BOOLEAN ELSE {TRUE}

-----------------------------------------------------------------------------
(* The loop of Server::run. *)

Idle == alive /\ lines = <<>>

(* epoll_wait() returns the events there are; the listener is level triggered. *)
EpollWait ==
  /\ Idle
  /\ batch = {}
  /\ batch' = Reported \cup (IF pending > 0 THEN {Listener} ELSE {})
  /\ batch' # {}
  /\ ready' = {}
  /\ told' = NoTell
  /\ UNCHANGED <<alive, clients, fd_name_map, name_fd_map, serving, lines,
                 pending, peer, inbox>>

(* The listener's event.  When there is no descriptor left accept() fails, the *)
(* connection stays pending, and -1 is treated as a client like any other.     *)
NewConnection ==
  LET new == IF FreeFds = {} THEN Bad ELSE Accepted IN
  /\ Idle
  /\ Listener \in batch
  /\ batch' = batch \ {Listener}
  /\ clients' = clients \cup {new}
  /\ fd_name_map' = [fd_name_map EXCEPT ![new] = "anonymous"]
  /\ alive' \in IF MayKill(clients, {}) THEN BOOLEAN ELSE {TRUE}
  /\ peer' = [c \in Fds |-> IF c = new THEN "up" ELSE AfterWrite(clients)[c]]
  /\ pending' = IF new = Bad THEN pending ELSE pending - 1
  /\ told' = NoTell
  /\ UNCHANGED <<name_fd_map, serving, lines, inbox, ready>>

(* Mutant of EraseName: the entry is marked instead of removed. *)
EraseNameMarks(name) ==
  name_fd_map' = [n \in ValidNames |-> IF n = name THEN Bad ELSE name_fd_map[n]]

(* name_fd_map.erase(name) *)
EraseName(name) ==
  name_fd_map' = [n \in ValidNames |-> IF n = name THEN 0 ELSE name_fd_map[n]]

(* handleDisconnection, and close() of the socket: the others are told, the   *)
(* name is forgotten.                                                         *)
HandleDisconnection(c) ==
  LET others == clients \ {c} IN
  /\ alive' \in IF MayKill(others, {}) THEN BOOLEAN ELSE {TRUE}
  /\ EraseName(fd_name_map[c])
  /\ fd_name_map' = [fd_name_map EXCEPT ![c] = ""]
  /\ peer' = [AfterWrite(others) EXCEPT ![c] = "none"]
  /\ inbox' = [inbox EXCEPT ![c] = <<>>]
  /\ ready' = ready \ {c}

(* Mutant of Disconnect: the client stays in the set. *)
DisconnectKeepsClient(c) == HandleDisconnection(c) /\ UNCHANGED clients

(* Server::disconnect *)
Disconnect(c) == HandleDisconnection(c) /\ clients' = clients \ {c}

(* Two writes read at once: the last line of one runs into the first of the    *)
(* other, for the client sends no newline.                                     *)
JoinLines(x, y) ==
  IF x = <<>> THEN y ELSE IF y = <<>> THEN x
  ELSE Front(x) \o <<Garbled>> \o Tail(y)

Glue(s, t) == Front(s) \o <<JoinLines(Last(s), Head(t))>> \o Tail(t)

(* The lines getline() yields from segments read together. *)
LinesOf(segments) ==
  LET text == FoldLeft(Glue, Head(segments), Tail(segments)) IN
  IF Last(text) = <<>> THEN Front(text) ELSE text

(* Mutant of ReadLength: one message per event. *)
ReadLengthOne(c) == 1

(* How many segments a read() takes. *)
ReadLength(c) == IF Len(inbox[c]) < ReadMax THEN Len(inbox[c]) ELSE ReadMax

(* Mutants of Gone: an end of file goes unnoticed; a short read is an end. *)
GoneOnError(c) == peer[c] = "reset"
GoneIfShort(c) == Len(inbox[c]) < ReadMax

(* read() may return 0 or -1. *)
Gone(c) == inbox[c] = <<>> \/ peer[c] = "reset"

(* A client's event: one read().  An error, an end of file, or a read that     *)
(* would block is a disconnection; after a reset, data that came before it may *)
(* still be read, and the error then goes unnoticed.                           *)
ReadClient(c) ==
  LET n == ReadLength(c) IN
  /\ Idle
  /\ c \in batch \ {Listener}
  /\ batch' = batch \ {c}
  /\ told' = NoTell
  /\ UNCHANGED pending
  /\ \/ /\ Gone(c)
        /\ Disconnect(c)
        /\ UNCHANGED <<serving, lines>>
     \/ /\ inbox[c] # <<>>
        /\ serving' = c
        /\ lines' = LinesOf(SubSeq(inbox[c], 1, n))
        /\ inbox' = [inbox EXCEPT ![c] = SubSeq(inbox[c], n + 1, Len(inbox[c]))]
        /\ UNCHANGED <<alive, clients, fd_name_map, name_fd_map, peer, ready>>

-----------------------------------------------------------------------------
(* handleClient: the commands. *)

(* processInput *)
Command(line) ==
  CASE line = <<>> -> "ERROR"
    [] line # <<>> /\ line[1] = "exit" -> "EXIT"
    [] line = <<"who">> -> "WHO"
    [] line # <<>> /\ line[1] = "name" /\ Len(line) <= 2 -> "NAME"
    [] line # <<>> /\ line[1] = "yell" /\ Len(line) = 2 -> "YELL"
    [] line # <<>> /\ line[1] = "tell" /\ Len(line) = 3 -> "TELL"
    [] line # <<>> /\ line[1] = "check" /\ Len(line) = 2 -> "CHECK"
    [] OTHER -> "ERROR"

(* The turn of the getline loop that handles a line of the given command. *)
Turn(command) ==
  /\ alive
  /\ lines # <<>>
  /\ Command(Head(lines)) = command
  /\ lines' = Tail(lines)
  /\ serving' = IF Tail(lines) = <<>> THEN Bad ELSE serving
  /\ UNCHANGED <<batch, pending>>

NamesUnchanged == UNCHANGED <<clients, fd_name_map, name_fd_map>>

(* server.send(client, ...) and nothing else: CHECK, ERROR, and every refusal. *)
Reply == Write({serving}, {}) /\ NamesUnchanged /\ UNCHANGED <<inbox, ready>>

(* The socket is closed at once; the lines that follow are still processed. *)
Exit ==
  /\ Turn("EXIT")
  /\ Disconnect(serving)
  /\ told' = NoTell

(* One message for each client, all to the one that asked. *)
Who ==
  /\ Turn("WHO")
  /\ Write(IF clients = {} THEN {} ELSE {serving},
           IF \E c, d \in clients : c # d THEN {serving} ELSE {})
  /\ NamesUnchanged
  /\ told' = NoTell
  /\ UNCHANGED <<inbox, ready>>

(* Mutant of Taken: names are not checked for uniqueness. *)
TakenNever(w) == w \notin ValidNames

(* The name w is registered. *)
Taken(w) == NameFd(w) # 0

(* NAME with the word w: a refusal, or the new name. *)
Rename(w) ==
  \/ /\ w = "anonymous" \/ Taken(w) \/ w \notin ValidNames
     /\ Reply
  \/ /\ w \in ValidNames
     /\ ~Taken(w)
     /\ Write({serving} \cup clients, {})
     /\ fd_name_map' = [fd_name_map EXCEPT ![serving] = w]
     /\ name_fd_map' = [name_fd_map EXCEPT ![w] = serving]
     /\ UNCHANGED <<clients, inbox, ready>>

(* `name' alone reads tokens[1] beyond the end of the vector: the process dies *)
(* or goes on with whatever word it finds there.                               *)
Name ==
  /\ Turn("NAME")
  /\ told' = NoTell
  /\ \/ Len(Head(lines)) = 2 /\ Rename(Head(lines)[2])
     \/ Len(Head(lines)) = 1 /\ \E w \in ValidNames \cup {""} : Rename(w)
     \/ /\ Len(Head(lines)) = 1
        /\ alive' = FALSE
        /\ NamesUnchanged
        /\ UNCHANGED kernelVars

Yell ==
  /\ Turn("YELL")
  /\ Write(clients, {})
  /\ NamesUnchanged
  /\ told' = NoTell
  /\ UNCHANGED <<inbox, ready>>

(* TELL is refused to a client that took the name "anonymouse", for the receiver *)
(* "anonymous", and for a name nobody has.                                     *)
TellRefused ==
  LET asked == Head(lines)[2] IN
  /\ Turn("TELL")
  /\ fd_name_map[serving] = "anonymouse" \/ asked = "anonymous" \/ NameFd(asked) = 0
  /\ Reply
  /\ told' = NoTell

TellDelivered ==
  LET asked == Head(lines)[2]
      to == NameFd(asked) IN
  /\ Turn("TELL")
  /\ fd_name_map[serving] # "anonymouse" /\ asked # "anonymous" /\ to # 0
  /\ Write({serving, to}, IF to = serving THEN {serving} ELSE {})
  /\ told' = [from |-> serving, shown |-> fd_name_map[serving],
              asked |-> asked, to |-> to]
  /\ NamesUnchanged
  /\ UNCHANGED <<inbox, ready>>

CheckOrError ==
  /\ Turn("CHECK") \/ Turn("ERROR")
  /\ Reply
  /\ told' = NoTell

HandleLine ==
  \/ Exit
  \/ Who
  \/ Name
  \/ Yell
  \/ TellRefused
  \/ TellDelivered
  \/ CheckOrError

ServerStep == EpollWait \/ NewConnection \/ (\E c \in Fds : ReadClient(c)) \/ HandleLine

-----------------------------------------------------------------------------
(* The clients. *)

(* Client::establishConnection: connect(). *)
ClientConnects ==
  /\ pending < MaxPending
  /\ pending' = pending + 1
  /\ UNCHANGED <<serverVars, kernelVars>>

(* handleClientInput: what is typed is written without its last newline,       *)
(* except that `exit' alone, like the death of the client, closes the socket   *)
(* (by a RST if the client has not read all the server sent).                  *)
ClientTypes(c) ==
  /\ peer[c] = "up"
  /\ Len(inbox[c]) < MaxQueue
  /\ \E s \in Segments :
       /\ s # <<<<"exit">>>>
       /\ inbox' = [inbox EXCEPT ![c] = Append(inbox[c], s)]
  /\ ready' = ready \cup {c}
  /\ UNCHANGED <<serverVars, pending, peer>>

ClientExits(c) ==
  /\ peer[c] = "up"
  /\ \E how \in {"closed", "reset"} : peer' = [peer EXCEPT ![c] = how]
  /\ ready' = ready \cup {c}
  /\ UNCHANGED <<serverVars, pending, inbox>>

ClientStep ==
  /\ told' = NoTell
  /\ \/ ClientConnects
     \/ \E c \in Fds : ClientTypes(c) \/ ClientExits(c)
     \/ \E c \in Fds : ResetArrives(c) /\ UNCHANGED <<serverVars, pending>>

(* Once the server process is dead nothing more happens. *)
Dead == ~alive /\ UNCHANGED vars

Next == ServerStep \/ (alive /\ ClientStep) \/ Dead

Spec == Init /\ [][Next]_vars

(* The server runs whenever it can: it is one process that never waits but in *)
(* epoll_wait.  Nothing is assumed of the clients.                            *)
FairSpec == Spec /\ WF_vars(ServerStep)

-----------------------------------------------------------------------------
Words == ValidNames \cup {"anonymous", ""}

TypeOK ==
  /\ peer \in [Fds -> {"none", "up", "closed", "poked", "reset"}]
  /\ inbox \in [Fds -> Seq(Segments)]
  /\ \A c \in Fds : Len(inbox[c]) <= MaxQueue
  /\ ready \subseteq Fds
  /\ alive \in BOOLEAN
  /\ clients \subseteq Fds \cup {Bad}
  /\ fd_name_map \in [Fds \cup {Bad} -> Words]
  /\ name_fd_map \in [ValidNames -> Fds \cup {0}]
  /\ batch \subseteq Fds \cup {Listener}
  /\ serving \in Fds \cup {Bad}
  /\ pending \in 0..MaxPending

(* Two connected clients never have the same name, whatever they rename, and  *)
(* however often descriptors are closed, named after they were closed, and    *)
(* handed out again.                                                          *)
UniqueNames ==
  \A c, d \in clients :
    fd_name_map[c] = fd_name_map[d] => c = d \/ fd_name_map[c] = "anonymous"

(* A message for a name that a connected client has reaches that client. *)
TellReachesHolder ==
  \A c \in clients :
    told # NoTell /\ fd_name_map[c] = told.asked => told.to = c

(* The set of clients is the set of open sockets (and perhaps -1): a line that *)
(* follows `exit' in the same read never closes or registers a socket again.   *)
ClientsAreOpen == clients \ {Bad} = {c \in Fds : peer[c] # "none"}

(* Edge-triggered events are neither lost nor invented: a client is dropped   *)
(* only when it closed its end or said `exit'.                                *)
NoSpuriousDisconnect ==
  [][\A c \in clients \ clients' :
       c \in Fds => \/ peer[c] # "up"
                    \/ lines # <<>> /\ Command(Head(lines)) = "EXIT"]_vars

(* The comments of handleClient: TELL checks that "target user exist".  So a   *)
(* message goes to a client that has the name it was sent to.                  *)
TellReachesNamed ==
  told # NoTell => told.to \in clients /\ fd_name_map[told.to] = told.asked

(* The comment of handleClient: TELL does "check client anonymous", so that an *)
(* anonymous client's message is not delivered.                                *)
AnonymousCannotTell == told # NoTell => told.shown # "anonymous"

(* No wake-up is lost: a line that nobody has read has its event in the ready  *)
(* list or among the reported ones, though events are edge-triggered, a read   *)
(* is done once for each, and descriptors are closed and handed out again.  As *)
(* long as one read takes all there is.                                        *)
UnreadIsDue == \A c \in Fds : inbox[c] # <<>> => c \in ready \cup batch

(* What a client wrote is read, as long as one read takes all there is. *)
EveryLineIsRead ==
  \A c \in Fds : inbox[c] # <<>> ~> inbox[c] = <<>> \/ ~alive

(* A client that closes when the server has read all it wrote is removed. *)
QuietLeaverIsRemoved ==
  \A c \in Fds :
    peer[c] = "closed" /\ inbox[c] = <<>> /\ c \in ready
      ~> peer[c] = "none" \/ ~alive

-----------------------------------------------------------------------------
(***************************************************************************)
(* The server implements ChatRoom: the guests are its clients, with the    *)
(* names under which it shows them.                                        *)
(***************************************************************************)
Named == {h \in clients \X ValidNames : fd_name_map[h[1]] = h[2]}
Message == IF told = NoTell THEN <<>> ELSE <<told.asked, told.to>>

Room == INSTANCE ChatRoom WITH
  Guests <- Fds \cup {Bad}, Names <- ValidNames,
  guests <- clients, named <- Named, message <- Message

ImplementsChatRoom == Room!RoomSpec
=============================================================================
