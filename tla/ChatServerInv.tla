--------------------------- MODULE ChatServerInv ---------------------------
(***************************************************************************)
(* The inductive invariant behind the safety properties of ChatServer: TLC *)
(* checks it on small instances, ChatServerProofs proves it.               *)
(***************************************************************************)
EXTENDS ChatServer

(* The two maps agree in one direction: who has a name is registered under it. *)
(* The converse is false (a renamed client stays registered under its old name *)
(* too), and so is the restriction to clients (lines after `exit').            *)
NamesInv ==
  \A c \in Fds \cup {Bad} :
    fd_name_map[c] \in ValidNames => name_fd_map[fd_name_map[c]] = c

(* A client has a name, be it "anonymous". *)
ClientsNamed == \A c \in clients : fd_name_map[c] # ""

(* A reported event stays true until it is handled: there is a connection to   *)
(* accept, or a socket, still that of the same client, with something to read. *)
EventsInv ==
  /\ Listener \in batch => pending > 0
  /\ \A c \in batch \ {Listener} :
       peer[c] # "none" /\ (peer[c] = "up" => inbox[c] # <<>>)

(* handleClient runs for a descriptor whose event has been taken from the batch. *)
ServingInv == lines # <<>> => serving \in Fds \ batch

(* A closed socket has no unread lines: what accept() hands out again is clean. *)
ClosedIsEmpty == \A c \in Fds : inbox[c] # <<>> => peer[c] # "none"

Inv ==
  /\ TypeOK
  /\ NamesInv
  /\ ClientsNamed
  /\ ClientsAreOpen
  /\ EventsInv
  /\ ServingInv
  /\ TellReachesHolder
=============================================================================
