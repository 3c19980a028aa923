--------------------------- MODULE DropboxStreams ---------------------------
(***************************************************************************)
(* The TCP connections between the clients and the server of hw3, as the   *)
(* non-blocking sockets of hw3 see them: bounded streams in both           *)
(* directions.  This is the operating system, not code of the repository;  *)
(* it is modelled from how server.cpp, client.cpp and general.hpp use it.  *)
(*                                                                         *)
(* A stream carries commands and units of files.  A unit stands for some   *)
(* bytes of one file at one place; a file is a sequence of units.          *)
(***************************************************************************)
EXTENDS Integers, Sequences, SequencesExt

CONSTANTS
  Conns,     \* connections that can exist at once, numbered like descriptors
  Capacity   \* items a socket's buffer holds

ASSUME DropboxStreamsAssumption ==
  /\ Conns \subseteq Nat
  /\ Capacity \in Nat \ {0}

VARIABLES
  near,      \* per connection, the server's end: "pending", "open" or "closed"
  far,       \* the client's end: "open", "closed" (FIN) or "reset" (RST)
  toServer,  \* what the server has not read
  toClient,  \* what the client has not read
  alive      \* no write has killed the server by SIGPIPE

streamVars == <<near, far, toServer, toClient, alive>>

StreamsInit ==
  /\ near = [c \in Conns |-> "closed"]
  /\ far = [c \in Conns |-> "closed"]
  /\ toServer = [c \in Conns |-> <<>>]
  /\ toClient = [c \in Conns |-> <<>>]
  /\ alive = TRUE

(* Descriptors that both ends have closed are handed out again, lowest first. *)
Usable == {c \in Conns : near[c] = "closed" /\ far[c] # "open"}
Fresh == CHOOSE c \in Usable : \A d \in Usable : c <= d

Lesser(m, n) == IF m < n THEN m ELSE n

(* At most n of the items at the head of a queue, and what they leave. *)
First(queue, n) == SubSeq(queue, 1, Lesser(n, Len(queue)))
AllBut(queue, n) == SubSeq(queue, n + 1, Len(queue))

(* A non-blocking write puts into the buffer what fits. *)
Fit(queue, items) == queue \o First(items, Capacity - Len(queue))

(* The server writes the items to every connection of S, at several times if  *)
(* `again'.  The other end may have gone: it answers with a RST, and to write *)
(* after the RST is to be killed.                                             *)
Write(S, items, again) ==
  /\ toClient' = [c \in Conns |-> IF c \in S /\ far[c] = "open"
                                  THEN Fit(toClient[c], items) ELSE toClient[c]]
  /\ \E R \in SUBSET {c \in S : far[c] = "closed"} :
       far' = [c \in Conns |-> IF c \in R THEN "reset" ELSE far[c]]
  /\ alive' \in IF \E c \in S : far[c] = "reset" THEN {FALSE}
                ELSE IF again /\ \E c \in S : far[c] = "closed" THEN BOOLEAN
                ELSE {TRUE}

(* The server closes its end: the client still reads what was written. *)
CloseNear(c) ==
  /\ near' = [near EXCEPT ![c] = "closed"]
  /\ toServer' = [toServer EXCEPT ![c] = <<>>]

(* A client closes its ends S of connections, those of which it has not read   *)
(* all by a RST.                                                              *)
CloseFar(S, unread) ==
  /\ \E R \in SUBSET (S \cap unread) :
       far' = [c \in Conns |->
                 IF c \in R THEN "reset" ELSE IF c \in S THEN "closed" ELSE far[c]]
  /\ toClient' = [c \in Conns |-> IF c \in S THEN <<>> ELSE toClient[c]]

(* The server's read() may find the end of the stream, or an error, with which *)
(* all is lost that was not read.                                              *)
EndOfStream(c) == far[c] = "reset" \/ (far[c] = "closed" /\ toServer[c] = <<>>)
=============================================================================
