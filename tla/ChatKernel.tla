----------------------------- MODULE ChatKernel -----------------------------
(***************************************************************************)
(* The accepted TCP sockets of the chat server of hw1 and the epoll set it *)
(* registers them in, edge triggered.  This is the operating system, not   *)
(* code of the repository: it is modelled from how hw1/server/server.hpp   *)
(* (namespace epoll_server) uses it.                                       *)
(*                                                                         *)
(* What a client writes in one call is a segment.                          *)
(***************************************************************************)
EXTENDS Integers, Sequences, SequencesExt

CONSTANTS
  Fds,       \* descriptors accept() hands out, positive numbers
  MaxQueue   \* bound of the model: unread segments of one connection

ASSUME ChatKernelAssumption ==
  /\ Fds \subseteq Nat \ {0}
  /\ MaxQueue \in Nat \ {0}

VARIABLES
  peer,    \* per fd: "none" (not open), "up", "closed" (FIN), "poked" (written
           \* to after the FIN, a RST is due), "reset" (RST received)
  inbox,   \* per fd: segments received and not read
  ready    \* fds in epoll's ready list: something happened since the last report

kernelVars == <<peer, inbox, ready>>

KernelInit ==
  /\ peer = [c \in Fds |-> "none"]
  /\ inbox = [c \in Fds |-> <<>>]
  /\ ready = {}

FreeFds == {c \in Fds : peer[c] = "none"}

(* read() would not block: there is data, an end of file or an error. *)
Readable(c) == peer[c] # "none" /\ (inbox[c] # <<>> \/ peer[c] # "up")

(* What epoll_wait reports: an entry of the ready list is polled again first. *)
Reported == {c \in ready : Readable(c)}

(* accept() takes the lowest free descriptor. *)
Accepted == CHOOSE c \in FreeFds : \A d \in FreeFds : c <= d

(* write() to the sockets of S: one whose other end has gone will answer RST. *)
AfterWrite(S) ==
  [c \in Fds |-> IF c \in S /\ peer[c] = "closed" THEN "poked" ELSE peer[c]]

(* A write may raise SIGPIPE when the connection was reset, or when it is not *)
(* the first one (`again') and the RST may have come in between.              *)
MayKill(S, again) ==
  \/ \E c \in S \cap Fds : peer[c] = "reset"
  \/ \E c \in again \cap Fds : peer[c] \in {"closed", "poked"}

(* The RST that answers a write reaches the server's host. *)
ResetArrives(c) ==
  /\ peer[c] = "poked"
  /\ peer' = [peer EXCEPT ![c] = "reset"]
  /\ ready' = ready \cup {c}
  /\ UNCHANGED inbox
=============================================================================
