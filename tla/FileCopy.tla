------------------------------ MODULE FileCopy ------------------------------
(***************************************************************************)
(* What a stop-and-wait file transfer of hw2 promises, without packets,    *)
(* acknowledgements, timers or a network: the chunks of a file are stored  *)
(* in order, each once, and the source counts a chunk as done only when it *)
(* is stored -- unless the sink has broken, which nobody tells the source. *)
(***************************************************************************)
EXTENDS Integers

CONSTANT Chunks  \* number of chunks of the file, a natural number

VARIABLES
  confirmed,  \* number of chunks the source counts as done
  stored,     \* the sink holds the first `stored' chunks of the file
  sound       \* the sink takes chunks; FALSE before it is opened and once broken

copyVars == <<confirmed, stored, sound>>

CopyInit ==
  /\ confirmed = 0
  /\ stored = 0
  /\ sound = FALSE

(* The sink is opened, or opened again, as long as no chunk was confirmed. *)
Open ==
  /\ confirmed = 0
  /\ stored' = 0
  /\ sound' = TRUE
  /\ UNCHANGED confirmed

Store ==
  /\ sound
  /\ stored < Chunks
  /\ stored' = stored + 1
  /\ UNCHANGED <<confirmed, sound>>

Confirm ==
  /\ confirmed < Chunks
  /\ sound => confirmed < stored
  /\ confirmed' = confirmed + 1
  /\ UNCHANGED <<stored, sound>>

(* The sink breaks and may lose a suffix of what it holds, but it never     *)
(* loses anything of a file that was completely stored.                     *)
Break ==
  /\ sound' = FALSE
  /\ stored' \in 0..stored
  /\ stored = Chunks => stored' = stored
  /\ UNCHANGED confirmed

CopyNext == Open \/ Store \/ Confirm \/ Break

CopySpec == CopyInit /\ [][CopyNext]_copyVars
=============================================================================
