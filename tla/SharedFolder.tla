---------------------------- MODULE SharedFolder ----------------------------
(***************************************************************************)
(* What the dropbox of hw3 promises to users who have no file name in      *)
(* common, without connections, commands or pieces of files: whole files   *)
(* are published, each under a name of its own, and processes come to hold *)
(* them; nothing that is published changes, and who holds a published file *)
(* keeps it.  A process runs once: nothing is said of another one that is  *)
(* started in the directory of one that has ended.                         *)
(***************************************************************************)

CONSTANTS
  Procs,   \* processes that hold files
  Names,   \* names a file is published under
  Wholes   \* the whole files that may be published under a name

VARIABLES
  published,  \* pairs <<n, file>>: the file was published as n
  holders     \* pairs <<p, n>>: p has the file that was published as n

folderVars == <<published, holders>>

FolderInit == published = {} /\ holders = {}

(* A file gets a name of its own; some may have it under that name already. *)
Publish(n, file) ==
  /\ \A other \in Wholes[n] : <<n, other>> \notin published
  /\ published' = published \cup {<<n, file>>}
  /\ \E S \in SUBSET Procs : holders' = holders \cup (S \X {n})

Fetch(p, n) ==
  /\ \E file \in Wholes[n] : <<n, file>> \in published
  /\ holders' = holders \cup {<<p, n>>}
  /\ UNCHANGED published

FolderNext ==
  \E n \in Names :
    \/ \E file \in Wholes[n] : Publish(n, file)
    \/ \E p \in Procs : Fetch(p, n)

FolderSpec == FolderInit /\ [][FolderNext]_folderVars
=============================================================================
