---------------------------- MODULE DropboxFiles ----------------------------
(***************************************************************************)
(* Files, their names, and how hw3 reads and writes them (FileInfo of      *)
(* hw3/general.hpp), for the server and the clients alike.                 *)
(*                                                                         *)
(* A file is a sequence of units.  A name is <<f, k>>: f itself for k = 0, *)
(* and "f(k)", the name the server makes, otherwise.                       *)
(***************************************************************************)
EXTENDS DropboxStreams, FiniteSets

CONSTANTS
  Files,      \* names of files as users give them
  MaxCopies,  \* bound of the model: files stored under one name, less one
  Chunk       \* units read at a time (BUFFER_SIZE - 1 bytes)

ASSUME DropboxFilesAssumption ==
  /\ IsFiniteSet(Files) /\ "" \notin Files
  /\ MaxCopies \in Nat
  /\ Chunk \in 1..Capacity

Names == Files \X (0..MaxCopies)
NoName == <<"", 0>>

(* FileInfo; current is also the position of an input stream, eof its flag. *)
FileInfo(name, size) ==
  [file_name |-> name, current |-> 0, size |-> size, eof |-> FALSE]

(* No entry in the map of transfers. *)
NoFile == FileInfo(NoName, 0)
InUse(info) == info.file_name # NoName

(* FileInfo::done after n more units *)
Done(info, n) == info.current + n = info.size

Unit(f, p, i) == [type |-> "data", of |-> <<f, p>>, at |-> i]
Hole == Unit("", "", 0)

(* The file after items were written at a position: a gap reads as zeros. *)
WriteAt(file, position, items) ==
  LET last == position + Len(items)
      size == IF Len(file) > last THEN Len(file) ELSE last IN
  [i \in 1..size |-> IF i > position /\ i <= last THEN items[i - position]
                     ELSE IF i <= Len(file) THEN file[i] ELSE Hole]

(* Mutant of HasRoom: nobody waits for the socket. *)
RoomAtAllTimes(queue) == queue = queue

(* A socket is said to be writable when a third of its buffer is free, which is *)
(* more than is read of a file at a time.                                      *)
HasRoom(queue) == Len(queue) + Chunk <= Capacity

(* read() of one buffer: the units, and the stream afterwards. *)
NextUnits(file, info) == First(AllBut(file, info.current), Chunk)

AfterRead(info, units) ==
  [info EXCEPT !.current = @ + Len(units), !.eof = Len(units) < Chunk]

(* "/put name size user", as a request and as a notification. *)
PutLine(name, size, user) ==
  [type |-> "put", file |-> name, size |-> size, user |-> user]
=============================================================================
