------------------------------ MODULE UdpFile ------------------------------
(***************************************************************************)
(* The datagrams of hw2 (hw2/udp_file.hpp) and the way the sender cuts its *)
(* input file into them (Sender::send_file, hw2/sender/sender.hpp).        *)
(*                                                                         *)
(* The payload of a data packet is abstracted to the position `from' of    *)
(* its first byte in the input file; `data_size' says how many bytes.      *)
(***************************************************************************)
EXTENDS Integers

CONSTANTS
  FileSize,     \* number of bytes of the input file
  MaxDataSize,  \* MAX_DATA_SIZE, 1400 in the code
  HalfInt       \* an int holds the values -HalfInt..HalfInt-1; 2^31 in the code

(***************************************************************************)
(* MAX_DATA_SIZE and 2^31 are even.  FileSize is not bounded by the int    *)
(* range: `int offset = file.tellg()' truncates.  The input file can be    *)
(* opened (the code does not look).                                        *)
(***************************************************************************)
ASSUME UdpFileAssumption ==
  /\ FileSize \in Nat
  /\ MaxDataSize \in Nat \ {0} /\ MaxDataSize % 2 = 0
  /\ HalfInt \in Nat \ {0} /\ HalfInt % 2 = 0

(* Conversion of a file position to int: two's-complement truncation. *)
AsInt(n) == ((n + HalfInt) % (2 * HalfInt)) - HalfInt

(* Mutant of NameMarker: offset 0 for "no offset". *)
NameMarkerZero == 0

(* The value of Header.offset that marks the packet carrying the file name. *)
NameMarker == -1

(* Header.data_size of the name packet; only its being positive matters. *)
NameLength == 1

(* The first packet of a transfer: the file name, syn = 1. *)
NamePacket == [fin |-> FALSE, syn |-> 1, offset |-> NameMarker,
               data_size |-> NameLength, from |-> 0]

(* Mutant of BytesAt: every chunk taken for a full one. *)
BytesAtFull(pos) == MaxDataSize

(* file.gcount() after file.read(buffer, MAX_DATA_SIZE) at position pos. *)
BytesAt(pos) ==
  IF FileSize - pos < MaxDataSize THEN FileSize - pos ELSE MaxDataSize

(* file.eof() after that read: only a read that comes up short sets it. *)
AtEof(pos) == FileSize - pos < MaxDataSize

(* The packet built from one read of the file. *)
DataPacket(s, pos) ==
  [fin |-> AtEof(pos), syn |-> s, offset |-> AsInt(pos),
   data_size |-> BytesAt(pos), from |-> pos]

(***************************************************************************)
(* Reference definitions, not in the code: chunk k of the file, counted    *)
(* from 0, and the last one.  A file whose size is a multiple of           *)
(* MaxDataSize ends with an empty chunk.                                   *)
(***************************************************************************)
LastChunk == FileSize \div MaxDataSize

Chunk(k) == [from |-> k * MaxDataSize,
             len  |-> IF k = LastChunk THEN FileSize - k * MaxDataSize
                                       ELSE MaxDataSize]

Packet == [fin : BOOLEAN, syn : Nat, offset : Int, data_size : Nat, from : Nat]
=============================================================================
