----------------------------- MODULE UdpReceiver -----------------------------
(***************************************************************************)
(* The receiver of hw2 (hw2/receiver/receiver.hpp): one handler, the body  *)
(* of the loop of Receiver::run.  The output ofstream is modelled by what  *)
(* libstdc++ does with it:                                                 *)
(*   - open() on a stream that is already open fails, sets failbit and     *)
(*     leaves the open file alone; a successful open() truncates the file  *)
(*     and clears the flags;                                               *)
(*   - write() on a stream that is not good() does nothing;                *)
(*   - write() of bytes, or close(), on a closed stream sets a flag.       *)
(* `written' is the content of the output file: the write() calls that     *)
(* took effect since it was last truncated, one piece of the source each.  *)
(***************************************************************************)
EXTENDS UdpFile, UdpNetwork

CONSTANT MaxCrashes  \* bound of the model: times the receiver process dies

ASSUME UdpReceiverAssumption == MaxCrashes \in Nat

VARIABLES
  up,       \* the receiver process runs and its socket is bound
  lastSyn,  \* local variable syn of run()
  stream,   \* local variable file of run(): [open, fail]
  written,  \* pieces [from, len] in the output file
  crashes   \* times the process died so far

receiverVars == <<up, lastSyn, stream, written, crashes>>

ClosedStream == [open |-> FALSE, fail |-> FALSE]

ReceiverInit ==
  /\ up \in BOOLEAN
  /\ lastSyn = -1
  /\ stream = ClosedStream
  /\ written = <<>>
  /\ crashes = 0

(* file.open(name): an empty name names no file. *)
OpenFile(p) ==
  IF ~stream.open /\ p.data_size > 0
  THEN /\ stream' = [open |-> TRUE, fail |-> FALSE]
       /\ written' = <<>>
  ELSE /\ stream' = [open |-> stream.open, fail |-> TRUE]
       /\ UNCHANGED written

(* Mutant of WriteData: the file is not closed after the last packet. *)
WriteDataNoClose(p) ==
  /\ written' = IF stream.open /\ ~stream.fail
                THEN Append(written, [from |-> p.from, len |-> p.data_size])
                ELSE written
  /\ UNCHANGED stream

(* file.write(data, data_size), then file.close() on the last packet. *)
WriteData(p) ==
  /\ written' = IF stream.open /\ ~stream.fail
                THEN Append(written, [from |-> p.from, len |-> p.data_size])
                ELSE written
  /\ stream' = [open |-> stream.open /\ ~p.fin,
                fail |-> \/ stream.fail
                         \/ ~stream.open /\ (p.data_size > 0 \/ p.fin)]

(* Mutant of IsNew: packets sent again are not recognised. *)
IsNewAlways(p) == p.syn \in Nat

(* The packet is not the one processed last. *)
IsNew(p) == p.syn # lastSyn

(* One turn of the receiver loop on the datagram at position i. *)
ReceivePacket(i) ==
  LET p == toReceiver[i] IN
  /\ up
  /\ toReceiver' = RemoveAt(toReceiver, i)
  /\ \/ /\ p.offset = NameMarker
        /\ OpenFile(p)
     \/ /\ p.offset # NameMarker
        /\ IsNew(p)
        /\ WriteData(p)
     \/ /\ p.offset # NameMarker
        /\ ~IsNew(p)
        /\ UNCHANGED <<stream, written>>
  /\ lastSyn' = p.syn
  /\ toSender' = Post(toSender, p.syn)
  /\ UNCHANGED <<up, crashes, soError>>

(* The process starts: run() binds the socket with no file open. *)
StartReceiver ==
  /\ ~up
  /\ up' = TRUE
  /\ UNCHANGED <<lastSyn, stream, written, crashes, netVars>>

(* The process dies.  What the ofstream had not flushed is lost, so an open  *)
(* output file keeps some prefix of what was written to it.                  *)
CrashReceiver ==
  /\ up
  /\ crashes < MaxCrashes
  /\ up' = FALSE
  /\ crashes' = crashes + 1
  /\ lastSyn' = -1
  /\ stream' = ClosedStream
  /\ \E n \in 0..Len(written) :
       /\ ~stream.open => n = Len(written)
       /\ written' = SubSeq(written, 1, n)
  /\ UNCHANGED netVars

ReceiveAny == \E i \in Deliverable(toReceiver) : ReceivePacket(i)

ReceiverStep ==
  \/ ReceiveAny
  \/ StartReceiver
  \/ CrashReceiver
=============================================================================
