------------------------------ MODULE TextTool ------------------------------
(***************************************************************************)
(* The text tool of hw0 (hw0/hw0.cpp): it takes the lines of a file, then  *)
(* those of the standard input, and obeys the commands `reverse', `split'  *)
(* and `exit' among them.                                                  *)
(*                                                                         *)
(* A line is a sequence of characters, counted from 0 as in the code; a    *)
(* word that is a command counts as one character.  What split() finds is  *)
(* a sequence of pieces of its line: [from, to) each.                      *)
(***************************************************************************)
EXTENDS Integers, Sequences, SequencesExt

CONSTANTS
  Chars,   \* characters, and the words of the commands
  Delims,  \* the delimiters that may be given
  Files,   \* the texts that may be in the file
  Inputs   \* the texts that may be on the standard input

ASSUME TextToolAssumption ==
  /\ Delims \subseteq Seq(Chars) \ {<<>>}
  /\ Files \cup Inputs \subseteq Seq(Seq(Chars))

VARIABLES
  delim,    \* argv[2]
  text,     \* the lines of the file and of the standard input
  phase,    \* which of the two is read: "file", "stdin", or "done"
  at,       \* lines of it that were read
  pc,       \* in a turn of the loop: "getline", "process" or "split"
  in,       \* local variable of main(): the line, trimmed and then cut
  last,     \* local variable of split(): the end of the last delimiter
  current,  \* local variable of split(): where the next one may begin
  result,   \* the pieces found
  out       \* what was printed: for each line its parts

splitVars == <<last, current, result>>
vars == <<delim, text, phase, at, pc, in, splitVars, out>>

Blank == " "
NPos == -1   \* string::npos, as an int

-----------------------------------------------------------------------------
(* trim *)

Least(S) == IF S = {} THEN NPos ELSE CHOOSE k \in S : \A j \in S : k <= j
Greatest(S) == IF S = {} THEN NPos ELSE CHOOSE k \in S : \A j \in S : k >= j

Inked(s) == {k \in 0..(Len(s) - 1) : s[k + 1] # Blank}

(* erase(0, n), where npos stands for all there is. *)
EraseFront(s, n) == IF n = NPos THEN <<>> ELSE SubSeq(s, n + 1, Len(s))

(* Mutant of Trim: the blanks at the end stay. *)
TrimFront(s) == EraseFront(s, Least(Inked(s)))

(* After the erasure at the front, npos + 1 is 0 for a line of blanks. *)
Trim(s) ==
  LET rest == EraseFront(s, Least(Inked(s))) IN
  SubSeq(rest, 1, Greatest(Inked(rest)) + 1)

-----------------------------------------------------------------------------
(* split: one action for a turn of its loop, and one for what follows it. *)

(* Mutant of FindFirst: what is not found is at the end. *)
FindFirstOrEnd(s, k) ==
  Least({j \in k..(Len(s) - 1) : s[j + 1] = delim[1]} \cup {Len(s)})

(* s.find_first_of(delim[0], k) *)
FindFirst(s, k) == Least({j \in k..(Len(s) - 1) : s[j + 1] = delim[1]})

(* in.substr(k, delim.length()) == delim *)
Occurs(k) == SubSeq(in, k + 1, k + Len(delim)) = delim

Piece(k, n) == [from |-> k, to |-> n]

(* Mutant of TooLate: one character more is left over. *)
TooLateByOne == current + Len(delim) >= Len(in)

(* There is no room for another delimiter. *)
TooLate == current + Len(delim) > Len(in)

Looking == pc = "split" /\ current # NPos /\ ~TooLate

FindDelim ==
  /\ Looking
  /\ Occurs(current)
  /\ result' = Append(result, Piece(last, current))
  /\ last' = current + Len(delim)
  /\ current' = FindFirst(in, current + Len(delim))
  /\ UNCHANGED <<delim, text, phase, at, pc, in, out>>

(* Mutant of SkipChar: the search begins where it stopped. *)
SkipNothing ==
  /\ Looking
  /\ ~Occurs(current)
  /\ current' = FindFirst(in, current)
  /\ UNCHANGED <<delim, text, phase, at, pc, in, last, result, out>>

SkipChar ==
  /\ Looking
  /\ ~Occurs(current)
  /\ current' = FindFirst(in, current + 1)
  /\ UNCHANGED <<delim, text, phase, at, pc, in, last, result, out>>

(* What the pieces are printed as. *)
Parts(pieces) ==
  [i \in 1..Len(pieces) |-> SubSeq(in, pieces[i].from + 1, pieces[i].to)]

(* The rest of the line is a piece unless it is empty. *)
FinishSplit ==
  /\ pc = "split" /\ ~Looking
  /\ result' = IF Len(in) - last > 0 THEN Append(result, Piece(last, Len(in))) ELSE result
  /\ pc' = "getline"
  /\ out' = Append(out, Parts(result'))
  /\ UNCHANGED <<delim, text, phase, at, in, last, current>>

-----------------------------------------------------------------------------
(* main and process *)

Init ==
  /\ delim \in Delims
  /\ text \in [file : Files, stdin : Inputs]
  /\ phase = "file"
  /\ at = 0
  /\ pc = "getline"
  /\ in = <<>> /\ last = 0 /\ current = 0 /\ result = <<>>
  /\ out = <<>>

(* The file's lines are printed as they are, and all are trimmed. *)
GetLine ==
  /\ phase # "done" /\ pc = "getline"
  /\ at < Len(text[phase])
  /\ at' = at + 1
  /\ pc' = "process"
  /\ in' = Trim(text[phase][at'])
  /\ out' = IF phase = "file" THEN Append(out, <<text[phase][at']>>) ELSE out
  /\ UNCHANGED <<delim, text, phase, splitVars>>

(* A loop of main() ends. *)
NextPhase ==
  /\ phase' = IF phase = "file" THEN "stdin" ELSE "done"
  /\ at' = 0 /\ pc' = "getline"
  /\ UNCHANGED <<delim, text, in, splitVars, out>>

EndOfText ==
  /\ phase # "done" /\ pc = "getline"
  /\ at = Len(text[phase])
  /\ NextPhase

Exit == pc = "process" /\ in = <<"exit">> /\ NextPhase

(* The line begins with the word. *)
Command(word) == pc = "process" /\ in # <<>> /\ in[1] = word

ReverseLine ==
  /\ Command("reverse")
  /\ in' = Reverse(Trim(Tail(in)))
  /\ out' = Append(out, <<in'>>)
  /\ pc' = "getline"
  /\ UNCHANGED <<delim, text, phase, at, splitVars>>

SplitLine ==
  /\ Command("split")
  /\ in' = Trim(Tail(in))
  /\ last' = 0
  /\ current' = FindFirst(in', 0)
  /\ result' = <<>>
  /\ pc' = "split"
  /\ UNCHANGED <<delim, text, phase, at, out>>

OtherLine ==
  /\ pc = "process" /\ in # <<"exit">>
  /\ ~Command("reverse") /\ ~Command("split")
  /\ pc' = "getline"
  /\ UNCHANGED <<delim, text, phase, at, in, splitVars, out>>

Done == phase = "done" /\ UNCHANGED vars

Main == GetLine \/ EndOfText \/ Exit \/ ReverseLine \/ SplitLine \/ OtherLine
SplitLoop == FindDelim \/ SkipChar \/ FinishSplit

Next == Main \/ SplitLoop \/ Done

Spec == Init /\ [][Next]_vars

(* The tool never waits when there is a line. *)
FairSpec == Spec /\ WF_vars(Main \/ SplitLoop)

-----------------------------------------------------------------------------
TypeOK ==
  /\ delim \in Delims
  /\ text \in [file : Files, stdin : Inputs]
  /\ phase \in {"file", "stdin", "done"}
  /\ at \in Nat /\ (phase # "done" => at <= Len(text[phase]))
  /\ in \in Seq(Chars)
  /\ last \in Nat /\ current \in Nat \cup {NPos}
  /\ pc = "split" => last <= Len(in) /\ current < Len(in)
  /\ result \in Seq([from : Nat, to : Nat])
  /\ pc \in {"getline", "process", "split"}
  /\ out \in Seq(Seq(Seq(Chars)))

(* No delimiter begins at k or later, but before n. *)
NoneBetween(k, n) ==
  \A j \in k..(n - 1) : j + Len(delim) <= Len(in) => ~Occurs(j)

(* A piece that begins where the last delimiter ended, and has none inside. *)
Clear(pieces, i) ==
  /\ pieces[i].from = IF i = 1 THEN 0 ELSE pieces[i - 1].to + Len(delim)
  /\ pieces[i].from <= pieces[i].to
  /\ NoneBetween(pieces[i].from, pieces[i].to)

(* It ends at a delimiter. *)
Closed(piece) == piece.to + Len(delim) <= Len(in) /\ Occurs(piece.to)

(* The pieces are what lies between the delimiters one finds from left to      *)
(* right; the last one ends with the line, or at a delimiter that does.        *)
IsSplit(pieces) ==
  /\ \A i \in 1..Len(pieces) : Clear(pieces, i)
  /\ \A i \in 1..(Len(pieces) - 1) : Closed(pieces[i])
  /\ IF in = <<>> THEN pieces = <<>>
     ELSE /\ pieces # <<>>
          /\ LET end == pieces[Len(pieces)] IN
             \/ end.to = Len(in)
             \/ end.to + Len(delim) = Len(in) /\ Closed(end)

(* split() loses nothing of a line and finds every delimiter that does not     *)
(* overlap one before it: at the end of the line, after a part of one, and     *)
(* where one begins inside another.                                            *)
SplitIsLeftToRight ==
  [][pc = "split" /\ pc' # "split" => IsSplit(result')]_vars

(* What is left to do: texts, lines of this one, work on the line, and          *)
(* characters of it for split() to look at.                                    *)
TextsLeft == CASE phase = "file" -> 2 [] phase = "stdin" -> 1 [] OTHER -> 0
LinesLeft == IF phase = "done" THEN 0 ELSE Len(text[phase]) - at
WorkLeft == CASE pc = "process" -> 2 [] pc = "split" -> 1 [] OTHER -> 0
CharsLeft == IF pc = "split" /\ current # NPos THEN Len(in) - current ELSE 0

Left == <<TextsLeft, LinesLeft, WorkLeft, CharsLeft>>

(* The lexicographic order. *)
Less(m, n) ==
  \E i \in 1..4 : m[i] < n[i] /\ \A j \in 1..(i - 1) : m[j] = n[j]

(* Every step leaves less to do than before: no loop of the tool, nor that of  *)
(* split(), goes on for ever, whatever the texts and whatever the delimiter,   *)
(* as long as that is not empty.                                               *)
StepsGoOn == [][Less(Left', Left)]_vars

(* The tool comes to the end of every text. *)
Termination == <>(phase = "done")
=============================================================================
