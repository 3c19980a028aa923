----------------------------- MODULE MCTextTool -----------------------------
(* TextTool with small texts, and what it ought to print of them. *)
EXTENDS TextTool

Letters == {" ", "a", "b"}
Bodies == UNION {[1..n -> Letters] : n \in 0..5}

Lines ==
  {<<"split">> \o b : b \in Bodies}
    \cup {<<" ", "reverse">> \o b : b \in Bodies}
    \cup {<<" ", "exit", " ">>, <<"exit", "a">>, <<"a", "split">>, <<" ">>, <<>>}

SomeDelims == {<<"a">>, <<"a", "a">>, <<"a", "b">>, <<"a", "b", "a">>}
OneLine == {<<l>> : l \in Lines}
Splits == {<<>>, <<<<"exit">>, <<"split", "a">>>>, <<<<"split", "a", "b", "a">>>>}

-----------------------------------------------------------------------------
(* The reference, by recursion over lines and characters. *)

RECURSIVE Strip(_)
Strip(s) ==
  IF s = <<>> THEN s
  ELSE IF Head(s) = Blank THEN Strip(Tail(s))
  ELSE IF Last(s) = Blank THEN Strip(Front(s))
  ELSE s

(* The parts of s, of which the first has begun with the characters of part. *)
RECURSIVE PartsOf(_, _)
PartsOf(part, s) ==
  IF s = <<>> THEN IF part = <<>> THEN <<>> ELSE <<part>>
  ELSE IF IsPrefix(delim, s)
  THEN <<part>> \o PartsOf(<<>>, SubSeq(s, Len(delim) + 1, Len(s)))
  ELSE PartsOf(Append(part, Head(s)), Tail(s))

(* What a line that is a command prints. *)
Answer(line) ==
  CASE line = <<>> -> <<>>
    [] line # <<>> /\ line[1] = "reverse" -> <<<<Reverse(Strip(Tail(line)))>>>>
    [] line # <<>> /\ line[1] = "split" -> <<PartsOf(<<>>, Strip(Tail(line)))>>
    [] OTHER -> <<>>

(* What lines print, up to the first that says `exit'. *)
RECURSIVE Printed(_, _)
Printed(ls, echo) ==
  IF ls = <<>> THEN <<>>
  ELSE LET shown == IF echo THEN <<<<Head(ls)>>>> ELSE <<>> IN
       IF Strip(Head(ls)) = <<"exit">> THEN shown
       ELSE shown \o Answer(Strip(Head(ls))) \o Printed(Tail(ls), echo)

(* The tool prints what it should: trim() and split(), which compute with      *)
(* npos, do what stripping and splitting are, for every line and delimiter,    *)
(* and `exit' ends one text and not both.                                      *)
PrintsAsExpected ==
  phase = "done" => out = Printed(text.file, TRUE) \o Printed(text.stdin, FALSE)
=============================================================================
