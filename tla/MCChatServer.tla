---------------------------- MODULE MCChatServer ----------------------------
(* What the clients type in the runs of ChatServer. *)
EXTENDS ChatServerInv

line(words) == <<words>>   \* a segment of one line

(* Names are taken, given up and asked for; two lines may arrive at once.    *)
(* "anonymouse" is a valid name, and the one TELL refuses.                     *)
NameSegments ==
  { line(<<"name", "al">>),
    line(<<"name", "anonymouse">>),
    line(<<"tell", "al", "hi">>),
    << <<"exit">>, <<"name", "al">> >> }

(* Clients that type one line at a time and rename themselves. *)
RenameSegments ==
  { line(<<"name", "al">>),
    line(<<"name", "bo">>),
    line(<<"tell", "al", "hi">>) }

(* Every command, an empty line, and `name' without its word. *)
CommandSegments ==
  { line(<<"name", "al">>),
    line(<<"name">>),
    line(<<"who">>),
    line(<<"tell", "al", "hi">>),
    line(<<"yell", "hi">>),
    << <<"check", "al">>, <<"exit">> >>,
    << <<>>, <<>> >> }
=============================================================================
