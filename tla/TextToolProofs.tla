--------------------------- MODULE TextToolProofs ---------------------------
(***************************************************************************)
(* The text tool keeps its types, and split() finds every delimiter, for   *)
(* any characters, texts and delimiters.                                   *)
(***************************************************************************)
EXTENDS TextTool, SequenceTheorems, WellFoundedInduction, TLAPS

(* In the line s the delimiter d begins nowhere in k..n-1. *)
NoneIn(s, d, k, n) ==
  \A j \in k..(n - 1) : j + Len(d) <= Len(s) => SubSeq(s, j + 1, j + Len(d)) # d

(* The piece i of r is clear and ends at a delimiter. *)
Found(s, d, r, i) ==
  /\ r[i].from = IF i = 1 THEN 0 ELSE r[i - 1].to + Len(d)
  /\ r[i].from <= r[i].to
  /\ NoneIn(s, d, r[i].from, r[i].to)
  /\ r[i].to + Len(d) <= Len(s)
  /\ SubSeq(s, r[i].to + 1, r[i].to + Len(d)) = d

(* What the loop of split() maintains: every piece so far is found, l is where *)
(* the last of them leaves off, and no delimiter begins from there up to c.    *)
Loop(s, d, l, c, r) ==
  /\ \A i \in 1..Len(r) : Found(s, d, r, i)
  /\ l = IF r = <<>> THEN 0 ELSE r[Len(r)].to + Len(d)
  /\ c = NPos => NoneIn(s, d, l, Len(s))
  /\ c # NPos => l <= c /\ NoneIn(s, d, l, c)

LoopInv == pc = "split" => Loop(in, delim, last, current, result)

-----------------------------------------------------------------------------
(* Searching. *)

(* A set of natural numbers that is not empty has a least member. *)
LEMMA LeastExists ==
  ASSUME NEW T \in SUBSET Nat, T # {}
  PROVE  \E x \in T : \A y \in T : x <= y
<1> DEFINE Below == {ss \in Nat \X Nat : ss[1] < ss[2]}
<1>1. IsWellFoundedOn(Below, Nat)
  BY NatLessThanWellFounded DEF OpToRel
<1>2. \E x \in T : \A y \in T : <<y, x>> \notin Below
  <2> HIDE DEF Below
  <2> QED
    BY <1>1, WFMin, Zenon
<1>3. PICK x \in T : \A y \in T : <<y, x>> \notin Below
  BY <1>2
<1>4. \A y \in T : ~(y < x)
  BY <1>3
<1>5. \A y \in T : y \in Nat /\ x \in Nat
  OBVIOUS
<1> QED
  BY <1>4, <1>5

(* Least() is the least member, or npos. *)
LEMMA LeastIsLeast ==
  ASSUME NEW T \in SUBSET Nat
  PROVE  /\ T = {} => Least(T) = NPos
         /\ T # {} => Least(T) \in T /\ \A y \in T : Least(T) <= y
<1>1. CASE T = {}
  BY <1>1 DEF Least
<1>2. CASE T # {}
  <2>1. \E x \in T : \A y \in T : x <= y
    BY <1>2, LeastExists
  <2> QED
    BY <1>2, <2>1 DEF Least
<1> QED
  BY <1>1, <1>2

(* Greatest() is the greatest member, or npos. *)
LEMMA GreatestIsGreatest ==
  ASSUME NEW n \in Nat, NEW T \in SUBSET (0..(n - 1))
  PROVE  /\ T = {} => Greatest(T) = NPos
         /\ T # {} => Greatest(T) \in T /\ \A y \in T : Greatest(T) >= y
<1>1. CASE T = {}
  BY <1>1 DEF Greatest
<1>2. CASE T # {}
  <2> DEFINE D == {m \in Nat : n - m \in T}
  <2>1. D # {}
    <3>1. PICK k \in T : TRUE
      BY <1>2
    <3>2. n - k \in Nat /\ n - (n - k) = k
      BY <3>1
    <3> QED
      BY <3>1, <3>2
  <2>2. PICK m \in D : \A y \in D : m <= y
    <3>1. D \in SUBSET Nat
      OBVIOUS
    <3> HIDE DEF D
    <3> QED
      BY <2>1, <3>1, LeastExists
  <2>3. ASSUME NEW j \in T PROVE n - m >= j
    <3>1. n - j \in D
      <4>1. n - j \in Nat /\ n - (n - j) = j
        OBVIOUS
      <4> QED
        BY <4>1
    <3>2. m <= n - j
      BY <2>2, <3>1
    <3> QED
      BY <3>2
  <2>4. \E k \in T : \A j \in T : k >= j
    BY <2>2, <2>3
  <2> QED
    BY <1>2, <2>4 DEF Greatest
<1> QED
  BY <1>1, <1>2

(* Where the first character of a delimiter is not, the delimiter is not: a    *)
(* search for the one character passes no delimiter.                           *)
LEMMA SearchPassesNone ==
  ASSUME NEW s \in Seq(Chars), NEW d \in Seq(Chars), d # <<>>, NEW k \in Nat,
         NEW f, f = Least({j \in k..(Len(s) - 1) : s[j + 1] = d[1]})
  PROVE  /\ f = NPos => NoneIn(s, d, k, Len(s))
         /\ f # NPos => f \in k..(Len(s) - 1) /\ NoneIn(s, d, k, f)
<1> DEFINE T == {j \in k..(Len(s) - 1) : s[j + 1] = d[1]}
<1>1. T \in SUBSET Nat
  OBVIOUS
<1>2. /\ T = {} => f = NPos
      /\ T # {} => f \in T /\ \A y \in T : f <= y
  <2> HIDE DEF T
  <2>1. f = Least(T)
    BY DEF T
  <2>2. /\ T = {} => Least(T) = NPos
        /\ T # {} => Least(T) \in T /\ \A y \in T : Least(T) <= y
    BY <1>1, LeastIsLeast
  <2> QED
    BY <2>1, <2>2
<1>3. Len(d) \in Nat /\ Len(d) >= 1 /\ Len(s) \in Nat
  OBVIOUS
<1>4. ASSUME NEW j \in k..(Len(s) - 1), j + Len(d) <= Len(s),
             SubSeq(s, j + 1, j + Len(d)) = d
      PROVE  j \in T
  <2>1. SubSeq(s, j + 1, j + Len(d))[1] = s[j + 1]
    BY <1>3, <1>4
  <2> QED
    BY <1>4, <2>1
<1>5. T = {} \/ f # NPos
  <2>1. \A y \in T : y # NPos
    BY <1>3 DEF NPos
  <2> QED
    BY <1>2, <2>1
<1>6. ASSUME f = NPos, NEW j \in k..(Len(s) - 1), j + Len(d) <= Len(s)
      PROVE  SubSeq(s, j + 1, j + Len(d)) # d
  BY <1>4, <1>5, <1>6
<1>7. ASSUME f # NPos
      PROVE  /\ f \in k..(Len(s) - 1)
             /\ \A j \in k..(f - 1) : j + Len(d) <= Len(s) =>
                  SubSeq(s, j + 1, j + Len(d)) # d
  <2>1. f \in T /\ \A y \in T : f <= y
    <3> HIDE DEF T
    <3> QED
      BY <1>2, <1>7
  <2>2. f \in k..(Len(s) - 1)
    BY <2>1
  <2>3. ASSUME NEW j \in k..(f - 1), j + Len(d) <= Len(s)
        PROVE  SubSeq(s, j + 1, j + Len(d)) # d
    <3>1. j \in k..(Len(s) - 1) /\ ~(f <= j)
      BY <2>2
    <3>2. j \notin T
      <4> HIDE DEF T
      <4> QED
        BY <2>1, <3>1
    <3> QED
      BY <1>4, <2>3, <3>1, <3>2
  <2> QED
    BY <2>2, <2>3
<1> QED
  BY <1>6, <1>7 DEF NoneIn

(* trim() of a line is a line. *)
LEMMA TrimType ==
  ASSUME NEW s \in Seq(Chars)
  PROVE  Trim(s) \in Seq(Chars)
<1> DEFINE rest == EraseFront(s, Least(Inked(s)))
           last_ == Greatest(Inked(rest))
<1>1. Inked(s) \in SUBSET Nat
  BY DEF Inked
<1>2. Least(Inked(s)) = NPos \/ Least(Inked(s)) \in 0..(Len(s) - 1)
  <2>1. Inked(s) \subseteq 0..(Len(s) - 1)
    BY DEF Inked
  <2> QED
    BY <1>1, <2>1, LeastIsLeast
<1>3. rest \in Seq(Chars)
  BY <1>2 DEF EraseFront, NPos
<1> HIDE DEF rest
<1>4. last_ \in 0..(Len(rest) - 1) \/ last_ = NPos
  <2>1. Len(rest) \in Nat /\ Inked(rest) \in SUBSET (0..(Len(rest) - 1))
    BY <1>3 DEF Inked
  <2> QED
    BY <2>1, GreatestIsGreatest
<1>5. Trim(s) = SubSeq(rest, 1, last_ + 1)
  BY DEF Trim, rest
<1> HIDE DEF last_
<1>6. SubSeq(rest, 1, last_ + 1) \in Seq(Chars)
  BY <1>3, <1>4 DEF NPos
<1> QED
  BY <1>5, <1>6

(* trim() takes the blanks at both ends and nothing else, also of a line that  *)
(* is all blanks, where its arithmetic with npos leaves an empty line.         *)
THEOREM TrimTakesBlanks ==
  ASSUME NEW s \in Seq(Chars)
  PROVE  \E a, b \in 0..Len(s) + 1 :
           /\ Trim(s) = SubSeq(s, a, b)
           /\ \A i \in 1..Len(s) : i < a \/ i > b => s[i] = Blank
           /\ Trim(s) # <<>> => a \in 1..b /\ b <= Len(s) /\ s[a] # Blank /\ s[b] # Blank
<1> DEFINE first == Least(Inked(s))
           rest == EraseFront(s, first)
           last_ == Greatest(Inked(rest))
<1>1. Inked(s) \in SUBSET Nat /\ Inked(s) \subseteq 0..(Len(s) - 1) /\ Len(s) \in Nat
  BY DEF Inked
<1>2. CASE Inked(s) = {}
  <2>1. first = NPos
    BY <1>1, <1>2, LeastIsLeast
  <2>2. rest = <<>>
    BY <2>1 DEF EraseFront
  <2> HIDE DEF rest
  <2>3. Inked(rest) = {} /\ Inked(rest) \in SUBSET (0..(0 - 1))
    BY <2>2 DEF Inked
  <2>4. last_ = NPos
    <3> HIDE DEF last_
    <3> QED
      BY <2>3, GreatestIsGreatest DEF last_
  <2>5. Trim(s) = SubSeq(rest, 1, last_ + 1)
    BY DEF Trim, rest
  <2>6. Trim(s) = <<>>
    BY <2>2, <2>4, <2>5 DEF NPos
  <2>7. SubSeq(s, 1, 0) = <<>>
    OBVIOUS
  <2>8. \A i \in 1..Len(s) : s[i] = Blank
    <3> SUFFICES ASSUME NEW i \in 1..Len(s) PROVE s[i] = Blank
      OBVIOUS
    <3>1. i - 1 \in 0..(Len(s) - 1) /\ (i - 1) + 1 = i
      BY <1>1
    <3> QED
      BY <1>2, <3>1 DEF Inked
  <2>9. 1 \in 0..Len(s) + 1 /\ 0 \in 0..Len(s) + 1
    BY <1>1
  <2> QED
    BY <2>6, <2>7, <2>8, <2>9
<1>3. CASE Inked(s) # {}
  <2>1. PICK m \in 0..(Len(s) - 1) :
          m = first /\ m \in Inked(s) /\ \A y \in Inked(s) : m <= y
    BY <1>1, <1>3, LeastIsLeast
  <2> HIDE DEF first
  <2>2. rest = SubSeq(s, m + 1, Len(s))
    BY <2>1 DEF EraseFront, NPos
  <2>3. /\ rest \in Seq(Chars) /\ Len(rest) = Len(s) - m
        /\ \A i \in 1..Len(rest) : rest[i] = s[m + i]
    BY <1>1, <2>1, <2>2
  <2> HIDE DEF rest
  <2>4. 0 \in Inked(rest)
    <3>1. 0 \in 0..(Len(rest) - 1) /\ rest[0 + 1] = s[m + 1]
      BY <1>1, <2>1, <2>3
    <3> QED
      BY <2>1, <3>1 DEF Inked
  <2>5. PICK k \in 0..(Len(rest) - 1) :
          k = last_ /\ k \in Inked(rest) /\ \A y \in Inked(rest) : k >= y
    <3>1. Len(rest) \in Nat /\ Inked(rest) \in SUBSET (0..(Len(rest) - 1))
      BY <2>3 DEF Inked
    <3> QED
      BY <2>4, <3>1, GreatestIsGreatest
  <2>6. Trim(s) = SubSeq(rest, 1, k + 1)
    BY <2>5 DEF Trim, rest, first
  <2> HIDE DEF last_
  <2>7. SubSeq(rest, 1, k + 1) = SubSeq(s, m + 1, m + k + 1)
    BY <1>1, <2>1, <2>3, <2>5
  <2>8. m + 1 \in 1..m + k + 1 /\ m + k + 1 \in 1..Len(s)
    BY <1>1, <2>1, <2>3, <2>5
  <2>9. s[m + 1] # Blank
    BY <2>1 DEF Inked
  <2>10. s[m + k + 1] # Blank
    <3>1. rest[k + 1] # Blank
      BY <2>5 DEF Inked
    <3>2. k + 1 \in 1..Len(rest) /\ m + (k + 1) = m + k + 1
      BY <2>1, <2>3, <2>5
    <3> QED
      BY <2>3, <3>1, <3>2
  <2>11. ASSUME NEW i \in 1..Len(s), i < m + 1 \/ i > m + k + 1
         PROVE  s[i] = Blank
    <3>1. CASE i < m + 1
      <4>1. i - 1 \in 0..(Len(s) - 1) /\ (i - 1) + 1 = i /\ ~(m <= i - 1)
        BY <1>1, <2>1, <3>1
      <4>2. i - 1 \notin Inked(s)
        BY <2>1, <4>1
      <4> QED
        BY <4>1, <4>2 DEF Inked
    <3>2. CASE i > m + k + 1
      <4> DEFINE y == i - m - 1
      <4>1. /\ y \in 0..(Len(rest) - 1) /\ ~(k >= y)
            /\ y + 1 \in 1..Len(rest) /\ m + (y + 1) = i
        BY <1>1, <2>1, <2>3, <2>5, <3>2
      <4> HIDE DEF y
      <4>2. y \notin Inked(rest) /\ rest[y + 1] = s[i]
        BY <2>3, <2>5, <4>1
      <4> QED
        BY <4>1, <4>2 DEF Inked
    <3> QED
      BY <2>11, <3>1, <3>2
  <2>12. m + 1 \in 0..Len(s) + 1 /\ m + k + 1 \in 0..Len(s) + 1
    BY <1>1, <2>8
  <2> QED
    BY <2>6, <2>7, <2>8, <2>9, <2>10, <2>11, <2>12
<1> QED
  BY <1>2, <1>3

-----------------------------------------------------------------------------
(* Types. *)

(* The lines are sequences of characters, and no delimiter is empty. *)
LEMMA TextFacts ==
  ASSUME TypeOK
  PROVE  /\ delim \in Seq(Chars) /\ delim # <<>> /\ Len(delim) \in Nat \ {0}
         /\ phase # "done" => text[phase] \in Seq(Seq(Chars))
         /\ in \in Seq(Chars) /\ Len(in) \in Nat
<1>1. delim \in Seq(Chars) /\ delim # <<>>
  BY TextToolAssumption DEF TextToolAssumption, TypeOK
<1>2. text.file \in Seq(Seq(Chars)) /\ text.stdin \in Seq(Seq(Chars))
  BY TextToolAssumption DEF TextToolAssumption, TypeOK
<1>3. phase # "done" => text[phase] \in Seq(Seq(Chars))
  BY <1>2 DEF TypeOK
<1> QED
  BY <1>1, <1>3 DEF TypeOK

(* The search for a delimiter returns npos or a place in the line. *)
LEMMA FindFirstType ==
  ASSUME NEW s \in Seq(Chars), NEW k \in Nat, NEW d
  PROVE  Least({j \in k..(Len(s) - 1) : s[j + 1] = d}) \in k..(Len(s) - 1) \cup {NPos}
<1> DEFINE T == {j \in k..(Len(s) - 1) : s[j + 1] = d}
<1>1. T \in SUBSET Nat /\ T \subseteq k..(Len(s) - 1)
  OBVIOUS
<1> HIDE DEF T
<1>2. /\ T = {} => Least(T) = NPos
      /\ T # {} => Least(T) \in T
  BY <1>1, LeastIsLeast
<1>3. Least(T) \in k..(Len(s) - 1) \cup {NPos}
  BY <1>1, <1>2
<1> QED
  BY <1>3 DEF T

LEMMA TypeInit == Init => TypeOK
<1> SUFFICES ASSUME Init PROVE TypeOK
  OBVIOUS
<1>1. text.file \in Seq(Seq(Chars))
  BY TextToolAssumption DEF TextToolAssumption, Init
<1> QED
  BY <1>1 DEF Init, TypeOK, NPos

LEMMA TypeStep == TypeOK /\ LoopInv /\ [Next]_vars => TypeOK'
<1> SUFFICES ASSUME TypeOK, LoopInv, [Next]_vars PROVE TypeOK'
  OBVIOUS
<1> USE TextFacts
<1>1. CASE GetLine
  <2>1. text[phase] \in Seq(Seq(Chars)) /\ at + 1 \in 1..Len(text[phase])
    BY <1>1 DEF GetLine, TypeOK
  <2>2. text[phase][at + 1] \in Seq(Chars)
    BY <2>1
  <2>3. in' \in Seq(Chars)
    BY <1>1, <2>2, TrimType DEF GetLine
  <2>4. out' \in Seq(Seq(Seq(Chars)))
    <3>1. <<text[phase][at + 1]>> \in Seq(Seq(Chars))
      BY <2>2
    <3> QED
      BY <1>1, <3>1 DEF GetLine, TypeOK
  <2> QED
    BY <1>1, <2>1, <2>3, <2>4 DEF GetLine, TypeOK, splitVars
<1>2. CASE EndOfText \/ Exit
  <2>1. NextPhase
    BY <1>2 DEF EndOfText, Exit
  <2>2. phase' \in {"stdin", "done"} /\ text' = text
    BY <2>1 DEF NextPhase
  <2>3. text.stdin \in Seq(Seq(Chars))
    BY TextToolAssumption DEF TextToolAssumption, TypeOK
  <2>4. phase' # "done" => 0 <= Len(text'[phase'])
    BY <2>2, <2>3
  <2> QED
    BY <2>1, <2>2, <2>4 DEF NextPhase, TypeOK, splitVars
<1>3. CASE ReverseLine
  <2>1. Tail(in) \in Seq(Chars)
    BY <1>3 DEF ReverseLine, Command
  <2>2. Trim(Tail(in)) \in Seq(Chars)
    BY <2>1, TrimType
  <2>3. in' \in Seq(Chars)
    <3> DEFINE s == Trim(Tail(in))
    <3>1. s \in Seq(Chars)
      BY <2>2
    <3> HIDE DEF s
    <3>2. Reverse(s) \in Seq(Chars)
      BY <3>1 DEF Reverse
    <3> QED
      BY <1>3, <3>2 DEF ReverseLine, s
  <2>4. out' \in Seq(Seq(Seq(Chars)))
    <3>1. <<in'>> \in Seq(Seq(Chars))
      BY <2>3
    <3> QED
      BY <1>3, <3>1 DEF ReverseLine, TypeOK
  <2> QED
    BY <1>3, <2>3, <2>4 DEF ReverseLine, TypeOK, splitVars
<1>4. CASE SplitLine
  <2>1. Tail(in) \in Seq(Chars)
    BY <1>4 DEF SplitLine, Command
  <2>2. in' \in Seq(Chars)
    BY <1>4, <2>1, TrimType DEF SplitLine
  <2>3. current' \in 0..(Len(in') - 1) \cup {NPos}
    <3>1. FindFirst(in', 0) \in 0..(Len(in') - 1) \cup {NPos}
      <4>1. Least({j \in 0..(Len(in') - 1) : in'[j + 1] = delim[1]})
              \in 0..(Len(in') - 1) \cup {NPos}
        <5>1. 0 \in Nat
          OBVIOUS
        <5> QED
          BY <2>2, <5>1, FindFirstType, Zenon
      <4> QED
        BY <4>1, Zenon DEF FindFirst
    <3> QED
      BY <1>4, <3>1 DEF SplitLine
  <2>4. Len(in') \in Nat
    BY <2>2
  <2> QED
    BY <1>4, <2>2, <2>3, <2>4 DEF SplitLine, TypeOK, NPos
<1>5. CASE OtherLine
  BY <1>5 DEF OtherLine, TypeOK, splitVars
<1>6. CASE FindDelim
  <2>1. /\ current \in Nat /\ last \in Nat /\ current + Len(delim) \in Nat
        /\ current + Len(delim) <= Len(in)
    BY <1>6 DEF FindDelim, Looking, TooLate, TypeOK
  <2>2. current' \in (current + Len(delim))..(Len(in) - 1) \cup {NPos}
    <3>1. FindFirst(in, current + Len(delim))
            \in (current + Len(delim))..(Len(in) - 1) \cup {NPos}
      BY <2>1, FindFirstType DEF FindFirst
    <3> QED
      BY <1>6, <3>1 DEF FindDelim
  <2>3. result' \in Seq([from : Nat, to : Nat])
    BY <1>6, <2>1 DEF FindDelim, Piece, TypeOK
  <2> QED
    BY <1>6, <2>1, <2>2, <2>3 DEF FindDelim, TypeOK, NPos
<1>7. CASE SkipChar
  <2>1. current \in Nat /\ current + 1 \in Nat
    BY <1>7 DEF SkipChar, Looking, TypeOK
  <2>2. current' \in (current + 1)..(Len(in) - 1) \cup {NPos}
    <3>1. FindFirst(in, current + 1) \in (current + 1)..(Len(in) - 1) \cup {NPos}
      BY <2>1, FindFirstType DEF FindFirst
    <3> QED
      BY <1>7, <3>1 DEF SkipChar
  <2> QED
    BY <1>7, <2>1, <2>2 DEF SkipChar, TypeOK, NPos
<1>8. CASE FinishSplit
  <2>1. Len(in) \in Nat /\ last \in Nat /\ Piece(last, Len(in)) \in [from : Nat, to : Nat]
    BY DEF Piece, TypeOK
  <2>2. result' \in Seq([from : Nat, to : Nat])
    <3>1. result \in Seq([from : Nat, to : Nat])
      BY DEF TypeOK
    <3>2. Append(result, Piece(last, Len(in))) \in Seq([from : Nat, to : Nat])
      BY <2>1, <3>1
    <3> QED
      BY <1>8, <3>1, <3>2 DEF FinishSplit
  <2>3. Parts(result') \in Seq(Seq(Chars))
    <3>1. ASSUME NEW i \in 1..Len(result')
          PROVE  SubSeq(in, result'[i].from + 1, result'[i].to) \in Seq(Chars)
      <4>1. result'[i].from \in Nat /\ result'[i].to \in Nat
        <5>1. result'[i] \in [from : Nat, to : Nat]
          BY <2>2, ElementOfSeq
        <5> QED
          BY <5>1
      <4>2. CASE i \in 1..Len(result)
        <5>1. Found(in, delim, result, i)
          BY <1>8, <4>2 DEF LoopInv, Loop, FinishSplit
        <5>2. result'[i] = result[i]
          BY <1>8, <4>2 DEF FinishSplit, TypeOK
        <5>3. result[i].to + Len(delim) <= Len(in)
          BY <5>1 DEF Found
        <5>4. result'[i].to <= Len(in)
          <6>1. Len(delim) \in Nat
            OBVIOUS
          <6> QED
            BY <2>1, <4>1, <5>2, <5>3, <6>1
        <5> QED
          BY <4>1, <5>4
      <4>3. CASE i \notin 1..Len(result)
        <5>1. result'[i] = Piece(last, Len(in))
          BY <1>8, <4>3 DEF FinishSplit, TypeOK
        <5> QED
          BY <4>1, <5>1 DEF Piece
      <4> QED
        BY <4>2, <4>3
    <3>2. Len(result') \in Nat
      BY <2>2
    <3> QED
      BY <3>1, <3>2 DEF Parts
  <2>4. out' \in Seq(Seq(Seq(Chars)))
    BY <1>8, <2>3 DEF FinishSplit, TypeOK
  <2> QED
    BY <1>8, <2>2, <2>4 DEF FinishSplit, TypeOK
<1>9. CASE Done \/ UNCHANGED vars
  BY <1>9 DEF Done, vars, splitVars, TypeOK
<1> QED
  BY <1>1, <1>2, <1>3, <1>4, <1>5, <1>6, <1>7, <1>8, <1>9 DEF Next, Main, SplitLoop

-----------------------------------------------------------------------------
(* The loop of split(). *)

(* The loop begins at the first place where a delimiter may be. *)
LEMMA LoopStart ==
  ASSUME NEW s \in Seq(Chars), NEW d \in Seq(Chars), d # <<>>,
         NEW c, c = Least({j \in 0..(Len(s) - 1) : s[j + 1] = d[1]})
  PROVE  Loop(s, d, 0, c, <<>>)
<1>1. /\ c = NPos => NoneIn(s, d, 0, Len(s))
      /\ c # NPos => c \in 0..(Len(s) - 1) /\ NoneIn(s, d, 0, c)
  BY SearchPassesNone
<1>2. Len(<<>>) = 0
  OBVIOUS
<1>3. Len(s) \in Nat
  OBVIOUS
<1> QED
  BY <1>1, <1>2, <1>3 DEF Loop

(* A delimiter at c ends a piece, and the search goes on behind it. *)
LEMMA LoopFind ==
  ASSUME NEW s \in Seq(Chars), NEW d \in Seq(Chars), d # <<>>,
         NEW r \in Seq([from : Nat, to : Nat]), NEW l \in Nat, NEW c \in Nat,
         Loop(s, d, l, c, r),
         c + Len(d) <= Len(s), SubSeq(s, c + 1, c + Len(d)) = d,
         NEW e, e = Least({j \in (c + Len(d))..(Len(s) - 1) : s[j + 1] = d[1]})
  PROVE  Loop(s, d, c + Len(d), e, Append(r, Piece(l, c)))
<1> DEFINE n == Len(r)
           q == Append(r, Piece(l, c))
<1>1. n \in Nat /\ Len(s) \in Nat /\ Len(d) \in Nat /\ c + Len(d) \in Nat
  OBVIOUS
<1>2. /\ Len(q) = n + 1 /\ q[n + 1] = Piece(l, c) /\ q # <<>>
      /\ \A i \in 1..n : q[i] = r[i]
  <2>1. Piece(l, c) \in [from : Nat, to : Nat]
    BY DEF Piece
  <2> HIDE DEF n
  <2>2. /\ Len(q) = Len(r) + 1 /\ q[Len(r) + 1] = Piece(l, c) /\ q # <<>>
        /\ \A i \in 1..Len(r) : q[i] = r[i]
    <3> DEFINE S == [from : Nat, to : Nat]
               p == Piece(l, c)
    <3>1. r \in Seq(S) /\ p \in S
      BY <2>1
    <3> HIDE DEF S, p
    <3>2. Append(r, p) # <<>> /\ Append(r, p) \in Seq(S)
      BY <3>1, Zenon, AppendProperties
    <3>3. Len(Append(r, p)) = Len(r) + 1
      BY <3>1
    <3>4. Append(r, p)[Len(r) + 1] = p
      BY <3>1
    <3>5. \A i \in 1..Len(r) : Append(r, p)[i] = r[i]
      BY <3>1
    <3> QED
      BY <3>2, <3>3, <3>4, <3>5 DEF p
  <2> QED
    BY <2>2 DEF n
<1>3. /\ \A i \in 1..n : Found(s, d, r, i)
      /\ l = IF n = 0 THEN 0 ELSE r[n].to + Len(d)
      /\ l <= c /\ NoneIn(s, d, l, c)
  <2>1. n = 0 <=> r = <<>>
    OBVIOUS
  <2> QED
    BY <2>1 DEF Loop, NPos
<1>4. /\ e = NPos => NoneIn(s, d, c + Len(d), Len(s))
      /\ e # NPos => e \in (c + Len(d))..(Len(s) - 1) /\ NoneIn(s, d, c + Len(d), e)
  BY <1>1, SearchPassesNone
<1> HIDE DEF n, q
<1>5. ASSUME NEW i \in 1..n PROVE Found(s, d, q, i)
  <2>1. q[i] = r[i] /\ (i # 1 => q[i - 1] = r[i - 1])
    BY <1>1, <1>2
  <2> QED
    BY <1>3, <2>1 DEF Found
<1>6. Found(s, d, q, n + 1)
  <2> DEFINE m == n + 1
  <2>1. m \in Nat /\ m - 1 = n /\ (m = 1 <=> n = 0)
    BY <1>1
  <2>2. q[m] = Piece(l, c)
    BY <1>2
  <2>3. /\ l <= c /\ NoneIn(s, d, l, c)
        /\ c + Len(d) <= Len(s) /\ SubSeq(s, c + 1, c + Len(d)) = d
    BY <1>3
  <2> HIDE DEF m
  <2>4. q[m].from = l /\ q[m].to = c
    BY <2>2 DEF Piece
  <2>5a. l = IF m = 1 THEN 0 ELSE q[m - 1].to + Len(d)
    <3>1. CASE n = 0
      BY <1>3, <2>1, <3>1
    <3>2. CASE n # 0
      <4>1. q[n] = r[n]
        BY <1>1, <1>2, <3>2
      <4> QED
        BY <1>3, <2>1, <3>2, <4>1
    <3> QED
      BY <3>1, <3>2
  <2>5. NoneIn(s, d, q[m].from, q[m].to) /\ q[m].from <= q[m].to
    BY <2>3, <2>4
  <2>6. q[m].from = IF m = 1 THEN 0 ELSE q[m - 1].to + Len(d)
    BY <2>4, <2>5a, Zenon
  <2>7. /\ q[m].to + Len(d) <= Len(s)
        /\ SubSeq(s, q[m].to + 1, q[m].to + Len(d)) = d
    BY <2>3, <2>4
  <2>8. Found(s, d, q, m)
    BY <2>5, <2>6, <2>7, Zenon DEF Found
  <2> QED
    BY <2>8 DEF m
<1>7. \A i \in 1..Len(q) : Found(s, d, q, i)
  <2>1. \A i \in 1..Len(q) : i \in 1..n \/ i = n + 1
    BY <1>1, <1>2
  <2> QED
    BY <1>5, <1>6, <2>1, Zenon
<1>8. c + Len(d) = q[Len(q)].to + Len(d)
  BY <1>2 DEF Piece
<1>9. e # NPos => c + Len(d) <= e
  BY <1>1, <1>4
<1>10. Loop(s, d, c + Len(d), e, q)
  BY <1>2, <1>4, <1>7, <1>8, <1>9 DEF Loop
<1> QED
  BY <1>10 DEF q

(* Where the delimiter is not, the search goes on with the next character. *)
LEMMA LoopSkip ==
  ASSUME NEW s \in Seq(Chars), NEW d \in Seq(Chars), d # <<>>,
         NEW r, NEW l \in Nat, NEW c \in Nat,
         Loop(s, d, l, c, r), SubSeq(s, c + 1, c + Len(d)) # d,
         NEW e, e = Least({j \in (c + 1)..(Len(s) - 1) : s[j + 1] = d[1]})
  PROVE  Loop(s, d, l, e, r)
<1>1. l <= c /\ NoneIn(s, d, l, c) /\ Len(s) \in Nat
  BY DEF Loop, NPos
<1>2. /\ e = NPos => NoneIn(s, d, c + 1, Len(s))
      /\ e # NPos => e \in (c + 1)..(Len(s) - 1) /\ NoneIn(s, d, c + 1, e)
  <2>1. c + 1 \in Nat
    OBVIOUS
  <2> QED
    BY <2>1, SearchPassesNone
<1>3. ASSUME NEW m \in Nat, NoneIn(s, d, c + 1, m) PROVE NoneIn(s, d, l, m)
  <2>1. ASSUME NEW j \in l..(m - 1), j + Len(d) <= Len(s)
        PROVE  SubSeq(s, j + 1, j + Len(d)) # d
    <3>1. CASE j \in l..(c - 1)
      BY <1>1, <2>1, <3>1 DEF NoneIn
    <3>2. CASE j = c
      BY <3>2
    <3>3. CASE j \in (c + 1)..(m - 1)
      BY <1>3, <2>1, <3>3 DEF NoneIn
    <3> QED
      BY <3>1, <3>2, <3>3
  <2> QED
    BY <2>1 DEF NoneIn
<1>4. e = NPos => NoneIn(s, d, l, Len(s))
  BY <1>1, <1>2, <1>3
<1>5. e # NPos => l <= e /\ NoneIn(s, d, l, e)
  <2>1. e # NPos => e \in Nat /\ l <= e
    BY <1>1, <1>2
  <2> QED
    BY <1>2, <1>3, <2>1
<1> QED
  BY <1>4, <1>5 DEF Loop

LEMMA LoopStep == TypeOK /\ LoopInv /\ [Next]_vars => LoopInv'
<1> SUFFICES ASSUME TypeOK, LoopInv, [Next]_vars, pc' = "split"
             PROVE  Loop(in', delim', last', current', result')
  BY DEF LoopInv
<1>0. delim \in Seq(Chars) /\ delim # <<>>
  BY TextFacts
<1>1. CASE SplitLine
  <2>1. in' \in Seq(Chars)
    <3>1. Tail(in) \in Seq(Chars)
      BY <1>1 DEF SplitLine, Command, TypeOK
    <3> QED
      BY <1>1, <3>1, TrimType DEF SplitLine
  <2>2. delim' = delim /\ last' = 0 /\ result' = <<>>
        /\ current' = Least({j \in 0..(Len(in') - 1) : in'[j + 1] = delim[1]})
    BY <1>1 DEF SplitLine, FindFirst
  <2>3. Loop(in', delim, 0, current', <<>>)
    BY <1>0, <2>1, <2>2, LoopStart
  <2> QED
    BY <2>2, <2>3
<1>2. CASE FindDelim
  <2>1. /\ current \in Nat /\ last \in Nat /\ current + Len(delim) <= Len(in)
        /\ in \in Seq(Chars) /\ result \in Seq([from : Nat, to : Nat])
    <3>1. current + Len(delim) \in Int /\ Len(in) \in Int
      BY <1>0 DEF TypeOK, NPos
    <3> QED
      BY <1>2, <3>1 DEF FindDelim, Looking, TooLate, TypeOK
  <2>2. Loop(in, delim, last, current, result) /\ SubSeq(in, current + 1, current + Len(delim)) = delim
    BY <1>2 DEF FindDelim, Looking, LoopInv, Occurs
  <2>3. /\ delim' = delim /\ in' = in /\ last' = current + Len(delim)
        /\ result' = Append(result, Piece(last, current))
        /\ current' = Least({j \in (current + Len(delim))..(Len(in) - 1) : in[j + 1] = delim[1]})
    BY <1>2 DEF FindDelim, FindFirst
  <2>4. Loop(in, delim, current + Len(delim), current', Append(result, Piece(last, current)))
    BY <1>0, <2>1, <2>2, <2>3, LoopFind
  <2> QED
    BY <2>3, <2>4
<1>3. CASE SkipChar
  <2>1. current \in Nat /\ last \in Nat /\ in \in Seq(Chars)
    BY <1>3 DEF SkipChar, Looking, TypeOK
  <2>2. Loop(in, delim, last, current, result) /\ SubSeq(in, current + 1, current + Len(delim)) # delim
    BY <1>3 DEF SkipChar, Looking, LoopInv, Occurs
  <2>3. /\ delim' = delim /\ in' = in /\ last' = last /\ result' = result
        /\ current' = Least({j \in (current + 1)..(Len(in) - 1) : in[j + 1] = delim[1]})
    BY <1>3 DEF SkipChar, FindFirst
  <2>4. Loop(in, delim, last, current', result)
    BY <1>0, <2>1, <2>2, <2>3, LoopSkip
  <2> QED
    BY <2>3, <2>4
<1>4. CASE UNCHANGED vars \/ Done
  BY <1>4 DEF Done, vars, splitVars, LoopInv
<1>5. CASE GetLine \/ EndOfText \/ Exit \/ ReverseLine \/ OtherLine \/ FinishSplit
  BY <1>5 DEF GetLine, EndOfText, Exit, NextPhase, ReverseLine, OtherLine, FinishSplit
<1> QED
  BY <1>1, <1>2, <1>3, <1>4, <1>5 DEF Next, Main, SplitLoop

(* The pieces as the property states them. *)
LEMMA FoundIsClosed ==
  ASSUME NEW i, Found(in, delim, result, i)
  PROVE  Clear(result, i) /\ Closed(result[i])
BY DEF Found, NoneIn, Clear, Closed, NoneBetween, Occurs

(* What split() returns is a split of its line. *)
LEMMA FinishIsSplit ==
  ASSUME TypeOK, LoopInv, FinishSplit
  PROVE  IsSplit(result')
<1> USE TextFacts
<1> DEFINE n == Len(result)
<1>1. /\ \A i \in 1..n : Clear(result, i) /\ Closed(result[i])
      /\ last = IF result = <<>> THEN 0 ELSE result[n].to + Len(delim)
      /\ last \in Nat /\ last <= Len(in) /\ n \in Nat
  <2>1. Loop(in, delim, last, current, result)
    BY DEF LoopInv, FinishSplit
  <2>2. \A i \in 1..n : Found(in, delim, result, i)
    BY <2>1 DEF Loop
  <2> QED
    BY <2>1, <2>2, FoundIsClosed DEF Loop, FinishSplit, TypeOK
<1>2. NoneBetween(last, Len(in))
  <2>1. CASE current = NPos
    BY <2>1 DEF LoopInv, Loop, FinishSplit, NoneIn, NoneBetween, Occurs
  <2>2. CASE current # NPos
    <3>1. current \in Nat /\ last <= current /\ NoneBetween(last, current)
          /\ current + Len(delim) > Len(in)
      BY <2>2 DEF LoopInv, Loop, FinishSplit, Looking, TooLate, TypeOK, NoneIn, NoneBetween, Occurs
    <3>2. ASSUME NEW j \in last..(Len(in) - 1), j + Len(delim) <= Len(in)
          PROVE  j \in last..(current - 1)
      BY <1>1, <3>1, <3>2
    <3> QED
      BY <3>1, <3>2 DEF NoneBetween
  <2> QED
    BY <2>1, <2>2
<1>3. CASE Len(in) - last > 0
  <2>1. result' = Append(result, Piece(last, Len(in)))
    BY <1>3 DEF FinishSplit
  <2>2. /\ Len(result') = n + 1 /\ result'[n + 1] = Piece(last, Len(in))
        /\ \A i \in 1..n : result'[i] = result[i]
    BY <2>1 DEF TypeOK
  <2>3. in # <<>> /\ result' # <<>>
    BY <1>1, <1>3, <2>2
  <2>4. ASSUME NEW i \in 1..n PROVE Clear(result', i) /\ Closed(result'[i])
    <3>1. i # 1 => i - 1 \in 1..n
      BY <1>1
    <3> QED
      BY <1>1, <2>2, <3>1 DEF Clear
  <2>5. Clear(result', n + 1)
    <3>1. result = <<>> <=> n + 1 = 1
      BY <1>1 DEF TypeOK
    <3>2. n + 1 - 1 = n /\ (n # 0 => n \in 1..n)
      BY <1>1
    <3>3. result'[n + 1].from = last /\ result'[n + 1].to = Len(in)
      BY <2>2 DEF Piece
    <3>4. last = IF n + 1 = 1 THEN 0 ELSE result'[n].to + Len(delim)
      BY <1>1, <2>2, <3>1, <3>2
    <3> HIDE DEF n
    <3> QED
      BY <1>1, <1>2, <3>2, <3>3, <3>4 DEF Clear
  <2>6. result'[Len(result')].to = Len(in)
    BY <2>2 DEF Piece
  <2>7. \A i \in 1..Len(result') : i \in 1..n \/ i = n + 1
    BY <1>1, <2>2
  <2>8. \A i \in 1..(Len(result') - 1) : i \in 1..n
    BY <1>1, <2>2
  <2> HIDE DEF n
  <2> QED
    BY <2>3, <2>4, <2>5, <2>6, <2>7, <2>8 DEF IsSplit
<1>4. CASE ~(Len(in) - last > 0)
  <2>1. result' = result /\ last = Len(in)
    BY <1>1, <1>4 DEF FinishSplit
  <2>2. in = <<>> => result = <<>>
    <3>1. ASSUME in = <<>>, result # <<>> PROVE FALSE
      <4>1. n \in 1..n /\ result[n].to \in Nat
        <5>1. result \in Seq([from : Nat, to : Nat]) /\ n # 0
          BY <3>1, EmptySeq DEF TypeOK
        <5>2. n \in 1..n
          BY <1>1, <5>1
        <5>3. result[n] \in [from : Nat, to : Nat]
          BY <5>1, <5>2, ElementOfSeq
        <5> QED
          BY <5>2, <5>3
      <4>2. result[n].to + Len(delim) <= Len(in)
        BY <1>1, <4>1 DEF Closed
      <4> QED
        BY <3>1, <4>1, <4>2
    <3> QED
      BY <3>1
  <2>3. in # <<>> => result # <<>> /\ result[n].to + Len(delim) = Len(in) /\ n \in 1..n
    BY <1>1, <2>1 DEF TypeOK
  <2>4. \A i \in 1..(n - 1) : i \in 1..n
    BY <1>1
  <2> QED
    BY <1>1, <2>1, <2>2, <2>3, <2>4 DEF IsSplit
<1> QED
  BY <1>3, <1>4

-----------------------------------------------------------------------------
LEMMA Invariance == Spec => [](TypeOK /\ LoopInv)
<1>1. Init => TypeOK /\ LoopInv
  BY TypeInit DEF Init, LoopInv
<1>2. TypeOK /\ LoopInv /\ [Next]_vars => (TypeOK /\ LoopInv)'
  BY TypeStep, LoopStep
<1> QED
  BY <1>1, <1>2, PTL DEF Spec

(* Every variable keeps its type, and the searches stay inside the line. *)
THEOREM TypeCorrect == Spec => []TypeOK
<1> QED
  BY Invariance, PTL

(* split() cuts each line at exactly the delimiters that are found from left   *)
(* to right, and loses nothing of it.                                          *)
THEOREM SplitFindsAll == Spec => SplitIsLeftToRight
<1>1. TypeOK /\ LoopInv /\ [Next]_vars
        => [pc = "split" /\ pc' # "split" => IsSplit(result')]_vars
  <2> SUFFICES ASSUME TypeOK, LoopInv, Next, pc = "split", pc' # "split"
               PROVE  IsSplit(result')
    OBVIOUS
  <2>1. FinishSplit
    BY DEF Next, Main, SplitLoop, GetLine, EndOfText, Exit, Command, ReverseLine,
           SplitLine, OtherLine, FindDelim, SkipChar, Done, vars
  <2> QED
    BY <2>1, FinishIsSplit
<1> QED
  BY <1>1, Invariance, PTL DEF Spec, SplitIsLeftToRight

-----------------------------------------------------------------------------
(* Every step leaves less to do. *)

LEMMA LessCases ==
  ASSUME NEW a, NEW b, NEW c, NEW d, NEW e, NEW f, NEW g, NEW h,
         \/ a < e
         \/ a = e /\ b < f
         \/ a = e /\ b = f /\ c < g
         \/ a = e /\ b = f /\ c = g /\ d < h
  PROVE  Less(<<a, b, c, d>>, <<e, f, g, h>>)
<1> DEFINE m == <<a, b, c, d>>
           n == <<e, f, g, h>>
<1>1. /\ m[1] = a /\ m[2] = b /\ m[3] = c /\ m[4] = d
      /\ n[1] = e /\ n[2] = f /\ n[3] = g /\ n[4] = h
  OBVIOUS
<1> HIDE DEF m, n
<1>2. \E i \in 1..4 : m[i] < n[i] /\ \A j \in 1..(i - 1) : m[j] = n[j]
  <2>1. ASSUME a < e PROVE m[1] < n[1] /\ \A j \in 1..(1 - 1) : m[j] = n[j]
    BY <1>1, <2>1
  <2>2. ASSUME a = e, b < f PROVE m[2] < n[2] /\ \A j \in 1..(2 - 1) : m[j] = n[j]
    BY <1>1, <2>2
  <2>3. ASSUME a = e, b = f, c < g
        PROVE  m[3] < n[3] /\ \A j \in 1..(3 - 1) : m[j] = n[j]
    BY <1>1, <2>3
  <2>4. ASSUME a = e, b = f, c = g, d < h
        PROVE  m[4] < n[4] /\ \A j \in 1..(4 - 1) : m[j] = n[j]
    BY <1>1, <2>4
  <2>5. 1 \in 1..4 /\ 2 \in 1..4 /\ 3 \in 1..4 /\ 4 \in 1..4
    OBVIOUS
  <2> QED
    BY <2>1, <2>2, <2>3, <2>4, <2>5
<1> QED
  BY <1>2 DEF Less, m, n

(* The tool is between two lines when all texts are read. *)
DoneInv == phase = "done" => pc = "getline"

LEMMA DoneStep == DoneInv /\ [Next]_vars => DoneInv'
<1> SUFFICES ASSUME DoneInv, [Next]_vars PROVE DoneInv'
  OBVIOUS
<1> QED
  BY DEF DoneInv, Next, Main, SplitLoop, GetLine, EndOfText, Exit, NextPhase, Command,
         ReverseLine, SplitLine, OtherLine, FindDelim, Looking, SkipChar, FinishSplit,
         Done, vars

LEMMA LeftType == TypeOK => Left \in Nat \X Nat \X Nat \X Nat
<1> SUFFICES ASSUME TypeOK
             PROVE  TextsLeft \in Nat /\ LinesLeft \in Nat /\ WorkLeft \in Nat /\ CharsLeft \in Nat
  BY DEF Left
<1>1. TextsLeft \in Nat /\ WorkLeft \in Nat
  BY DEF TextsLeft, WorkLeft
<1>2. LinesLeft \in Nat
  <2>1. CASE phase # "done"
    <3>1. Len(text[phase]) \in Nat /\ at \in Nat /\ at <= Len(text[phase])
      BY <2>1, TextFacts DEF TypeOK
    <3> QED
      BY <2>1, <3>1 DEF LinesLeft
  <2> QED
    BY <2>1 DEF LinesLeft
<1>3. CharsLeft \in Nat
  <2>1. Len(in) \in Nat
    BY TextFacts
  <2> QED
    BY <2>1 DEF CharsLeft, TypeOK, NPos
<1> QED
  BY <1>1, <1>2, <1>3

(* A search that goes on behind the current place leaves less of the line. *)
LEMMA SearchLeaves ==
  ASSUME TypeOK, pc = "split", current # NPos, NEW k \in Nat, k > current,
         current' = FindFirst(in, k), UNCHANGED <<delim, in, pc>>
  PROVE  CharsLeft' < CharsLeft
<1>1. current \in Nat /\ current < Len(in) /\ Len(in) \in Nat
  BY TextFacts DEF TypeOK, NPos
<1>2. FindFirst(in, k) \in k..(Len(in) - 1) \cup {NPos}
  BY TextFacts, FindFirstType DEF FindFirst
<1>3. CharsLeft = Len(in) - current
  BY DEF CharsLeft
<1>4. CharsLeft' = IF current' # NPos THEN Len(in) - current' ELSE 0
  BY DEF CharsLeft
<1> QED
  BY <1>1, <1>2, <1>3, <1>4 DEF NPos

LEMMA StepLeaves ==
  ASSUME TypeOK, DoneInv, Next, vars' # vars
  PROVE  Less(Left', Left)
<1> SUFFICES \/ TextsLeft' < TextsLeft
             \/ TextsLeft' = TextsLeft /\ LinesLeft' < LinesLeft
             \/ TextsLeft' = TextsLeft /\ LinesLeft' = LinesLeft /\ WorkLeft' < WorkLeft
             \/ /\ TextsLeft' = TextsLeft /\ LinesLeft' = LinesLeft /\ WorkLeft' = WorkLeft
                /\ CharsLeft' < CharsLeft
  BY LessCases DEF Left
<1>1. CASE GetLine
  <2>1. Len(text[phase]) \in Nat /\ at \in Nat
    BY <1>1, TextFacts DEF GetLine, TypeOK
  <2> QED
    BY <1>1, <2>1 DEF GetLine, TextsLeft, LinesLeft
<1>2. CASE EndOfText \/ Exit
  BY <1>2 DEF EndOfText, Exit, NextPhase, TextsLeft, DoneInv, TypeOK
<1>3. CASE ReverseLine \/ SplitLine \/ OtherLine
  BY <1>3 DEF ReverseLine, SplitLine, OtherLine, Command, TextsLeft, LinesLeft, WorkLeft
<1>4. CASE FinishSplit
  BY <1>4 DEF FinishSplit, TextsLeft, LinesLeft, WorkLeft
<1>5. CASE FindDelim
  <2>1. current \in Nat /\ Len(delim) \in Nat /\ Len(delim) > 0
    BY <1>5, TextFacts DEF FindDelim, Looking, TypeOK
  <2>2. current + Len(delim) \in Nat /\ current + Len(delim) > current
    BY <2>1
  <2>3. CharsLeft' < CharsLeft
    BY <1>5, <2>2, SearchLeaves DEF FindDelim, Looking
  <2> QED
    BY <1>5, <2>3 DEF FindDelim, TextsLeft, LinesLeft, WorkLeft
<1>6. CASE SkipChar
  <2>1. current + 1 \in Nat /\ current + 1 > current
    BY <1>6 DEF SkipChar, Looking, TypeOK
  <2>2. CharsLeft' < CharsLeft
    BY <1>6, <2>1, SearchLeaves DEF SkipChar, Looking
  <2> QED
    BY <1>6, <2>2 DEF SkipChar, TextsLeft, LinesLeft, WorkLeft
<1> QED
  BY <1>1, <1>2, <1>3, <1>4, <1>5, <1>6 DEF Next, Main, SplitLoop, Done

(* The tool comes to an end (main, split): each step leaves less to do than     *)
(* there was, in the lexicographic order of four natural numbers, whatever the *)
(* texts are and the delimiter is, as long as that is not empty.               *)
THEOREM NoLoopGoesOnForEver ==
  Spec => [](Left \in Nat \X Nat \X Nat \X Nat) /\ StepsGoOn
<1>1. Spec => []DoneInv
  <2>1. Init => DoneInv
    BY DEF Init, DoneInv
  <2> QED
    BY <2>1, DoneStep, PTL DEF Spec
<1>2. TypeOK /\ DoneInv /\ [Next]_vars => [Less(Left', Left)]_vars
  BY StepLeaves
<1> QED
  BY <1>1, <1>2, LeftType, TypeCorrect, PTL DEF Spec, StepsGoOn
=============================================================================
