--------------------------- MODULE DropboxLemmas ---------------------------
(***************************************************************************)
(* What the operators of the dropbox modules return: queues, files, lines, *)
(* fresh descriptors and stored names.  DropboxProofs rests on these.      *)
(***************************************************************************)
EXTENDS DropboxInv, SequenceTheorems, FiniteSetTheorems, WellFoundedInduction, TLAPS

(* The bounds of the model. *)
LEMMA BoundsFacts ==
  /\ Capacity \in Nat /\ Chunk \in Nat /\ Chunk > 0 /\ Chunk <= Capacity
  /\ MaxCopies \in Nat
<1>1. Capacity \in Nat
  BY DropboxStreamsAssumption DEF DropboxStreamsAssumption
<1>2. Chunk \in 1..Capacity /\ MaxCopies \in Nat
  BY DropboxFilesAssumption DEF DropboxFilesAssumption
<1> QED
  BY <1>1, <1>2

(* The least of two lengths. *)
LEMMA LesserFacts ==
  ASSUME NEW m \in Int, NEW n \in Int
  PROVE  /\ Lesser(m, n) \in {m, n}
         /\ Lesser(m, n) <= m /\ Lesser(m, n) <= n
  BY DEF Lesser

(* The head of a queue. *)
LEMMA FirstFacts ==
  ASSUME NEW S, NEW queue \in Seq(S), NEW n \in Nat
  PROVE  /\ First(queue, n) \in Seq(S)
         /\ Len(First(queue, n)) = Lesser(n, Len(queue))
         /\ \A i \in 1..Len(First(queue, n)) :
              i \in 1..Len(queue) /\ First(queue, n)[i] = queue[i]
<1> DEFINE m == Lesser(n, Len(queue))
<1>1. m \in 0..Len(queue)
  BY LesserFacts DEF Lesser
<1>2. /\ SubSeq(queue, 1, m) \in Seq(S)
      /\ Len(SubSeq(queue, 1, m)) = m
      /\ \A i \in 1..m : SubSeq(queue, 1, m)[i] = queue[i]
  <2> HIDE DEF m
  <2> QED
    BY <1>1
<1> QED
  BY <1>1, <1>2 DEF First

(* What is left of it. *)
LEMMA AllButFacts ==
  ASSUME NEW S, NEW queue \in Seq(S), NEW n \in Nat
  PROVE  /\ AllBut(queue, n) \in Seq(S)
         /\ Len(AllBut(queue, n)) = IF n <= Len(queue) THEN Len(queue) - n ELSE 0
         /\ \A i \in 1..Len(AllBut(queue, n)) :
              i + n \in 1..Len(queue) /\ AllBut(queue, n)[i] = queue[i + n]
  BY DEF AllBut

(* What a buffer holds after a write. *)
LEMMA FitFacts ==
  ASSUME NEW S, NEW queue \in Seq(S), NEW items \in Seq(S), Len(queue) <= Capacity
  PROVE  /\ Fit(queue, items) \in Seq(S)
         /\ Len(Fit(queue, items)) <= Capacity
         /\ Len(Fit(queue, items)) = Len(queue) + Lesser(Capacity - Len(queue), Len(items))
         /\ \A i \in 1..Len(Fit(queue, items)) :
              \/ i \in 1..Len(queue) /\ Fit(queue, items)[i] = queue[i]
              \/ /\ i - Len(queue) \in 1..Len(items)
                 /\ Fit(queue, items)[i] = items[i - Len(queue)]
<1> DEFINE head == First(items, Capacity - Len(queue))
<1>1. Capacity - Len(queue) \in Nat
  BY DropboxStreamsAssumption DEF DropboxStreamsAssumption
<1>2. /\ head \in Seq(S)
      /\ Len(head) = Lesser(Capacity - Len(queue), Len(items))
      /\ \A i \in 1..Len(head) : i \in 1..Len(items) /\ head[i] = items[i]
  BY <1>1, FirstFacts
<1>3. Len(head) <= Capacity - Len(queue)
  BY <1>1, <1>2 DEF Lesser
<1>4. Fit(queue, items) = queue \o head
  BY DEF Fit
<1> HIDE DEF head
<1>5. /\ queue \o head \in Seq(S)
      /\ Len(queue \o head) = Len(queue) + Len(head)
      /\ \A i \in 1..Len(queue) + Len(head) :
           (queue \o head)[i] = IF i <= Len(queue) THEN queue[i] ELSE head[i - Len(queue)]
  BY <1>2
<1>6. ASSUME NEW i \in 1..Len(queue) + Len(head)
      PROVE  \/ i \in 1..Len(queue) /\ (queue \o head)[i] = queue[i]
             \/ /\ i - Len(queue) \in 1..Len(items)
                /\ (queue \o head)[i] = items[i - Len(queue)]
  <2>1. CASE i <= Len(queue)
    BY <1>5, <2>1
  <2>2. CASE i > Len(queue)
    <3>1. i - Len(queue) \in 1..Len(head)
      BY <1>2, <2>2
    <3>2. (queue \o head)[i] = head[i - Len(queue)]
      BY <1>5, <2>2
    <3> QED
      BY <1>2, <3>1, <3>2
  <2> QED
    BY <1>2, <2>1, <2>2
<1>7. Len(queue) + Len(head) <= Capacity
  BY <1>2, <1>3, DropboxStreamsAssumption DEF DropboxStreamsAssumption
<1> QED
  BY <1>2, <1>4, <1>5, <1>6, <1>7

(* The items a write of a whole buffer adds, when there is room. *)
LEMMA FitWhole ==
  ASSUME NEW S, NEW queue \in Seq(S), NEW items \in Seq(S), Len(queue) <= Capacity,
         Len(queue) + Len(items) <= Capacity
  PROVE  Len(Fit(queue, items)) = Len(queue) + Len(items)
  BY FitFacts, DropboxStreamsAssumption DEF Lesser, DropboxStreamsAssumption

-----------------------------------------------------------------------------
(* Files *)

LEMMA NoNameIsNone == NoName \notin Names
<1> SUFFICES ASSUME <<"", 0>> \in Files \X (0..MaxCopies) PROVE FALSE
  BY DEF NoName, Names
<1>1. "" \in Files
  OBVIOUS
<1> QED
  BY <1>1, DropboxFilesAssumption DEF DropboxFilesAssumption

LEMMA NoFileFacts == NoFile \in FileInfos /\ ~InUse(NoFile)
  BY DEF NoFile, InUse, FileInfo, FileInfos

LEMMA FileInfoFacts ==
  ASSUME NEW name \in Names, NEW size \in Nat
  PROVE  /\ FileInfo(name, size) \in FileInfos
         /\ InUse(FileInfo(name, size))
         /\ FileInfo(name, size).file_name = name
         /\ FileInfo(name, size).current = 0
         /\ FileInfo(name, size).size = size
         /\ FileInfo(name, size).eof = FALSE
  BY NoNameIsNone DEF InUse, FileInfo, FileInfos

(* A FileInfo that has moved on is of the same file. *)
LEMMA MovedFacts ==
  ASSUME NEW info \in FileInfos, NEW n \in Nat
  PROVE  /\ [info EXCEPT !.current = @ + n] \in FileInfos
         /\ [info EXCEPT !.current = @ + n].file_name = info.file_name
         /\ [info EXCEPT !.current = @ + n].current = info.current + n
         /\ [info EXCEPT !.current = @ + n].size = info.size
         /\ InUse([info EXCEPT !.current = @ + n]) <=> InUse(info)
  BY DEF FileInfos, InUse

LEMMA EofFacts ==
  ASSUME NEW info \in FileInfos, NEW e \in BOOLEAN
  PROVE  [info EXCEPT !.eof = e] \in FileInfos
  BY Zenon DEF FileInfos

LEMMA MovedToEofFacts ==
  ASSUME NEW info \in FileInfos, NEW n \in Nat, NEW e \in BOOLEAN
  PROVE  /\ [info EXCEPT !.current = @ + n, !.eof = e] \in FileInfos
         /\ [info EXCEPT !.current = @ + n, !.eof = e].file_name = info.file_name
         /\ [info EXCEPT !.current = @ + n, !.eof = e].current = info.current + n
         /\ InUse([info EXCEPT !.current = @ + n, !.eof = e]) <=> InUse(info)
<1> DEFINE moved == [info EXCEPT !.current = @ + n]
<1>1. moved \in FileInfos
  BY MovedFacts
<1>2. [moved EXCEPT !.eof = e] \in FileInfos
  <2> HIDE DEF moved
  <2> QED
    BY <1>1, EofFacts
<1>3. [info EXCEPT !.current = @ + n, !.eof = e] = [moved EXCEPT !.eof = e]
  BY SMT DEF FileInfos
<1>4. /\ [info EXCEPT !.current = @ + n, !.eof = e].file_name = info.file_name
      /\ [info EXCEPT !.current = @ + n, !.eof = e].current = info.current + n
  BY DEF FileInfos
<1> QED
  BY <1>2, <1>3, <1>4 DEF InUse

LEMMA InUseFacts ==
  ASSUME NEW info \in FileInfos
  PROVE  /\ InUse(info) <=> info.file_name \in Names
         /\ info.current \in Nat /\ info.size \in Nat /\ info.eof \in BOOLEAN
  BY NoNameIsNone DEF FileInfos, InUse

(* What is read of a file. *)
LEMMA NextUnitsFacts ==
  ASSUME NEW file \in Seq(Units), NEW info \in FileInfos
  PROVE  /\ NextUnits(file, info) \in Seq(Units)
         /\ Len(NextUnits(file, info)) \in 0..Chunk
         /\ AfterRead(info, NextUnits(file, info)) \in FileInfos
         /\ AfterRead(info, NextUnits(file, info)).file_name = info.file_name
         /\ AfterRead(info, NextUnits(file, info)).current
              = info.current + Len(NextUnits(file, info))
         /\ InUse(AfterRead(info, NextUnits(file, info))) <=> InUse(info)
<1>1. Chunk \in Nat
  BY BoundsFacts
<1>2. info.current \in Nat
  BY DEF FileInfos
<1>3. AllBut(file, info.current) \in Seq(Units)
  BY <1>2, AllButFacts
<1>4. /\ NextUnits(file, info) \in Seq(Units)
      /\ Len(NextUnits(file, info)) = Lesser(Chunk, Len(AllBut(file, info.current)))
  BY <1>1, <1>3, FirstFacts DEF NextUnits
<1>5. Len(NextUnits(file, info)) \in 0..Chunk
  BY <1>1, <1>3, <1>4, LesserFacts
<1> DEFINE n == Len(NextUnits(file, info))
<1>6. AfterRead(info, NextUnits(file, info)) = [info EXCEPT !.current = @ + n, !.eof = n < Chunk]
  BY DEF AfterRead
<1>7. n \in Nat /\ (n < Chunk) \in BOOLEAN
  BY <1>5
<1> DEFINE e == n < Chunk
           after == [info EXCEPT !.current = @ + n, !.eof = e]
<1>8. e \in BOOLEAN
  OBVIOUS
<1>9. /\ after \in FileInfos
      /\ after.file_name = info.file_name
      /\ after.current = info.current + n
      /\ InUse(after) <=> InUse(info)
  <2> HIDE DEF n, e
  <2> QED
    BY <1>7, <1>8, MovedToEofFacts
<1> HIDE DEF after
<1> QED
  BY <1>4, <1>5, <1>6, <1>9 DEF after

LEMMA HoleIsUnit == Hole \in Units
  BY DEF Units

LEMMA WriteAtFacts ==
  ASSUME NEW file \in Seq(Units), NEW position \in Nat, NEW items \in Seq(Units)
  PROVE  WriteAt(file, position, items) \in Seq(Units)
<1> DEFINE last == position + Len(items)
           size == IF Len(file) > last THEN Len(file) ELSE last
           unit(i) == IF i > position /\ i <= last THEN items[i - position]
                      ELSE IF i <= Len(file) THEN file[i] ELSE Hole
<1>1. size \in Nat
  OBVIOUS
<1>2. \A i \in 1..size : unit(i) \in Units
  BY HoleIsUnit
<1>3. WriteAt(file, position, items) = [i \in 1..size |-> unit(i)]
  BY DEF WriteAt
<1> HIDE DEF size, unit
<1>4. [i \in 1..size |-> unit(i)] \in Seq(Units)
  BY <1>1, <1>2
<1> QED
  BY <1>3, <1>4

-----------------------------------------------------------------------------
(* Lines *)

LEMMA UnitFacts ==
  ASSUME NEW x \in Units
  PROVE  x.type = "data"
<1>1. CASE x \in [type : {"data"}, of : Files \X Procs, at : Nat \ {0}]
  BY <1>1
<1>2. CASE x = Hole
  BY <1>2 DEF Hole, Unit
<1> QED
  BY <1>1, <1>2 DEF Units

LEMMA RequestFacts ==
  ASSUME NEW x \in Requests \cup Units
  PROVE  /\ x.type \in {"name", "put", "get", "sleep", "exit", "data"}
         /\ x.type = "name" => x \in [type : {"name"}, user : Users]
         /\ x.type = "put" => x.file \in Names /\ x.size \in Nat /\ x.user \in Users
         /\ x.type = "get" => x.file \in Names
         /\ x.type = "data" => x \in Units
<1>1. CASE x \in Units
  BY <1>1, UnitFacts
<1>2. CASE x \in [type : {"name"}, user : Users]
  BY <1>2
<1>3. CASE x \in [type : {"put"}, file : Names, size : Nat, user : Users]
  BY <1>3
<1>4. CASE x \in [type : {"get"}, file : Names]
  BY <1>4
<1>5. CASE x \in [type : {"sleep", "exit"}]
  BY <1>5
<1> QED
  BY <1>1, <1>2, <1>3, <1>4, <1>5 DEF Requests

LEMMA NoticeFacts ==
  ASSUME NEW x \in Notices \cup Units
  PROVE  /\ x.type \in {"put", "welcome", "data"}
         /\ x.type = "put" => x.file \in Names /\ x.size \in Nat /\ x.user \in Owners
         /\ x.type = "data" => x \in Units
<1>1. CASE x \in Units
  BY <1>1, UnitFacts
<1>2. CASE x \in [type : {"put"}, file : Names, size : Nat, user : Owners]
  BY <1>2
<1>3. CASE x \in [type : {"welcome"}]
  BY <1>3
<1> QED
  BY <1>1, <1>2, <1>3 DEF Notices

LEMMA LineFacts ==
  /\ \A u \in Users : [type |-> "name", user |-> u] \in Requests
  /\ \A n \in Names, s \in Nat, u \in Users : PutLine(n, s, u) \in Requests
  /\ \A n \in Names : [type |-> "get", file |-> n] \in Requests
  /\ [type |-> "sleep"] \in Requests /\ [type |-> "exit"] \in Requests
  /\ \A n \in Names, s \in Nat, u \in Owners : PutLine(n, s, u) \in Notices
  /\ [type |-> "welcome"] \in Notices
  BY DEF Requests, Notices, PutLine

-----------------------------------------------------------------------------
(* Least elements *)

(* A set of natural numbers that is not empty has a least element. *)
LEMMA LeastExists ==
  ASSUME NEW T \in SUBSET Nat, T # {}
  PROVE  \E x \in T : \A y \in T : x <= y
<1> DEFINE Below == {ss \in Nat \X Nat : ss[1] < ss[2]}
<1>1. IsWellFoundedOn(Below, Nat)
  BY NatLessThanWellFounded DEF OpToRel
<1>2. \E x \in T : \A y \in T : <<y, x>> \notin Below
  <2> HIDE DEF Below
  <2> QED
    BY <1>1, WFMin, Zenon
<1>3. PICK x \in T : \A y \in T : <<y, x>> \notin Below
  BY <1>2
<1>4. ASSUME NEW y \in T PROVE x <= y
  <2>1. <<y, x>> \notin Below
    BY <1>3
  <2>2. y \in Nat /\ x \in Nat
    OBVIOUS
  <2>3. ~(y < x)
    BY <2>1, <2>2
  <2> QED
    BY <2>2, <2>3
<1> QED
  BY <1>4

(* A new connection gets a descriptor that no end uses. *)
LEMMA FreshIsUsable ==
  ASSUME Usable # {}
  PROVE  Fresh \in Usable
<1>1. Usable \in SUBSET Nat
  BY DropboxStreamsAssumption DEF DropboxStreamsAssumption, Usable
<1>2. \E c \in Usable : \A d \in Usable : c <= d
  BY <1>1, LeastExists
<1> QED
  BY <1>2 DEF Fresh

(* The server stores a file under a name of it that the user has not. *)
LEMMA StoredNameIsNew ==
  ASSUME NEW user, NEW f \in Files, HasName(user, f)
  PROVE  StoredName(user, f) \in Names /\ StoredName(user, f) \notin client_files[user]
<1> DEFINE free == {k \in 0..MaxCopies : <<f, k>> \notin client_files[user]}
           least == CHOOSE k \in free : \A j \in free : k <= j
<1>1. free \in SUBSET Nat /\ free # {}
  BY BoundsFacts DEF HasName
<1>2. \E k \in free : \A j \in free : k <= j
  <2> HIDE DEF free
  <2> QED
    BY <1>1, LeastExists
<1>3. least \in free
  <2> HIDE DEF free
  <2> QED
    BY <1>2
<1>4. StoredName(user, f) = <<f, least>>
  BY DEF StoredName
<1>5. least \in 0..MaxCopies /\ <<f, least>> \notin client_files[user]
  <2> HIDE DEF least
  <2> QED
    BY <1>3
<1> HIDE DEF least
<1>6. <<f, least>> \in Names
  BY <1>5 DEF Names
<1> QED
  BY <1>4, <1>5, <1>6

-----------------------------------------------------------------------------
(* Handlers *)

(* What handle_client makes of the items it read: the first of them, except    *)
(* that a name may have grown or be no name any more.                          *)
LEMMA CommandFacts ==
  ASSUME StreamsTypeOK, NEW c \in Conns, NEW n \in 1..Len(toServer[c])
  PROVE  /\ toServer[c][1] \in Requests \cup Units
         /\ CommandOf(c, n).type \in {"put", "get", "sleep", "exit"} =>
              CommandOf(c, n) = toServer[c][1]
         /\ CommandOf(c, n).type = "name" =>
              toServer[c][1].type = "name" /\ CommandOf(c, n).user \in Owners
         /\ CommandOf(c, n).type = "none" => toServer[c][1].type = "name"
<1> DEFINE items == First(toServer[c], n)
           head == toServer[c][1]
<1>1. toServer[c] \in Seq(Requests \cup Units)
  BY DEF StreamsTypeOK
<1>2. head \in Requests \cup Units
  BY <1>1
<1>3. Len(items) = n /\ items[1] = head
  <2>1. n \in Nat /\ Len(items) = Lesser(n, Len(toServer[c]))
    BY <1>1, FirstFacts
  <2>2. Len(items) = n
    BY <1>1, <2>1 DEF Lesser
  <2> QED
    BY <1>1, <2>2, FirstFacts
<1> DEFINE command == CommandOf(c, n)
           two == items[2]
<1>4. command =
        CASE head.type = "name" /\ Len(items) = 2 /\ two.type = "exit" ->
               [head EXCEPT !.user = Garbled]
          [] head.type = "name" /\ Len(items) > 1 /\ two.type # "exit" -> [type |-> "none"]
          [] OTHER -> head
  BY <1>3 DEF CommandOf, Command
<1> HIDE DEF items, command, two
<1>5. CASE head.type = "name"
  <2>1. head \in [type : {"name"}, user : Users]
    BY <1>2, <1>5, RequestFacts
  <2> HIDE DEF head
  <2>2. /\ [head EXCEPT !.user = Garbled].type = "name"
        /\ [head EXCEPT !.user = Garbled].user = Garbled
        /\ head.type = "name" /\ head.user \in Users
    BY <2>1
  <2>3. command \in {[head EXCEPT !.user = Garbled], [type |-> "none"], head}
    BY <1>3, <1>4
  <2>4. /\ command.type \in {"name", "none"}
        /\ command.type = "name" => command.user \in Owners
    <3>1. CASE command = [head EXCEPT !.user = Garbled]
      BY <2>2, <3>1 DEF Owners
    <3>2. CASE command = [type |-> "none"]
      BY <3>2
    <3>3. CASE command = head
      BY <2>2, <3>3 DEF Owners
    <3> QED
      BY <2>3, <3>1, <3>2, <3>3
  <2> QED
    BY <1>2, <2>2, <2>4 DEF command, head
<1>6. CASE head.type # "name"
  <2>1. command = head
    BY <1>4, <1>6
  <2>2. head.type # "none"
    BY <1>2, RequestFacts
  <2> QED
    BY <1>2, <1>6, <2>1, <2>2 DEF command
<1> QED
  BY <1>5, <1>6

(* The notifications of sync_new_connection. *)
LEMMA CatalogueFacts ==
  ASSUME ServerTypeOK, NEW user \in Owners
  PROVE  /\ Catalogue(user) \in Seq(Notices)
         /\ \A i \in 1..Len(Catalogue(user)) :
              /\ Catalogue(user)[i].file \in client_files[user]
              /\ Catalogue(user)[i].size = Len(folder[Catalogue(user)[i].file])
<1> DEFINE S == client_files[user]
           names == SetToSeq(S)
<1>1. S \subseteq Names
  BY DEF ServerTypeOK
<1>2. IsFiniteSet(S)
  <2>1. IsFiniteSet(Files) /\ MaxCopies \in Nat
    BY DropboxFilesAssumption DEF DropboxFilesAssumption
  <2>2. IsFiniteSet(0..MaxCopies)
    BY <2>1, FS_Interval
  <2>3. IsFiniteSet(Names)
    BY <2>1, <2>2, FS_Product DEF Names
  <2> QED
    BY <1>1, <2>3, FS_Subset
<1> DEFINE k == Cardinality(S)
<1>3. k \in Nat /\ ExistsBijection(1..k, S)
  BY <1>2, FS_CardinalityType
<1>4. \E f \in [1..k -> S] : IsInjective(f)
  BY <1>3 DEF ExistsBijection, Bijection, Injection, IsInjective
<1>5. names \in [1..k -> S]
  BY <1>4 DEF SetToSeq
<1> HIDE DEF names, k
<1>6. DOMAIN names = 1..k /\ \A i \in 1..k : names[i] \in Names
  BY <1>1, <1>5
<1>7. \A i \in 1..k : PutLine(names[i], Len(folder[names[i]]), user) \in Notices
  <2>1. folder \in [Names -> Seq(Units)]
    BY DEF ServerTypeOK
  <2>2. \A m \in Names : Len(folder[m]) \in Nat
    BY <2>1
  <2> QED
    BY <1>6, <2>2, LineFacts
<1> DEFINE line(i) == PutLine(names[i], Len(folder[names[i]]), user)
<1>8. Catalogue(user) = [i \in 1..k |-> line(i)]
  BY <1>6 DEF Catalogue, names
<1>9. \A i \in 1..k : line(i).file \in S
  BY <1>5 DEF PutLine
<1>12. \A i \in 1..k : line(i).size = Len(folder[line(i).file])
  BY DEF PutLine
<1> HIDE DEF line
<1>10. [i \in 1..k |-> line(i)] \in Seq(Notices)
  BY <1>3, <1>7 DEF line, k
<1>11. Len(Catalogue(user)) = k
  BY <1>3, <1>8, <1>10 DEF k
<1> QED
  BY <1>8, <1>9, <1>10, <1>11, <1>12

(* What a write does to the streams. *)
LEMMA WriteFacts ==
  ASSUME StreamsTypeOK, NEW S \in SUBSET Conns, NEW items \in Seq(Notices \cup Units),
         NEW again, Write(S, items, again)
  PROVE  /\ toClient' \in [Conns -> Seq(Notices \cup Units)]
         /\ \A c \in Conns : Len(toClient'[c]) <= Capacity
         /\ \A c \in Conns : c \notin S \/ far[c] # "open" => toClient'[c] = toClient[c]
         /\ \A c \in Conns : \A i \in 1..Len(toClient'[c]) :
              \/ i \in 1..Len(toClient[c]) /\ toClient'[c][i] = toClient[c][i]
              \/ \E j \in 1..Len(items) : toClient'[c][i] = items[j]
         /\ far' \in [Conns -> {"closed", "open", "reset"}]
         /\ \A c \in Conns : far'[c] = "open" <=> far[c] = "open"
         /\ alive' \in BOOLEAN
<1>1. /\ toClient \in [Conns -> Seq(Notices \cup Units)]
      /\ \A c \in Conns : Len(toClient[c]) <= Capacity
      /\ far \in [Conns -> {"closed", "open", "reset"}]
  BY DEF StreamsTypeOK
<1>2. \A c \in Conns :
        /\ Fit(toClient[c], items) \in Seq(Notices \cup Units)
        /\ Len(Fit(toClient[c], items)) <= Capacity
        /\ \A i \in 1..Len(Fit(toClient[c], items)) :
              \/ i \in 1..Len(toClient[c]) /\ Fit(toClient[c], items)[i] = toClient[c][i]
              \/ \E j \in 1..Len(items) : Fit(toClient[c], items)[i] = items[j]
  <2>1. SUFFICES ASSUME NEW c \in Conns
        PROVE  /\ Fit(toClient[c], items) \in Seq(Notices \cup Units)
               /\ Len(Fit(toClient[c], items)) <= Capacity
               /\ \A i \in 1..Len(Fit(toClient[c], items)) :
                     \/ i \in 1..Len(toClient[c]) /\ Fit(toClient[c], items)[i] = toClient[c][i]
                     \/ \E j \in 1..Len(items) : Fit(toClient[c], items)[i] = items[j]
    OBVIOUS
  <2>2. toClient[c] \in Seq(Notices \cup Units) /\ Len(toClient[c]) <= Capacity
    BY <1>1
  <2> QED
    BY <2>2, FitFacts, Zenon
<1>3. toClient' = [c \in Conns |-> IF c \in S /\ far[c] = "open"
                                   THEN Fit(toClient[c], items) ELSE toClient[c]]
  BY DEF Write
<1>4. PICK R \in SUBSET {c \in S : far[c] = "closed"} :
        far' = [c \in Conns |-> IF c \in R THEN "reset" ELSE far[c]]
  BY DEF Write
<1>5. /\ far' \in [Conns -> {"closed", "open", "reset"}]
      /\ \A c \in Conns : far'[c] = "open" <=> far[c] = "open"
  BY <1>1, <1>4
<1>6. alive' \in BOOLEAN
  BY DEF Write
<1> QED
  BY <1>1, <1>2, <1>3, <1>5, <1>6
=============================================================================
