-------------------------- MODULE DropboxFlowProofs --------------------------
(***************************************************************************)
(* What is in the files of the dropbox, and what is under way to them,     *)
(* when the server reads each request before the first data (~Slow) and no *)
(* two users have a file name in common (Apart): the proof that FlowInv is *)
(* inductive, and what follows from it.                                    *)
(***************************************************************************)
EXTENDS DropboxPacedProofs

LEMMA NameFacts ==
  ASSUME NEW n \in Names
  PROVE  n[1] \in Files /\ n[2] \in 0..MaxCopies /\ n = <<n[1], n[2]>>
  BY DEF Names

LEMMA FileHasName ==
  ASSUME NEW f \in Files
  PROVE  <<f, 0>> \in Names /\ <<f, 0>>[1] = f /\ <<f, 0>>[2] = 0
  BY BoundsFacts DEF Names

LEMMA SizeFacts == \A f \in Files : SizeOf[f] \in Nat
  BY DropboxClientAssumption DEF DropboxClientAssumption

LEMMA ContentItems ==
  ASSUME NEW f \in Files, NEW p \in Procs
  PROVE  /\ Content(f, p) \in Seq(Units) /\ Len(Content(f, p)) = SizeOf[f]
         /\ \A i \in 1..SizeOf[f] : Content(f, p)[i] = Unit(f, p, i)
<1>1. Content(f, p) \in Seq(Units)
  BY ContentFacts
<1>2. Content(f, p) = [i \in 1..SizeOf[f] |-> Unit(f, p, i)]
  BY DEF Content
<1>3. SizeOf[f] \in Nat
  BY SizeFacts
<1> HIDE DEF Content
<1>4. DOMAIN Content(f, p) = 1..SizeOf[f]
  BY <1>2
<1>5. Len(Content(f, p)) = SizeOf[f]
  BY <1>1, <1>3, <1>4
<1> QED
  BY <1>1, <1>2, <1>5

(* A unit tells whose file it is of. *)
LEMMA UnitsDiffer ==
  ASSUME NEW f, NEW p, NEW q, NEW i, NEW j, Unit(f, p, i) = Unit(f, q, j)
  PROVE  p = q
<1>1. Unit(f, p, i).of = <<f, p>> /\ Unit(f, q, j).of = <<f, q>>
  BY DEF Unit
<1>2. <<f, p>> = <<f, q>>
  BY <1>1
<1> QED
  BY <1>2

(* A whole file is the file. *)
LEMMA WholeIsContent ==
  ASSUME NEW f \in Files, NEW p \in Procs, NEW file \in Seq(Units),
         Follow(file, f, p, 0), Len(file) = SizeOf[f]
  PROVE  file = Content(f, p)
<1>1. /\ Content(f, p) \in Seq(Units) /\ Len(Content(f, p)) = SizeOf[f]
      /\ \A i \in 1..SizeOf[f] : Content(f, p)[i] = Unit(f, p, i)
  BY ContentItems
<1>2. \A i \in 1..SizeOf[f] : file[i] = Unit(f, p, i)
  <2> SUFFICES ASSUME NEW i \in 1..SizeOf[f] PROVE file[i] = Unit(f, p, i)
    OBVIOUS
  <2>1. file[i] = Unit(f, p, 0 + i)
    BY DEF Follow
  <2>2. SizeOf[f] \in Nat
    BY SizeFacts
  <2> QED
    BY <2>1, <2>2
<1>3. \A i \in 1..Len(file) : file[i] = Content(f, p)[i]
  BY <1>1, <1>2
<1> HIDE DEF Content
<1> QED
  BY <1>1, <1>3

(* What comes next is written at the end of a file. *)
LEMMA AppendFacts ==
  ASSUME NEW file \in Seq(Units), NEW queue \in Seq(Units), NEW n \in 0..Len(queue)
  PROVE  LET more == WriteAt(file, Len(file), First(queue, n)) IN
         /\ more \in Seq(Units) /\ Len(more) = Len(file) + n
         /\ \A i \in 1..Len(file) : more[i] = file[i]
         /\ \A i \in 1..n : more[Len(file) + i] = queue[i]
<1> DEFINE items == First(queue, n)
           last == Len(file) + Len(items)
           size == IF Len(file) > last THEN Len(file) ELSE last
           unit(i) == IF i > Len(file) /\ i <= last THEN items[i - Len(file)]
                      ELSE IF i <= Len(file) THEN file[i] ELSE Hole
           more == WriteAt(file, Len(file), items)
<1>1. n \in Nat /\ Len(file) \in Nat
  OBVIOUS
<1>2. /\ items \in Seq(Units) /\ Len(items) = n
      /\ \A i \in 1..n : items[i] = queue[i]
  <2>1. /\ items \in Seq(Units)
        /\ Len(items) = Lesser(n, Len(queue))
        /\ \A i \in 1..Len(items) : items[i] = queue[i]
    BY <1>1, FirstFacts
  <2>2. Lesser(n, Len(queue)) = n
    BY DEF Lesser
  <2> QED
    BY <2>1, <2>2
<1>3. more \in Seq(Units)
  BY <1>1, <1>2, WriteAtFacts
<1>4. more = [i \in 1..size |-> unit(i)]
  BY DEF WriteAt
<1> HIDE DEF items
<1>5. size = Len(file) + n /\ size \in Nat
  BY <1>1, <1>2
<1>6. /\ \A i \in 1..Len(file) : i \in 1..Len(file) + n /\ unit(i) = file[i]
      /\ \A i \in 1..n : Len(file) + i \in 1..Len(file) + n /\ unit(Len(file) + i) = queue[i]
  BY <1>1, <1>2
<1> HIDE DEF unit, more, size
<1>7. DOMAIN more = 1..size /\ \A i \in 1..size : more[i] = unit(i)
  BY <1>4
<1>8. Len(more) = size
  BY <1>3, <1>5, <1>7
<1> QED
  BY <1>3, <1>5, <1>6, <1>7, <1>8 DEF more, items

(* One beginning of a file grows by what comes next of it. *)
LEMMA FollowMore ==
  ASSUME NEW f \in Files, NEW p \in Procs, NEW file \in Seq(Units), NEW queue \in Seq(Units),
         NEW n \in 0..Len(queue), Follow(file, f, p, 0), Follow(queue, f, p, Len(file))
  PROVE  Follow(WriteAt(file, Len(file), First(queue, n)), f, p, 0)
<1> DEFINE more == WriteAt(file, Len(file), First(queue, n))
<1>1. /\ more \in Seq(Units) /\ Len(more) = Len(file) + n
      /\ \A i \in 1..Len(file) : more[i] = file[i]
      /\ \A i \in 1..n : more[Len(file) + i] = queue[i]
  BY AppendFacts
<1> HIDE DEF more
<1>2. n \in Nat /\ Len(file) \in Nat /\ Len(queue) \in Nat /\ n <= Len(queue)
  OBVIOUS
<1>3. SizeOf[f] \in Nat
  BY SizeFacts
<1>4. 0 + Len(more) <= SizeOf[f]
  BY <1>1, <1>2, <1>3 DEF Follow
<1>5. ASSUME NEW i \in 1..Len(more) PROVE more[i] = Unit(f, p, 0 + i)
  <2>1. CASE i <= Len(file)
    BY <1>1, <1>2, <2>1 DEF Follow
  <2>2. CASE i > Len(file)
    <3>1. i - Len(file) \in 1..n /\ i - Len(file) \in 1..Len(queue)
      BY <1>1, <1>2, <2>2
    <3>2. more[i] = queue[i - Len(file)]
      <4>1. Len(file) + (i - Len(file)) = i
        BY <1>2
      <4> QED
        BY <1>1, <3>1, <4>1
    <3>3. queue[i - Len(file)] = Unit(f, p, Len(file) + (i - Len(file)))
      BY <3>1 DEF Follow
    <3>4. Len(file) + (i - Len(file)) = 0 + i
      BY <1>2
    <3> QED
      BY <3>2, <3>3, <3>4
  <2> QED
    BY <1>2, <2>1, <2>2
<1> QED
  BY <1>4, <1>5 DEF Follow, more

(* What is left of a queue goes on where the file ends now. *)
LEMMA FollowRest ==
  ASSUME NEW f \in Files, NEW p \in Procs, NEW S, NEW queue \in Seq(S), NEW rest \in Seq(S),
         NEW from \in Nat, NEW n \in 0..Len(queue), Follow(queue, f, p, from),
         Len(rest) <= Len(queue) - n,
         \A i \in 1..Len(rest) : rest[i] = queue[i + n]
  PROVE  Follow(rest, f, p, from + n)
<1>1. n \in Nat /\ Len(queue) \in Nat /\ Len(rest) \in Nat /\ SizeOf[f] \in Nat
  BY SizeFacts
<1>2. from + n + Len(rest) <= SizeOf[f]
  BY <1>1 DEF Follow
<1>3. ASSUME NEW i \in 1..Len(rest) PROVE rest[i] = Unit(f, p, from + n + i)
  <2>1. i + n \in 1..Len(queue) /\ from + (i + n) = from + n + i
    BY <1>1
  <2>2. queue[i + n] = Unit(f, p, from + (i + n))
    BY <2>1 DEF Follow
  <2> QED
    BY <2>1, <2>2
<1> QED
  BY <1>2, <1>3 DEF Follow

(* The same for a file that is copied. *)
LEMMA PartMore ==
  ASSUME NEW whole \in Seq(Units), NEW file \in Seq(Units), NEW queue \in Seq(Units),
         NEW n \in 0..Len(queue), Part(file, whole, 0), Part(queue, whole, Len(file))
  PROVE  Part(WriteAt(file, Len(file), First(queue, n)), whole, 0)
<1> DEFINE more == WriteAt(file, Len(file), First(queue, n))
<1>1. /\ more \in Seq(Units) /\ Len(more) = Len(file) + n
      /\ \A i \in 1..Len(file) : more[i] = file[i]
      /\ \A i \in 1..n : more[Len(file) + i] = queue[i]
  BY AppendFacts
<1> HIDE DEF more
<1>2. /\ n \in Nat /\ Len(file) \in Nat /\ Len(queue) \in Nat /\ n <= Len(queue)
      /\ Len(whole) \in Nat
  OBVIOUS
<1>3. 0 + Len(more) <= Len(whole)
  BY <1>1, <1>2 DEF Part
<1>4. ASSUME NEW i \in 1..Len(more) PROVE more[i] = whole[0 + i]
  <2>1. CASE i <= Len(file)
    BY <1>1, <1>2, <2>1 DEF Part
  <2>2. CASE i > Len(file)
    <3>1. i - Len(file) \in 1..n /\ i - Len(file) \in 1..Len(queue)
      BY <1>1, <1>2, <2>2
    <3>2. Len(file) + (i - Len(file)) = i /\ 0 + i = i
      BY <1>2
    <3>3. more[i] = queue[i - Len(file)]
      BY <1>1, <3>1, <3>2
    <3>4. queue[i - Len(file)] = whole[Len(file) + (i - Len(file))]
      BY <3>1 DEF Part
    <3> QED
      BY <3>2, <3>3, <3>4
  <2> QED
    BY <1>2, <2>1, <2>2
<1> QED
  BY <1>3, <1>4 DEF Part, more

LEMMA PartRest ==
  ASSUME NEW whole \in Seq(Units), NEW S, NEW queue \in Seq(S), NEW rest \in Seq(S),
         NEW from \in Nat, NEW n \in 0..Len(queue), Part(queue, whole, from),
         Len(rest) <= Len(queue) - n,
         \A i \in 1..Len(rest) : rest[i] = queue[i + n]
  PROVE  Part(rest, whole, from + n)
<1>1. n \in Nat /\ Len(queue) \in Nat /\ Len(rest) \in Nat /\ Len(whole) \in Nat
  OBVIOUS
<1>2. from + n + Len(rest) <= Len(whole)
  BY <1>1 DEF Part
<1>3. ASSUME NEW i \in 1..Len(rest) PROVE rest[i] = whole[from + n + i]
  <2>1. i + n \in 1..Len(queue) /\ from + (i + n) = from + n + i
    BY <1>1
  <2>2. queue[i + n] = whole[from + (i + n)]
    BY <2>1 DEF Part
  <2> QED
    BY <2>1, <2>2
<1> QED
  BY <1>2, <1>3 DEF Part

(* A part of a file is a part of it when it has grown. *)
Grown(file, more) ==
  /\ Len(file) <= Len(more)
  /\ \A i \in 1..Len(file) : more[i] = file[i]

LEMMA PartOfGrown ==
  ASSUME NEW file \in Seq(Units), NEW more \in Seq(Units), Grown(file, more),
         NEW S, NEW units \in Seq(S), NEW from \in Nat, Part(units, file, from)
  PROVE  Part(units, more, from)
<1>1. Len(file) \in Nat /\ Len(more) \in Nat /\ Len(units) \in Nat
  OBVIOUS
<1>2. from + Len(units) <= Len(more)
  BY <1>1 DEF Part, Grown
<1>3. ASSUME NEW i \in 1..Len(units) PROVE units[i] = more[from + i]
  <2>1. from + i \in 1..Len(file)
    BY <1>1 DEF Part
  <2> QED
    BY <2>1 DEF Part, Grown
<1> QED
  BY <1>2, <1>3 DEF Part

-----------------------------------------------------------------------------
(* What leaves the parts of the invariant as they are. *)

(* The files that the server has stored for the users only grow. *)
FolderGrows ==
  \A n \in Stored : n \in Stored' /\ Grown(folder[n], folder'[n])

KeptStays == \A p \in Procs, f \in Files : Kept(p, f) => Kept(p, f)'

(* Nothing is done to files that are not downloaded, and no known name is      *)
(* downloaded again.                                                           *)
Keeps ==
  \A p \in Procs :
    /\ local_files[p] \subseteq local_files'[p]
    /\ \A n \in local_files[p] :
         (\A c \in Conns : owner[c] = p => downloading[c].file_name # n)
           => disk'[p][n] = disk[p][n]
    /\ \A c \in Conns : owner'[c] = p =>
         \/ owner[c] = p /\ downloading'[c].file_name = downloading[c].file_name
         \/ downloading'[c].file_name \notin local_files[p]

LEMMA KeptFiles ==
  ASSUME Keeps
  PROVE  KeptStays
  BY DEF Keeps, KeptStays, Kept

LEMMA KeptSame ==
  ASSUME UNCHANGED clientVars
  PROVE  KeptStays
  BY DEF KeptStays, Kept, clientVars

LEMMA StoredFacts ==
  ASSUME Inv
  PROVE  Stored \subseteq Names
<1>1. client_files \in [Owners -> SUBSET Names]
  BY DEF Inv, TypeOK, ServerTypeOK
<1>2. \A u \in Owners : client_files[u] \subseteq Names
  BY <1>1
<1> QED
  BY <1>2 DEF Stored

LEMMA GrownSame ==
  ASSUME folder' = folder, Stored' = Stored,
         folder \in [Names -> Seq(Units)], Stored \subseteq Names
  PROVE  FolderGrows
<1> SUFFICES ASSUME NEW n \in Stored PROVE Grown(folder[n], folder'[n])
  BY DEF FolderGrows
<1>1. Len(folder[n]) \in Nat
  OBVIOUS
<1> QED
  BY <1>1 DEF Grown

LEMMA FolderStays ==
  ASSUME NEW n \in Names, FolderOK(n), folder'[n] = folder[n], KeptStays
  PROVE  FolderOK(n)'
  BY NameFacts DEF FolderOK, KeptStays

LEMMA AskedStays ==
  ASSUME NEW c, AskedOK(c),
         \A i \in 1..Len(toServer'[c]) :
           \/ \E j \in 1..Len(toServer[c]) : toServer'[c][i] = toServer[c][j]
           \/ toServer'[c][i].type \notin {"put", "get"},
         ~InUse(uploading'[c]) \/ uploading'[c].file_name = uploading[c].file_name,
         \/ ~InUse(downloading'[c])
         \/ downloading'[c] = downloading[c] /\ toClient'[c] = toClient[c]
         \/ \A j \in 1..Len(toServer[c]) : toServer[c][j].type # "get"
  PROVE  AskedOK(c)'
<1> SUFFICES
      ASSUME NEW i \in 1..Len(toServer'[c]), NEW j \in 1..Len(toServer[c]),
             toServer'[c][i] = toServer[c][j]
      PROVE  LET line == toServer'[c][i] IN
             /\ line.type = "put" =>
                  /\ line.size = SizeOf[line.file[1]]
                  /\ \E p \in Procs : line.user = UserOf[p]
                  /\ InUse(uploading'[c]) => uploading'[c].file_name = <<line.file[1], 0>>
             /\ line.type = "get" /\ InUse(downloading'[c]) =>
                  /\ downloading'[c].file_name = line.file /\ downloading'[c].current = 0
                  /\ toClient'[c] = <<>>
  BY DEF AskedOK
<1> DEFINE line == toServer[c][j]
<1>1. /\ line.type = "put" =>
           /\ line.size = SizeOf[line.file[1]]
           /\ \E p \in Procs : line.user = UserOf[p]
           /\ InUse(uploading[c]) => uploading[c].file_name = <<line.file[1], 0>>
      /\ line.type = "get" /\ InUse(downloading[c]) =>
           /\ downloading[c].file_name = line.file /\ downloading[c].current = 0
           /\ toClient[c] = <<>>
  BY DEF AskedOK
<1>2. InUse(uploading'[c]) =>
        InUse(uploading[c]) /\ uploading'[c].file_name = uploading[c].file_name
  BY DEF InUse
<1> HIDE DEF line
<1>3. line.type = "get" /\ InUse(downloading'[c]) =>
        downloading'[c] = downloading[c] /\ toClient'[c] = toClient[c]
  BY DEF line
<1> QED
  BY <1>1, <1>2, <1>3 DEF line

LEMMA UploadStays ==
  ASSUME Inv, KeptStays, NEW c \in Conns, UploadOK(c),
         \/ ~InUse(uploading'[c])
         \/ /\ uploading'[c].file_name = uploading[c].file_name
            /\ uploading'[c].size = uploading[c].size
            /\ owner'[c] = owner[c]
  PROVE  UploadOK(c)'
<1> SUFFICES ASSUME InUse(uploading'[c]) PROVE UploadOK(c)'
  BY DEF UploadOK
<1>1. InUse(uploading[c])
  BY DEF InUse
<1>2. owner[c] \in Procs
  BY <1>1, OwnerFacts
<1>3. uploading[c].file_name[1] \in Files
  <2>1. uploading[c].file_name \in Names
    BY <1>1, InUseFacts DEF Inv, TypeOK, ClientTypeOK
  <2> QED
    BY <2>1, NameFacts
<1> QED
  BY <1>1, <1>2, <1>3 DEF UploadOK, KeptStays

LEMMA ReceiveStays ==
  ASSUME Inv, KeptStays, NEW c \in Conns, ReceiveOK(c),
         \/ ~InUse(receiving'[c])
         \/ /\ receiving'[c] = receiving[c] /\ toServer'[c] = toServer[c]
            /\ folder'[receiving[c].file_name] = folder[receiving[c].file_name],
         \/ ~InUse(uploading'[c])
         \/ uploading'[c].file_name = uploading[c].file_name /\ owner'[c] = owner[c]
  PROVE  ReceiveOK(c)'
<1> SUFFICES ASSUME InUse(receiving'[c]) PROVE ReceiveOK(c)'
  BY DEF ReceiveOK
<1> DEFINE f == receiving[c].file_name[1]
           file == folder[receiving[c].file_name]
<1>1. receiving[c].size = SizeOf[f] /\ receiving[c].current = Len(file)
  BY DEF ReceiveOK
<1>2. PICK p \in Procs :
        /\ Follow(file, f, p, 0) /\ Follow(toServer[c], f, p, Len(file))
        /\ Len(file) + Len(toServer[c]) > 0 => Kept(p, f)
        /\ InUse(uploading[c]) => owner[c] = p /\ uploading[c].file_name = <<f, 0>>
  BY DEF ReceiveOK
<1>3. f \in Files
  <2>1. receiving[c].file_name \in Names
    BY InUseFacts DEF Inv, TypeOK, ServerTypeOK
  <2> QED
    BY <2>1, NameFacts
<1>4. Kept(p, f) => Kept(p, f)'
  BY <1>3 DEF KeptStays
<1>5. InUse(uploading'[c]) => owner'[c] = p /\ uploading'[c].file_name = <<f, 0>>
  BY <1>2 DEF InUse
<1> QED
  BY <1>1, <1>2, <1>4, <1>5 DEF ReceiveOK

LEMMA DownloadStays ==
  ASSUME Inv, FolderGrows, Inv', NEW c \in Conns, DownloadOK(c),
         \/ ~InUse(downloading'[c])
         \/ /\ downloading'[c] = downloading[c] /\ owner'[c] = owner[c]
            /\ toClient'[c] = toClient[c]
            /\ local_files[owner[c]] \subseteq local_files'[owner[c]]
            /\ disk'[owner[c]][downloading[c].file_name]
                 = disk[owner[c]][downloading[c].file_name]
            /\ InUse(sending'[c]) => sending'[c] = sending[c]
  PROVE  DownloadOK(c)'
<1> SUFFICES ASSUME InUse(downloading'[c]) PROVE DownloadOK(c)'
  BY DEF DownloadOK
<1> DEFINE n == downloading[c].file_name
           mine == disk[owner[c]][n]
<1>1. /\ n \in local_files[owner[c]] /\ n \in Stored
      /\ downloading[c].current = Len(mine)
      /\ Part(mine, folder[n], 0) /\ Part(toClient[c], folder[n], Len(mine))
      /\ InUse(sending[c]) =>
           sending[c].file_name = n /\ sending[c].current = Len(mine) + Len(toClient[c])
  BY DEF DownloadOK
<1>2. n \in Stored' /\ Grown(folder[n], folder'[n])
  BY <1>1 DEF FolderGrows
<1>3. owner[c] \in Procs /\ n \in Names
  BY OwnerFacts, InUseFacts DEF Inv, TypeOK, ClientTypeOK
<1>4. /\ mine \in Seq(Units) /\ folder[n] \in Seq(Units) /\ folder'[n] \in Seq(Units)
      /\ toClient[c] \in Seq(Notices \cup Units)
  <2>1. folder \in [Names -> Seq(Units)] /\ folder' \in [Names -> Seq(Units)]
    BY DEF Inv, TypeOK, ServerTypeOK
  <2>2. disk \in [Procs -> [Names -> Seq(Units)]]
    BY DEF Inv, TypeOK, ClientTypeOK
  <2>3. toClient[c] \in Seq(Notices \cup Units)
    BY DEF Inv, TypeOK, StreamsTypeOK
  <2> QED
    BY <1>3, <2>1, <2>2, <2>3
<1> HIDE DEF n, mine
<1>5. Len(mine) \in Nat
  BY <1>4
<1>6. Part(mine, folder'[n], 0) /\ Part(toClient[c], folder'[n], Len(mine))
  BY <1>1, <1>2, <1>4, <1>5, PartOfGrown
<1> QED
  BY <1>1, <1>2, <1>6 DEF DownloadOK, n, mine

LEMMA NoticeStays ==
  ASSUME NEW c, NoticeOK(c), Stored \subseteq Stored',
         \A i \in 1..Len(toClient'[c]) : toClient'[c][i].type = "put" =>
           \/ \E j \in 1..Len(toClient[c]) : toClient'[c][i] = toClient[c][j]
           \/ toClient'[c][i].file \in Stored'
  PROVE  NoticeOK(c)'
  BY DEF NoticeOK

LEMMA OnceStays ==
  ASSUME \A c \in Conns : OnceOK(c),
         \A c \in Conns :
           \/ ~InUse(downloading'[c])
           \/ downloading'[c].file_name = downloading[c].file_name /\ owner'[c] = owner[c]
  PROVE  \A c \in Conns : OnceOK(c)'
<1> SUFFICES ASSUME NEW c \in Conns, NEW d \in Conns \ {c}, InUse(downloading'[c]),
                    owner'[d] = owner'[c]
             PROVE  downloading'[d].file_name # downloading'[c].file_name
  BY DEF OnceOK
<1> QED
  BY DEF OnceOK, InUse

LEMMA LocalStays ==
  ASSUME Inv, Inv', FolderGrows, NEW p \in Procs, NEW n \in Names,
         LocalOK(p, n), disk'[p][n] = disk[p][n],
         n \in local_files'[p] <=> n \in local_files[p]
  PROVE  LocalOK(p, n)'
<1>1. ASSUME n \in Stored, Part(disk[p][n], folder[n], 0)
      PROVE  n \in Stored' /\ Part(disk[p][n], folder'[n], 0)
  <2>1. n \in Stored' /\ Grown(folder[n], folder'[n])
    BY <1>1 DEF FolderGrows
  <2>2. disk[p][n] \in Seq(Units) /\ folder[n] \in Seq(Units) /\ folder'[n] \in Seq(Units)
    BY DEF Inv, TypeOK, ClientTypeOK, ServerTypeOK
  <2> QED
    BY <1>1, <2>1, <2>2, PartOfGrown
<1> QED
  BY <1>1 DEF LocalOK

-----------------------------------------------------------------------------
(* The server: what its steps have in common *)

(* The part of the invariant that is about one connection by itself. *)
FlowOK(c) ==
  AskedOK(c) /\ UploadOK(c) /\ ReceiveOK(c) /\ DownloadOK(c) /\ NoticeOK(c)

(* A connection over which nothing is moved: the server may read from it what  *)
(* is no data, write notifications to it, or be done with it.                  *)
LEMMA AtRest ==
  ASSUME Inv, Inv', FlowInv, UNCHANGED clientVars, FolderGrows,
         NEW d \in Conns,
         \A i \in 1..Len(toServer'[d]) :
           \E j \in 1..Len(toServer[d]) : toServer'[d][i] = toServer[d][j],
         \/ ~InUse(receiving'[d])
         \/ /\ receiving'[d] = receiving[d] /\ toServer'[d] = toServer[d]
            /\ folder'[receiving[d].file_name] = folder[receiving[d].file_name],
         \/ ~InUse(downloading[d])
         \/ /\ toClient'[d] = toClient[d]
            /\ InUse(sending'[d]) => sending'[d] = sending[d],
         \A i \in 1..Len(toClient'[d]) : toClient'[d][i].type = "put" =>
           \/ \E j \in 1..Len(toClient[d]) : toClient'[d][i] = toClient[d][j]
           \/ toClient'[d][i].file \in Stored'
  PROVE  FlowOK(d)'
<1>1. AskedOK(d) /\ UploadOK(d) /\ ReceiveOK(d) /\ DownloadOK(d) /\ NoticeOK(d)
  BY DEF FlowInv, ConnOK
<1>2. /\ uploading' = uploading /\ downloading' = downloading /\ owner' = owner
      /\ disk' = disk /\ local_files' = local_files
  BY DEF clientVars
<1>3. KeptStays
  BY KeptSame
<1>4. AskedOK(d)'
  BY <1>1, <1>2, AskedStays
<1>5. UploadOK(d)'
  BY <1>1, <1>2, <1>3, UploadStays
<1>6. ReceiveOK(d)'
  BY <1>1, <1>2, <1>3, ReceiveStays
<1>7. DownloadOK(d)'
  BY <1>1, <1>2, DownloadStays
<1>8. NoticeOK(d)'
  BY <1>1, NoticeStays DEF FolderGrows
<1> QED
  BY <1>4, <1>5, <1>6, <1>7, <1>8 DEF FlowOK

(* Nothing at all happens to it. *)
LEMMA Elsewhere ==
  ASSUME Inv, Inv', FlowInv, UNCHANGED clientVars, FolderGrows,
         NEW d \in Conns, toServer'[d] = toServer[d], toClient'[d] = toClient[d],
         receiving'[d] = receiving[d], sending'[d] = sending[d],
         InUse(receiving[d]) =>
           folder'[receiving[d].file_name] = folder[receiving[d].file_name]
  PROVE  FlowOK(d)'
<1>1. \A i \in 1..Len(toServer'[d]) :
        \E j \in 1..Len(toServer[d]) : toServer'[d][i] = toServer[d][j]
  OBVIOUS
<1>2. \A i \in 1..Len(toClient'[d]) : \E j \in 1..Len(toClient[d]) :
        toClient'[d][i] = toClient[d][j]
  OBVIOUS
<1> QED
  BY <1>1, <1>2, AtRest

(* The server's step, from what it does to the connections and the folder.     *)
LEMMA ServerFrame ==
  ASSUME Inv, Inv', FlowInv, UNCHANGED clientVars, FolderGrows,
         \A c \in Conns : FlowOK(c)', \A n \in Names : FolderOK(n)',
         SharedIsWhole'
  PROVE  FlowInv'
<1>1. /\ downloading' = downloading /\ owner' = owner
      /\ disk' = disk /\ local_files' = local_files
  BY DEF clientVars
<1>2. \A c \in Conns : OnceOK(c)'
  BY <1>1, OnceStays DEF FlowInv, ConnOK
<1>3. \A p \in Procs, n \in Names : LocalOK(p, n)'
  BY <1>1, LocalStays DEF FlowInv
<1>4. \A c \in Conns : ConnOK(c)'
  BY <1>2 DEF FlowOK, ConnOK
<1> QED
  BY <1>3, <1>4 DEF FlowInv

(* A step that leaves the folder alone. *)
LEMMA FolderLeftAlone ==
  ASSUME Inv, Inv', FlowInv, UNCHANGED clientVars,
         folder' = folder, shared' = shared, Stored' = Stored,
         FolderGrows => \A c \in Conns : FlowOK(c)'
  PROVE  FlowInv'
<1>1. FolderGrows
  <2>1. folder \in [Names -> Seq(Units)] /\ Stored \subseteq Names
    BY StoredFacts DEF Inv, TypeOK, ServerTypeOK
  <2> QED
    BY <2>1, GrownSame
<1>2. \A n \in Names : FolderOK(n)'
  BY KeptSame, FolderStays DEF FlowInv
<1>3. SharedIsWhole'
  BY DEF FlowInv, SharedIsWhole
<1> QED
  BY <1>1, <1>2, <1>3, ServerFrame

(* Reading and closing leave what was there. *)
LEMMA ConsumeOld ==
  ASSUME StreamsTypeOK, NEW c \in Conns, NEW n \in 0..Len(toServer[c]), Consume(c, n)
  PROVE  \A d \in Conns :
           /\ d # c => toServer'[d] = toServer[d]
           /\ \A i \in 1..Len(toServer'[d]) :
                \E j \in 1..Len(toServer[d]) : toServer'[d][i] = toServer[d][j]
<1>1. /\ \A d \in Conns : d # c => toServer'[d] = toServer[d]
      /\ \A i \in 1..Len(toServer'[c]) :
           i + n \in 1..Len(toServer[c]) /\ toServer'[c][i] = toServer[c][i + n]
  BY ConsumeFacts
<1> QED
  BY <1>1

LEMMA CloseOld ==
  ASSUME StreamsTypeOK, NEW c \in Conns, CloseNear(c)
  PROVE  \A d \in Conns :
           /\ d # c => toServer'[d] = toServer[d]
           /\ \A i \in 1..Len(toServer'[d]) :
                \E j \in 1..Len(toServer[d]) : toServer'[d][i] = toServer[d][j]
<1>1. /\ \A d \in Conns : d # c => toServer'[d] = toServer[d]
      /\ Len(toServer'[c]) = 0
  BY CloseNearFacts
<1> QED
  BY <1>1

-----------------------------------------------------------------------------
(* The server: steps that move no data *)

LEMMA AcceptFlow ==
  ASSUME Inv, Inv', FlowInv, UNCHANGED clientVars,
         NEW c \in Conns, Accept(c)
  PROVE  FlowInv'
<1>1. /\ toServer' = toServer /\ toClient' = toClient /\ receiving' = receiving
      /\ sending' = sending /\ folder' = folder /\ shared' = shared
      /\ Stored' = Stored
  BY DEF Accept, serverVars, tableVars, Stored
<1> QED
  BY <1>1, Elsewhere, FolderLeftAlone

LEMMA DisconnectFlow ==
  ASSUME Inv, Inv', FlowInv, UNCHANGED clientVars,
         NEW c \in Conns, Disconnect(c), ~InUse(receiving[c])
  PROVE  FlowInv'
<1>1. /\ CloseNear(c) /\ toClient' = toClient /\ receiving' = receiving
      /\ sending' = sending /\ folder' = folder /\ shared' = shared
      /\ Stored' = Stored
  BY DEF Disconnect, Stored
<1>2. \A d \in Conns :
        /\ d # c => toServer'[d] = toServer[d]
        /\ \A i \in 1..Len(toServer'[d]) :
             \E j \in 1..Len(toServer[d]) : toServer'[d][i] = toServer[d][j]
  BY <1>1, CloseOld DEF Inv, TypeOK
<1>3. \A d \in Conns : FolderGrows => FlowOK(d)'
  BY <1>1, <1>2, AtRest
<1> QED
  BY <1>1, <1>3, FolderLeftAlone

LEMMA IgnoreFlow ==
  ASSUME Inv, Inv', FlowInv, UNCHANGED clientVars,
         NEW c \in Conns, NEW n \in 1..Len(toServer[c]), Ignore(c, n)
  PROVE  FlowInv'
<1>1. /\ Consume(c, n) /\ ~InUse(receiving[c]) /\ toClient' = toClient
      /\ receiving' = receiving /\ sending' = sending /\ folder' = folder
      /\ shared' = shared /\ Stored' = Stored
  BY DEF Ignore, Reads, serverVars, tableVars, Stored
<1>2. StreamsTypeOK /\ n \in 0..Len(toServer[c])
  BY DEF Inv, TypeOK, StreamsTypeOK
<1>3. \A d \in Conns :
        /\ d # c => toServer'[d] = toServer[d]
        /\ \A i \in 1..Len(toServer'[d]) :
             \E j \in 1..Len(toServer[d]) : toServer'[d][i] = toServer[d][j]
  BY <1>1, <1>2, ConsumeOld
<1>4. \A d \in Conns : FolderGrows => FlowOK(d)'
  BY <1>1, <1>3, AtRest
<1> QED
  BY <1>1, <1>4, FolderLeftAlone

LEMMA FinishSendFlow ==
  ASSUME Inv, Inv', FlowInv, UNCHANGED clientVars,
         NEW c \in Conns, FinishSend(c)
  PROVE  FlowInv'
<1>1. /\ CloseNear(c) /\ toClient' = toClient /\ receiving' = receiving
      /\ sending' = [sending EXCEPT ![c] = NoFile] /\ InUse(sending[c])
      /\ folder' = folder /\ shared' = shared /\ Stored' = Stored
  BY DEF FinishSend, tableVars, Stored
<1>2. ~InUse(sending'[c]) /\ \A d \in Conns : d # c => sending'[d] = sending[d]
  BY <1>1, NoFileFacts DEF Inv, TypeOK, ServerTypeOK
<1>3. ~InUse(receiving[c])
  BY <1>1 DEF Inv, NearInv, NearOK
<1>4. \A d \in Conns :
        /\ d # c => toServer'[d] = toServer[d]
        /\ \A i \in 1..Len(toServer'[d]) :
             \E j \in 1..Len(toServer[d]) : toServer'[d][i] = toServer[d][j]
  BY <1>1, CloseOld DEF Inv, TypeOK
<1>5. \A d \in Conns : FolderGrows => FlowOK(d)'
  BY <1>1, <1>2, <1>3, <1>4, AtRest
<1> QED
  BY <1>1, <1>5, FolderLeftAlone

-----------------------------------------------------------------------------
(* The server: steps that read a request *)

(* The notifications of sync_new_connection are of the user's files. *)
LEMMA NameFlow ==
  ASSUME Inv, Inv', FlowInv, UNCHANGED clientVars,
         NEW c \in Conns, NEW n \in 1..Len(toServer[c]), Name(c, n)
  PROVE  FlowInv'
<1> DEFINE user == CommandOf(c, n).user
           items == <<[type |-> "welcome"]>> \o Catalogue(user)
           again == client_files[user] # {}
<1>1. /\ Consume(c, n) /\ ~InUse(receiving[c]) /\ Write({c}, items, again)
      /\ receiving' = receiving /\ sending' = sending /\ folder' = folder
      /\ shared' = shared /\ Stored' = Stored
  BY DEF Name, Reads, Stored
<1>2. toServer[c][1].type = "name" /\ user \in Owners
  BY CommandFacts DEF Name, Reads, Inv, TypeOK
<1>3. client_files[user] \subseteq Stored
  BY <1>2 DEF Stored
<1> DEFINE notices == Catalogue(user)
<1>4. /\ notices \in Seq(Notices)
      /\ \A i \in 1..Len(notices) : notices[i].file \in Stored
  BY <1>2, <1>3, CatalogueFacts DEF Inv, TypeOK
<1>5. items = <<[type |-> "welcome"]>> \o notices
  OBVIOUS
<1> HIDE DEF notices, user, items, again
<1>6. /\ items \in Seq(Notices \cup Units)
      /\ \A i \in 1..Len(items) : items[i].type = "put" => items[i].file \in Stored
  <2>1. <<[type |-> "welcome"]>> \in Seq(Notices)
    BY LineFacts
  <2>2. items \in Seq(Notices)
    BY <1>4, <1>5, <2>1
  <2>3. Len(items) = 1 + Len(notices) /\ items[1] = [type |-> "welcome"]
    BY <1>4, <1>5
  <2>4. ASSUME NEW i \in 2..Len(items)
        PROVE  i - 1 \in 1..Len(notices) /\ items[i] = notices[i - 1]
    BY <1>4, <1>5, <2>3
  <2>5. ASSUME NEW i \in 1..Len(items), items[i].type = "put"
        PROVE  items[i].file \in Stored
    <3>1. i # 1
      BY <2>3, <2>5
    <3>2. i \in 2..Len(items)
      BY <3>1
    <3> QED
      BY <1>4, <2>4, <3>2
  <2> QED
    BY <2>2, <2>5
<1>7. /\ \A d \in Conns : d # c => toClient'[d] = toClient[d]
      /\ \A i \in 1..Len(toClient'[c]) :
           \/ i \in 1..Len(toClient[c]) /\ toClient'[c][i] = toClient[c][i]
           \/ \E j \in 1..Len(items) : toClient'[c][i] = items[j]
  <2>1. StreamsTypeOK /\ {c} \in SUBSET Conns
    BY DEF Inv, TypeOK
  <2>2. /\ \A d \in Conns : d \notin {c} => toClient'[d] = toClient[d]
        /\ \A d \in Conns : \A i \in 1..Len(toClient'[d]) :
             \/ i \in 1..Len(toClient[d]) /\ toClient'[d][i] = toClient[d][i]
             \/ \E j \in 1..Len(items) : toClient'[d][i] = items[j]
    BY <1>1, <1>6, <2>1, WriteFacts
  <2> QED
    BY <2>2
<1>8. StreamsTypeOK /\ n \in 0..Len(toServer[c]) /\ 1 \in 1..Len(toServer[c])
  BY DEF Inv, TypeOK, StreamsTypeOK
<1>9. \A d \in Conns :
        /\ d # c => toServer'[d] = toServer[d]
        /\ \A i \in 1..Len(toServer'[d]) :
             \E j \in 1..Len(toServer[d]) : toServer'[d][i] = toServer[d][j]
  BY <1>1, <1>8, ConsumeOld
<1>10. ~InUse(downloading[c])
  BY <1>2, <1>8 DEF Inv, NearInv, StreamOK, ItemOK, CommandTypes, Idle
<1>11. \A i \in 1..Len(toClient'[c]) : toClient'[c][i].type = "put" =>
         \/ \E j \in 1..Len(toClient[c]) : toClient'[c][i] = toClient[c][j]
         \/ toClient'[c][i].file \in Stored'
  BY <1>1, <1>6, <1>7
<1>12. ASSUME FolderGrows, NEW d \in Conns PROVE FlowOK(d)'
  <2>1. CASE d = c
    BY <1>1, <1>9, <1>10, <1>11, <1>12, <2>1, AtRest
  <2>2. CASE d # c
    BY <1>1, <1>7, <1>9, <1>12, <2>2, Elsewhere
  <2> QED
    BY <2>1, <2>2
<1> QED
  BY <1>1, <1>12, FolderLeftAlone

(* What is sent of a file is what the client waits for, from the beginning. *)
LEMMA GetFlow ==
  ASSUME Inv, Inv', FlowInv, UNCHANGED clientVars,
         NEW c \in Conns, NEW n \in 1..Len(toServer[c]), Get(c, n)
  PROVE  FlowInv'
<1> DEFINE request == CommandOf(c, n)
           size == Len(folder[request.file])
           info == FileInfo(request.file, size)
<1>1. /\ Consume(c, n) /\ ~InUse(receiving[c]) /\ ~InUse(sending[c])
      /\ request.type = "get" /\ toClient' = toClient /\ receiving' = receiving
      /\ sending' = [sending EXCEPT ![c] = info]
      /\ folder' = folder /\ shared' = shared /\ Stored' = Stored
  BY DEF Get, Reads, tableVars, Stored
<1>2. request = toServer[c][1] /\ toServer[c][1] \in Requests \cup Units
  BY <1>1, CommandFacts DEF Inv, TypeOK
<1> HIDE DEF request
<1>3. request.file \in Names
  BY <1>1, <1>2, RequestFacts
<1>4. size \in Nat
  <2>1. folder[request.file] \in Seq(Units)
    BY <1>3 DEF Inv, TypeOK, ServerTypeOK
  <2> QED
    BY <2>1
<1> HIDE DEF size
<1>5. info.file_name = request.file /\ info.current = 0
  BY <1>3, <1>4, FileInfoFacts
<1> HIDE DEF info
<1>6. sending'[c] = info /\ \A d \in Conns : d # c => sending'[d] = sending[d]
  BY <1>1 DEF Inv, TypeOK, ServerTypeOK
<1>7. StreamsTypeOK /\ n \in 0..Len(toServer[c]) /\ 1 \in 1..Len(toServer[c])
  BY DEF Inv, TypeOK, StreamsTypeOK
<1>8. \A d \in Conns :
        /\ d # c => toServer'[d] = toServer[d]
        /\ \A i \in 1..Len(toServer'[d]) :
             \E j \in 1..Len(toServer[d]) : toServer'[d][i] = toServer[d][j]
  BY <1>1, <1>7, ConsumeOld
<1>9. ASSUME FolderGrows, NEW d \in Conns, d # c PROVE FlowOK(d)'
  BY <1>1, <1>6, <1>8, <1>9, Elsewhere
<1>10. ASSUME FolderGrows, ~InUse(downloading[c]) PROVE FlowOK(c)'
  BY <1>1, <1>8, <1>10, AtRest
<1>11. ASSUME InUse(downloading[c]) PROVE FlowOK(c)'
  <2> DEFINE name == downloading[c].file_name
             mine == disk[owner[c]][name]
  <2>1. AskedOK(c) /\ UploadOK(c) /\ ReceiveOK(c) /\ DownloadOK(c) /\ NoticeOK(c)
    BY DEF FlowInv, ConnOK
  <2>2. /\ downloading[c].file_name = request.file /\ downloading[c].current = 0
        /\ toClient[c] = <<>>
    BY <1>1, <1>2, <1>7, <1>11, <2>1 DEF AskedOK
  <2>3. /\ name \in local_files[owner[c]] /\ name \in Stored
        /\ downloading[c].current = Len(mine)
        /\ Part(mine, folder[name], 0) /\ Part(toClient[c], folder[name], Len(mine))
    BY <1>11, <2>1 DEF DownloadOK
  <2>4. owner' = owner /\ downloading' = downloading /\ disk' = disk
        /\ local_files' = local_files /\ uploading' = uploading
    BY DEF clientVars
  <2>5. DownloadOK(c)'
    <3>1. sending'[c].file_name = name /\ sending'[c].current = Len(mine) + Len(toClient[c])
      <4>1. Len(toClient[c]) = 0 /\ Len(mine) = 0
        BY <2>2, <2>3
      <4> QED
        BY <1>5, <1>6, <2>2, <4>1
    <3> HIDE DEF name, mine
    <3> QED
      BY <1>1, <2>3, <2>4, <3>1 DEF DownloadOK, name, mine
  <2>6. AskedOK(c)'
    BY <1>1, <1>8, <2>1, <2>4, AskedStays
  <2>7. UploadOK(c)' /\ ReceiveOK(c)'
    BY <1>1, <2>1, <2>4, KeptSame, UploadStays, ReceiveStays
  <2>8. NoticeOK(c)'
    BY <1>1, <2>1 DEF NoticeOK
  <2> QED
    BY <2>5, <2>6, <2>7, <2>8 DEF FlowOK
<1> QED
  BY <1>1, <1>9, <1>10, <1>11, FolderLeftAlone

(* A new upload starts with an empty file of a name that the user has not. *)
LEMMA PutFlow ==
  ASSUME Apart, Inv, Inv', PacedInv, SharedInv, FlowInv, UNCHANGED clientVars,
         NEW c \in Conns, NEW n \in 1..Len(toServer[c]), Put(c, n)
  PROVE  FlowInv'
<1> DEFINE request == CommandOf(c, n)
           f == request.file[1]
           name == StoredName(request.user, f)
<1>1. /\ n = 1 /\ Consume(c, n) /\ request.type = "put"
      /\ ~InUse(receiving[c]) /\ ~InUse(sending[c])
      /\ StartReceive(c, request.user, request, <<>>)
      /\ toClient' = toClient /\ sending' = sending /\ shared' = shared
  BY DEF Put, Reads
<1>2. request = toServer[c][1] /\ toServer[c][1] \in Requests \cup Units
  BY <1>1, CommandFacts DEF Inv, TypeOK
<1>3. request.file \in Names /\ request.size \in Nat /\ request.user \in Owners
  BY <1>1, <1>2, RequestFacts, OwnersHaveNames
<1>4. 1 \in 1..Len(toServer[c]) /\ n \in 0..Len(toServer[c]) /\ StreamsTypeOK
  BY DEF Inv, TypeOK, StreamsTypeOK
<1>5. Len(toServer[c]) = 1
  BY <1>1, <1>2, <1>4 DEF PacedInv, PacedOK, RequestOK
<1>6. Owns(request.user, f)
  BY <1>1, <1>2, <1>4 DEF SharedInv, OwnRequest
<1>7. f \in Files /\ HasName(request.user, f)
  BY <1>1, <1>3, NameFacts DEF StartReceive
<1>8. name \in Names /\ name \notin Stored /\ name[1] = f
  <2>1. name \in Names /\ name \notin Stored
    BY <1>6, <1>7, NameIsFresh
  <2>2. name[1] = f
    BY DEF StoredName
  <2> QED
    BY <2>1, <2>2
<1>9. AskedOK(c)
  BY DEF FlowInv, ConnOK
<1>10. /\ request.size = SizeOf[f]
       /\ \E p \in Procs : request.user = UserOf[p]
       /\ InUse(uploading[c]) => uploading[c].file_name = <<f, 0>>
  BY <1>1, <1>2, <1>4, <1>9 DEF AskedOK
<1>11. /\ receiving' = [receiving EXCEPT ![c] =
                          [FileInfo(name, request.size) EXCEPT !.current = Len(<<>>)]]
       /\ folder' = [folder EXCEPT ![name] = <<>>]
       /\ client_files' = [client_files EXCEPT ![request.user] = @ \cup {name}]
  BY <1>1 DEF StartReceive
<1> HIDE DEF name
<1>12. /\ receiving'[c].file_name = name /\ receiving'[c].current = 0
       /\ receiving'[c].size = SizeOf[f]
       /\ \A d \in Conns : d # c => receiving'[d] = receiving[d]
  <2> DEFINE info == [FileInfo(name, request.size) EXCEPT !.current = Len(<<>>)]
  <2>1. info.file_name = name /\ info.current = 0 /\ info.size = request.size
    BY DEF FileInfo
  <2> HIDE DEF info
  <2>2. receiving' = [receiving EXCEPT ![c] = info]
    BY <1>11 DEF info
  <2> QED
    BY <1>10, <2>1, <2>2 DEF Inv, TypeOK, ServerTypeOK
<1>13. folder'[name] = <<>> /\ \A m \in Names \ {name} : folder'[m] = folder[m]
  BY <1>8, <1>11 DEF Inv, TypeOK, ServerTypeOK
<1>14. Stored \subseteq Stored'
  <2>1. client_files \in [Owners -> SUBSET Names]
    BY DEF Inv, TypeOK, ServerTypeOK
  <2>2. \A v \in Owners : client_files[v] \subseteq client_files'[v]
    BY <1>11, <2>1
  <2> QED
    BY <2>2 DEF Stored
<1> HIDE DEF request, f
<1>15. FolderGrows
  <2> SUFFICES ASSUME NEW m \in Stored PROVE Grown(folder[m], folder'[m])
    BY <1>14 DEF FolderGrows
  <2>1. m \in Names /\ m # name
    BY <1>8, StoredFacts
  <2>2. folder[m] \in Seq(Units)
    BY <2>1 DEF Inv, TypeOK, ServerTypeOK
  <2>3. Len(folder[m]) \in Nat /\ folder'[m] = folder[m]
    BY <1>13, <2>1, <2>2
  <2> QED
    BY <2>3 DEF Grown
<1>16. /\ Len(toServer'[c]) = 0
       /\ \A d \in Conns : d # c => toServer'[d] = toServer[d]
  <2>1. /\ Len(toServer'[c]) = Len(toServer[c]) - n
        /\ \A d \in Conns : d # c => toServer'[d] = toServer[d]
    BY <1>1, <1>4, ConsumeFacts
  <2> QED
    BY <1>1, <1>5, <2>1
<1>17. /\ owner' = owner /\ downloading' = downloading /\ disk' = disk
       /\ local_files' = local_files /\ uploading' = uploading
  BY DEF clientVars
<1>18. FlowOK(c)'
  <2>1. UploadOK(c) /\ DownloadOK(c) /\ NoticeOK(c)
    BY DEF FlowInv, ConnOK
  <2>2. AskedOK(c)'
    BY <1>16 DEF AskedOK
  <2>3. UploadOK(c)'
    BY <1>17, <2>1, KeptSame, UploadStays
  <2>4. DownloadOK(c)'
    BY <1>1, <1>15, <1>17, <2>1, DownloadStays
  <2>5. NoticeOK(c)'
    BY <1>1, <1>14, <2>1 DEF NoticeOK
  <2>6. ReceiveOK(c)'
    <3>1. PICK p \in Procs : InUse(uploading[c]) => owner[c] = p
      <4>1. CASE InUse(uploading[c])
        BY <4>1, OwnerFacts
      <4>2. CASE ~InUse(uploading[c])
        BY <1>10, <4>2
      <4> QED
        BY <4>1, <4>2
    <3>2. ASSUME NEW units, Len(units) = 0 PROVE Follow(units, f, p, 0)
      <4>1. \A i \in 1..Len(units) : FALSE
        BY <3>2
      <4>2. SizeOf[f] \in Nat
        BY <1>7, SizeFacts
      <4> QED
        BY <3>2, <4>1, <4>2 DEF Follow
    <3>3. Len(folder'[name]) = 0
      BY <1>13
    <3>4. Follow(folder'[name], f, p, 0) /\ Follow(toServer'[c], f, p, Len(folder'[name]))
      BY <1>16, <3>2, <3>3
    <3> QED
      BY <1>8, <1>10, <1>12, <1>16, <1>17, <3>1, <3>3, <3>4 DEF ReceiveOK
  <2> QED
    BY <2>2, <2>3, <2>4, <2>5, <2>6 DEF FlowOK
<1>19. ASSUME NEW d \in Conns, d # c PROVE FlowOK(d)'
  <2>1. ASSUME InUse(receiving[d])
        PROVE  folder'[receiving[d].file_name] = folder[receiving[d].file_name]
    <3>1. receiving[d].file_name \in Stored
      BY <2>1, OwnNameFacts
    <3>2. receiving[d].file_name \in Names \ {name}
      BY <1>8, <2>1, <3>1, InUseFacts DEF Inv, TypeOK, ServerTypeOK
    <3> QED
      BY <1>13, <3>2
  <2> QED
    BY <1>1, <1>12, <1>15, <1>16, <1>19, <2>1, Elsewhere
<1>20. \A m \in Names : FolderOK(m)'
  <2> SUFFICES ASSUME NEW m \in Names PROVE FolderOK(m)'
    OBVIOUS
  <2>1. CASE m = name
    BY <1>13, <2>1 DEF FolderOK
  <2>2. CASE m # name
    BY <1>13, <2>2, KeptSame, FolderStays DEF FlowInv
  <2> QED
    BY <2>1, <2>2
<1>21. SharedIsWhole'
  <2> SUFFICES ASSUME NEW m \in shared PROVE \E p \in Procs : folder'[m] = Content(m[1], p)
    BY <1>1 DEF SharedIsWhole
  <2>1. m \in Names \ {name}
    BY <1>8 DEF SharedInv, Inv, TypeOK, ServerTypeOK
  <2> QED
    BY <1>13, <2>1 DEF FlowInv, SharedIsWhole
<1>22. \A d \in Conns : FlowOK(d)'
  BY <1>18, <1>19
<1> QED
  BY <1>15, <1>20, <1>21, <1>22, ServerFrame

-----------------------------------------------------------------------------
(* The server: uploads *)

(* What is read of an upload continues the file. *)
LEMMA ReadsDataFlow ==
  ASSUME Inv, SharedInv, FlowInv, NEW c \in Conns, NEW n \in 0..Chunk,
         ReadsData(c, n), Stored' = Stored
  PROVE  LET name == receiving[c].file_name
             f == name[1]
             file == folder[name] IN
         /\ name \in Stored \ shared /\ name \in Names /\ f \in Files
         /\ n \in 0..Len(toServer[c]) /\ toServer[c] \in Seq(Units)
         /\ receiving[c].size = SizeOf[f] /\ receiving[c].current = Len(file)
         /\ Len(file) \in Nat /\ Len(folder'[name]) = Len(file) + n
         /\ folder'[name] \in Seq(Units)
         /\ \A m \in Names \ {name} : folder'[m] = folder[m]
         /\ FolderGrows
         /\ \E p \in Procs :
              /\ Follow(folder'[name], f, p, 0) /\ Follow(toServer[c], f, p, Len(file))
              /\ Len(file) + Len(toServer[c]) > 0 => Kept(p, f)
              /\ InUse(uploading[c]) => owner[c] = p /\ uploading[c].file_name = <<f, 0>>
<1> DEFINE name == receiving[c].file_name
           f == name[1]
           file == folder[name]
           queue == toServer[c]
           more == WriteAt(file, Len(file), First(queue, n))
<1>1. /\ InUse(receiving[c])
      /\ folder' = [folder EXCEPT ![name] =
                      WriteAt(@, receiving[c].current, First(queue, n))]
  BY DEF ReadsData
<1>2. n \in 0..Len(queue) /\ name \in Names
  BY ReadsDataFacts
<1>3. name \in Stored \ shared
  BY <1>1, OwnNameFacts
<1>4. f \in Files
  BY <1>2, NameFacts
<1>5. folder \in [Names -> Seq(Units)] /\ file \in Seq(Units) /\ Len(file) \in Nat
  <2>1. folder \in [Names -> Seq(Units)]
    BY DEF Inv, TypeOK, ServerTypeOK
  <2> QED
    BY <1>2, <2>1
<1>6. queue \in Seq(Units)
  <2>1. \A i \in 1..Len(queue) : queue[i] \in Units
    BY <1>1, BusyFacts
  <2>2. queue \in Seq(Requests \cup Units)
    BY DEF Inv, TypeOK, StreamsTypeOK
  <2> HIDE DEF queue
  <2> QED
    BY <2>1, <2>2, ItemsGiveSeq
<1>7. receiving[c].size = SizeOf[f] /\ receiving[c].current = Len(file)
  BY <1>1 DEF FlowInv, ConnOK, ReceiveOK
<1>8. PICK p \in Procs :
        /\ Follow(file, f, p, 0) /\ Follow(queue, f, p, Len(file))
        /\ Len(file) + Len(queue) > 0 => Kept(p, f)
        /\ InUse(uploading[c]) => owner[c] = p /\ uploading[c].file_name = <<f, 0>>
  BY <1>1 DEF FlowInv, ConnOK, ReceiveOK
<1> HIDE DEF name, f, file, queue
<1>9. /\ more \in Seq(Units) /\ Len(more) = Len(file) + n
      /\ \A i \in 1..Len(file) : more[i] = file[i]
  BY <1>2, <1>5, <1>6, AppendFacts
<1>10. Follow(more, f, p, 0)
  BY <1>2, <1>4, <1>5, <1>6, <1>8, FollowMore
<1>11. folder'[name] = more /\ \A m \in Names \ {name} : folder'[m] = folder[m]
  <2>1. folder' = [folder EXCEPT ![name] = more]
    BY <1>1, <1>7 DEF file, queue, name
  <2> HIDE DEF more
  <2> QED
    BY <1>2, <1>5, <2>1
<1> HIDE DEF more
<1>12. FolderGrows
  <2> SUFFICES ASSUME NEW m \in Stored PROVE Grown(folder[m], folder'[m])
    BY DEF FolderGrows
  <2>1. m \in Names
    BY StoredFacts
  <2>2. CASE m = name
    BY <1>2, <1>5, <1>9, <1>11, <2>2 DEF Grown, file
  <2>3. CASE m # name
    <3>1. Len(folder[m]) \in Nat /\ folder'[m] = folder[m]
      BY <1>5, <1>11, <2>1, <2>3
    <3> QED
      BY <3>1 DEF Grown
  <2> QED
    BY <2>2, <2>3
<1> QED
  BY <1>2, <1>3, <1>4, <1>5, <1>6, <1>7, <1>8, <1>9, <1>10, <1>11, <1>12
     DEF name, f, file, queue

(* The folder after it, and the connections that it is not read from. *)
LEMMA ReceivingFlow ==
  ASSUME Inv, Inv', SharedInv, FlowInv, UNCHANGED clientVars,
         NEW c \in Conns, NEW n \in 0..Chunk, ReadsData(c, n),
         Stored' = Stored, FlowOK(c)', SharedIsWhole',
         \A d \in Conns \ {c} :
           /\ toServer'[d] = toServer[d] /\ receiving'[d] = receiving[d]
           /\ sending'[d] = sending[d]
           /\ toClient'[d] = toClient[d] \/ ~InUse(downloading[d])
           /\ \A i \in 1..Len(toClient'[d]) : toClient'[d][i].type = "put" =>
                \/ \E j \in 1..Len(toClient[d]) : toClient'[d][i] = toClient[d][j]
                \/ toClient'[d][i].file \in Stored'
  PROVE  FlowInv'
<1> DEFINE file == folder[receiving[c].file_name]
<1>0. PICK name \in Names, f \in Files : name = receiving[c].file_name /\ f = name[1]
  BY ReadsDataFlow
<1>1. /\ name \in Stored \ shared /\ name \in Names /\ f \in Files
      /\ n \in 0..Len(toServer[c])
      /\ Len(file) \in Nat /\ Len(folder'[name]) = Len(file) + n
      /\ \A m \in Names \ {name} : folder'[m] = folder[m]
      /\ FolderGrows /\ folder'[name] \in Seq(Units)
  BY <1>0, ReadsDataFlow
<1>2. PICK p \in Procs :
        /\ Follow(folder'[name], f, p, 0)
        /\ Len(file) + Len(toServer[c]) > 0 => Kept(p, f)
  BY <1>0, ReadsDataFlow
<1>3. Len(toServer[c]) \in Nat
  BY DEF Inv, TypeOK, StreamsTypeOK
<1> HIDE DEF file
<1>4. ASSUME NEW m \in Names PROVE FolderOK(m)'
  <2>1. CASE m = name
    <3> SUFFICES ASSUME folder'[name] # <<>>
                 PROVE  \E q \in Procs : Follow(folder'[name], f, q, 0) /\ Kept(q, f)'
      BY <1>0, <2>1 DEF FolderOK
    <3>2. Len(folder'[name]) # 0
      BY <1>1
    <3>3. Len(file) + Len(toServer[c]) > 0
      BY <1>1, <1>3, <3>2
    <3>4. KeptStays /\ Kept(p, f)
      BY <1>2, <3>3, KeptSame
    <3>5. Kept(p, f)'
      BY <1>1, <3>4 DEF KeptStays
    <3> QED
      BY <1>2, <3>5
  <2>2. CASE m # name
    BY <1>1, <2>2, KeptSame, FolderStays DEF FlowInv
  <2> QED
    BY <2>1, <2>2
<1>5. ASSUME NEW d \in Conns \ {c} PROVE FlowOK(d)'
  <2>1. ASSUME InUse(receiving[d])
        PROVE  folder'[receiving[d].file_name] = folder[receiving[d].file_name]
    <3>1. receiving[d].file_name # name
      BY <1>0, <2>1, OwnNameFacts
    <3>2. receiving[d].file_name \in Names
      BY <2>1, InUseFacts DEF Inv, TypeOK, ServerTypeOK
    <3> QED
      BY <1>1, <3>1, <3>2
  <2>2. /\ \A i \in 1..Len(toServer'[d]) :
             \E j \in 1..Len(toServer[d]) : toServer'[d][i] = toServer[d][j]
    OBVIOUS
  <2> QED
    BY <1>1, <2>1, <2>2, AtRest
<1>6. \A d \in Conns : FlowOK(d)'
  BY <1>5
<1> QED
  BY <1>1, <1>4, <1>6, ServerFrame

LEMMA ReceiveMoreFlow ==
  ASSUME Inv, Inv', SharedInv, FlowInv, UNCHANGED clientVars,
         NEW c \in Conns, NEW n \in 0..Chunk, ReceiveMore(c, n)
  PROVE  FlowInv'
<1> DEFINE m == IF n = 0 THEN Len(toServer[c]) ELSE n
<1>1. /\ ReadsData(c, n) /\ Consume(c, m)
      /\ receiving' = [receiving EXCEPT ![c].current = @ + n]
      /\ Stored' = Stored /\ toClient' = toClient /\ sending' = sending
      /\ shared' = shared
  BY DEF ReceiveMore, Stored
<1> DEFINE file == folder[receiving[c].file_name]
<1>2. PICK name \in Names, f \in Files : name = receiving[c].file_name /\ f = name[1]
  BY <1>1, ReadsDataFlow
<1>3. /\ n \in 0..Len(toServer[c]) /\ toServer[c] \in Seq(Units)
      /\ receiving[c].size = SizeOf[f] /\ receiving[c].current = Len(file)
      /\ Len(file) \in Nat /\ Len(folder'[name]) = Len(file) + n
      /\ \A k \in Names \ {name} : folder'[k] = folder[k]
      /\ name \notin shared /\ FolderGrows
  BY <1>1, <1>2, ReadsDataFlow
<1>4. PICK p \in Procs :
        /\ Follow(folder'[name], f, p, 0) /\ Follow(toServer[c], f, p, Len(file))
        /\ Len(file) + Len(toServer[c]) > 0 => Kept(p, f)
        /\ InUse(uploading[c]) => owner[c] = p /\ uploading[c].file_name = <<f, 0>>
  BY <1>1, <1>2, ReadsDataFlow
<1>5. Len(toServer[c]) \in Nat
  BY <1>3
<1>6. n \in Nat /\ m \in 0..Len(toServer[c]) /\ (n # 0 => m = n)
  BY <1>3, <1>5
<1>7. n = 0 => m = Len(toServer[c])
  OBVIOUS
<1> HIDE DEF m, file
<1>8. StreamsTypeOK
  BY DEF Inv, TypeOK
<1>9. /\ \A d \in Conns : d # c => toServer'[d] = toServer[d]
      /\ Len(toServer'[c]) = Len(toServer[c]) - m
      /\ toServer' \in [Conns -> Seq(Requests \cup Units)]
      /\ \A i \in 1..Len(toServer'[c]) :
           i + m \in 1..Len(toServer[c]) /\ toServer'[c][i] = toServer[c][i + m]
  BY <1>1, <1>6, <1>8, ConsumeFacts
<1>10. /\ receiving'[c].file_name = name /\ receiving'[c].size = SizeOf[f]
       /\ receiving'[c].current = Len(file) + n
       /\ \A d \in Conns : d # c => receiving'[d] = receiving[d]
  <2> DEFINE info == [receiving[c] EXCEPT !.current = @ + n]
  <2>1. receiving[c] \in FileInfos
    BY DEF Inv, TypeOK, ServerTypeOK
  <2>2. /\ info.file_name = receiving[c].file_name /\ info.size = receiving[c].size
        /\ info.current = receiving[c].current + n
    BY <1>6, <2>1, MovedFacts
  <2> HIDE DEF info
  <2>3. receiving' = [receiving EXCEPT ![c] = info]
    BY <1>1 DEF info
  <2> QED
    BY <1>2, <1>3, <2>2, <2>3 DEF Inv, TypeOK, ServerTypeOK
<1>11. Follow(toServer'[c], f, p, Len(file) + n)
  <2>1. toServer[c] \in Seq(Requests \cup Units) /\ toServer'[c] \in Seq(Requests \cup Units)
    BY <1>8, <1>9 DEF StreamsTypeOK
  <2>2. Len(toServer'[c]) <= Len(toServer[c]) - n
    BY <1>5, <1>6, <1>7, <1>9
  <2>3. \A i \in 1..Len(toServer'[c]) : toServer'[c][i] = toServer[c][i + n]
    <3>1. CASE n = 0
      <4>1. Len(toServer'[c]) = 0
        BY <1>5, <1>7, <1>9, <3>1
      <4> QED
        BY <4>1
    <3>2. CASE n # 0
      BY <1>6, <1>9, <3>2
    <3> QED
      BY <3>1, <3>2
  <2> QED
    BY <1>3, <1>4, <2>1, <2>2, <2>3, FollowRest
<1>12. /\ owner' = owner /\ downloading' = downloading /\ disk' = disk
       /\ local_files' = local_files /\ uploading' = uploading
  BY DEF clientVars
<1>13. AskedOK(c) /\ UploadOK(c) /\ DownloadOK(c) /\ NoticeOK(c)
  BY DEF FlowInv, ConnOK
<1>14. ReceiveOK(c)'
  <2>1. Len(folder'[name]) + Len(toServer'[c]) > 0 => Kept(p, f)'
    <3>1. Len(folder'[name]) + Len(toServer'[c]) > 0 => Len(file) + Len(toServer[c]) > 0
      BY <1>3, <1>5, <1>6, <1>9
    <3>2. Kept(p, f) => Kept(p, f)'
      BY KeptSame DEF KeptStays
    <3> QED
      BY <1>4, <3>1, <3>2
  <2> QED
    BY <1>2, <1>3, <1>4, <1>10, <1>11, <1>12, <2>1 DEF ReceiveOK
<1>15. AskedOK(c)'
  <2>1. \A i \in 1..Len(toServer'[c]) :
          \E j \in 1..Len(toServer[c]) : toServer'[c][i] = toServer[c][j]
    BY <1>9
  <2> QED
    BY <1>1, <1>12, <1>13, <2>1, AskedStays
<1>16. UploadOK(c)'
  BY <1>12, <1>13, KeptSame, UploadStays
<1>17. DownloadOK(c)'
  BY <1>1, <1>3, <1>12, <1>13, DownloadStays
<1>18. NoticeOK(c)'
  BY <1>1, <1>13 DEF NoticeOK
<1>19. FlowOK(c)'
  BY <1>14, <1>15, <1>16, <1>17, <1>18 DEF FlowOK
<1>20. SharedIsWhole'
  <2> SUFFICES ASSUME NEW k \in shared PROVE \E q \in Procs : folder'[k] = Content(k[1], q)
    BY <1>1 DEF SharedIsWhole
  <2>1. k \in Names \ {name}
    BY <1>3 DEF Inv, TypeOK, ServerTypeOK
  <2> QED
    BY <1>3, <2>1 DEF FlowInv, SharedIsWhole
<1>21. \A d \in Conns \ {c} :
         /\ toServer'[d] = toServer[d] /\ receiving'[d] = receiving[d]
         /\ sending'[d] = sending[d] /\ toClient'[d] = toClient[d]
         /\ \A i \in 1..Len(toClient'[d]) : \E j \in 1..Len(toClient[d]) :
              toClient'[d][i] = toClient[d][j]
  BY <1>1, <1>9, <1>10
<1> QED
  BY <1>1, <1>19, <1>20, <1>21, ReceivingFlow

(* What is announced is whole, and the user's. *)
LEMMA FinishReceiveFlow ==
  ASSUME Inv, Inv', SharedInv, FlowInv, UNCHANGED clientVars,
         NEW c \in Conns, NEW n \in 0..Chunk, FinishReceive(c, n)
  PROVE  FlowInv'
<1> DEFINE info == receiving[c]
           S == name_clients_map[fd_file_map[c]]
           size == Len(folder'[info.file_name])
           line == PutLine(info.file_name, size, fd_file_map[c])
<1>1. /\ ReadsData(c, n) /\ CloseNear(c)
      /\ receiving' = [receiving EXCEPT ![c] = NoFile]
      /\ Stored' = Stored /\ sending' = sending
  BY DEF FinishReceive, Stored
<1>2. IF Done(info, n)
      THEN Write(S, <<line>>, FALSE) /\ shared' = shared \cup {info.file_name}
      ELSE toClient' = toClient /\ shared' = shared
  BY DEF FinishReceive
<1> DEFINE file == folder[receiving[c].file_name]
<1>3. PICK name \in Names, f \in Files : name = receiving[c].file_name /\ f = name[1]
  BY <1>1, ReadsDataFlow
<1>4. /\ n \in 0..Len(toServer[c])
      /\ receiving[c].size = SizeOf[f] /\ receiving[c].current = Len(file)
      /\ Len(file) \in Nat /\ Len(folder'[name]) = Len(file) + n
      /\ folder'[name] \in Seq(Units)
      /\ \A k \in Names \ {name} : folder'[k] = folder[k]
      /\ name \in Stored \ shared /\ FolderGrows
  BY <1>1, <1>3, ReadsDataFlow
<1>5. PICK p \in Procs : Follow(folder'[name], f, p, 0)
  BY <1>1, <1>3, ReadsDataFlow
<1> HIDE DEF file
<1>6. InUse(receiving[c]) /\ fd_file_map[c] \in Owners
  BY <1>1, ReadsDataFacts, OwnNameFacts
<1>7. Done(info, n) => folder'[name] = Content(f, p)
  BY <1>4, <1>5, WholeIsContent DEF Done
<1>8. StreamsTypeOK
  BY DEF Inv, TypeOK
<1>9. S \in SUBSET Conns /\ \A d \in S : ~InUse(downloading[d])
  <2>1. S = {d \in clients : name_map[d] = fd_file_map[c]} /\ fd_file_map[c] # ""
    BY <1>6, OwnersHaveNames DEF Inv, NamesAgree
  <2>2. \A d \in Conns : NamedOK(d)
    BY DEF Inv, NearInv
  <2> HIDE DEF S
  <2> QED
    BY <2>1, <2>2 DEF clients, NamedOK, Idle
<1>10. line \in Notices /\ line.type = "put" /\ line.file = name
  <2>1. size \in Nat
    BY <1>3, <1>4
  <2> HIDE DEF size
  <2>2. line \in Notices
    BY <1>3, <1>6, <2>1, OwnersHaveNames, LineFacts
  <2> QED
    BY <1>3, <2>2 DEF PutLine
<1> HIDE DEF line, S, info
<1>11. /\ \A d \in Conns : toClient'[d] = toClient[d] \/ ~InUse(downloading[d])
       /\ \A d \in Conns : \A i \in 1..Len(toClient'[d]) :
            toClient'[d][i].type = "put" =>
              \/ \E j \in 1..Len(toClient[d]) : toClient'[d][i] = toClient[d][j]
              \/ toClient'[d][i].file \in Stored'
  <2>1. CASE Done(info, n)
    <3>1. <<line>> \in Seq(Notices \cup Units)
      BY <1>10
    <3>2. /\ \A d \in Conns : d \notin S => toClient'[d] = toClient[d]
          /\ \A d \in Conns : \A i \in 1..Len(toClient'[d]) :
               \/ i \in 1..Len(toClient[d]) /\ toClient'[d][i] = toClient[d][i]
               \/ \E j \in 1..Len(<<line>>) : toClient'[d][i] = <<line>>[j]
      BY <1>2, <1>8, <1>9, <2>1, <3>1, WriteFacts
    <3>3. \A j \in 1..Len(<<line>>) : <<line>>[j] = line
      OBVIOUS
    <3>4. name \in Stored'
      BY <1>1, <1>4
    <3> QED
      BY <1>9, <1>10, <3>2, <3>3, <3>4
  <2>2. CASE ~Done(info, n)
    BY <1>2, <2>2
  <2> QED
    BY <2>1, <2>2
<1>12. /\ ~InUse(receiving'[c]) /\ \A d \in Conns : d # c => receiving'[d] = receiving[d]
  BY <1>1, NoFileFacts DEF Inv, TypeOK, ServerTypeOK
<1>13. \A d \in Conns :
         /\ d # c => toServer'[d] = toServer[d]
         /\ \A i \in 1..Len(toServer'[d]) :
              \E j \in 1..Len(toServer[d]) : toServer'[d][i] = toServer[d][j]
  BY <1>1, <1>8, CloseOld
<1>14. FlowOK(c)'
  BY <1>1, <1>4, <1>11, <1>12, <1>13, AtRest
<1>15. SharedIsWhole'
  <2> SUFFICES ASSUME NEW k \in shared' PROVE \E q \in Procs : folder'[k] = Content(k[1], q)
    BY DEF SharedIsWhole
  <2>1. CASE k = name
    <3>1. Done(info, n)
      BY <1>2, <1>4, <2>1
    <3> QED
      BY <1>3, <1>7, <2>1, <3>1
  <2>2. CASE k # name
    <3>1. k \in shared
      BY <1>2, <1>3, <2>2 DEF info
    <3>2. k \in Names \ {name}
      BY <2>2, <3>1 DEF Inv, TypeOK, ServerTypeOK
    <3> QED
      BY <1>4, <3>1, <3>2 DEF FlowInv, SharedIsWhole
  <2> QED
    BY <2>1, <2>2
<1> QED
  BY <1>1, <1>11, <1>12, <1>13, <1>14, <1>15, ReceivingFlow

-----------------------------------------------------------------------------
(* The server: downloads *)

(* The units that are read of a file at a place. *)
LEMMA NextUnitsItems ==
  ASSUME NEW file \in Seq(Units), NEW info \in FileInfos
  PROVE  LET units == NextUnits(file, info) IN
         /\ units \in Seq(Units) /\ Len(units) \in 0..Chunk
         /\ Len(units) > 0 => info.current + Len(units) <= Len(file)
         /\ \A i \in 1..Len(units) : units[i] = file[info.current + i]
         /\ AfterRead(info, units).file_name = info.file_name
         /\ AfterRead(info, units).size = info.size
         /\ AfterRead(info, units).current = info.current + Len(units)
<1> DEFINE rest == AllBut(file, info.current)
           units == First(rest, Chunk)
<1>1. info.current \in Nat
  BY DEF FileInfos
<1>2. Chunk \in Nat
  BY BoundsFacts
<1>3. /\ rest \in Seq(Units)
      /\ Len(rest) = IF info.current <= Len(file) THEN Len(file) - info.current ELSE 0
      /\ \A i \in 1..Len(rest) :
           i + info.current \in 1..Len(file) /\ rest[i] = file[i + info.current]
  BY <1>1, AllButFacts
<1> HIDE DEF rest
<1>4. /\ units \in Seq(Units) /\ Len(units) = Lesser(Chunk, Len(rest))
      /\ \A i \in 1..Len(units) : i \in 1..Len(rest) /\ units[i] = rest[i]
  BY <1>2, <1>3, FirstFacts
<1> HIDE DEF units
<1>5. Len(file) \in Nat /\ Len(units) \in Nat /\ Len(rest) \in Nat
  BY <1>3, <1>4
<1>6. Len(units) \in 0..Chunk /\ Len(units) <= Len(rest)
  BY <1>2, <1>4, <1>5, LesserFacts
<1>7. Len(units) > 0 => info.current + Len(units) <= Len(file)
  BY <1>1, <1>3, <1>5, <1>6
<1>8. \A i \in 1..Len(units) : units[i] = file[info.current + i]
  <2> SUFFICES ASSUME NEW i \in 1..Len(units) PROVE units[i] = file[info.current + i]
    OBVIOUS
  <2>1. units[i] = file[i + info.current]
    BY <1>3, <1>4
  <2>2. i + info.current = info.current + i
    BY <1>1
  <2> QED
    BY <2>1, <2>2
<1>9. /\ AfterRead(info, units).file_name = info.file_name
      /\ AfterRead(info, units).size = info.size
      /\ AfterRead(info, units).current = info.current + Len(units)
  <2>1. AfterRead(info, units)
          = [info EXCEPT !.current = @ + Len(units), !.eof = Len(units) < Chunk]
    BY DEF AfterRead
  <2> DEFINE e == Len(units) < Chunk
  <2>2. /\ [info EXCEPT !.current = @ + Len(units), !.eof = e].file_name = info.file_name
        /\ [info EXCEPT !.current = @ + Len(units), !.eof = e].size = info.size
        /\ [info EXCEPT !.current = @ + Len(units), !.eof = e].current
             = info.current + Len(units)
    <3> HIDE DEF e
    <3> QED
      BY DEF FileInfos
  <2> QED
    BY <2>1, <2>2
<1> QED
  BY <1>4, <1>6, <1>7, <1>8, <1>9 DEF NextUnits, units, rest

(* What is written to a connection that downloads is written whole, and goes   *)
(* on where the client will be when it has read what is under way.             *)
LEMMA SendChunkFlow ==
  ASSUME Inv, Inv', FlowInv, UNCHANGED clientVars,
         NEW c \in Conns, SendChunk(c)
  PROVE  FlowInv'
<1> DEFINE info == sending[c]
           units == NextUnits(folder[info.file_name], info)
           S == IF units = <<>> THEN {} ELSE {c}
<1>1. /\ InUse(info) /\ CanWrite(c)
      /\ sending' = [sending EXCEPT ![c] = AfterRead(info, units)]
      /\ Write(S, units, FALSE)
      /\ toServer' = toServer /\ receiving' = receiving /\ folder' = folder
      /\ shared' = shared /\ Stored' = Stored
  BY DEF SendChunk, tableVars, Stored
<1>2. info \in FileInfos /\ info.file_name \in Names
  BY <1>1, InUseFacts DEF Inv, TypeOK, ServerTypeOK
<1>3. folder \in [Names -> Seq(Units)] /\ folder[info.file_name] \in Seq(Units)
  <2>1. folder \in [Names -> Seq(Units)]
    BY DEF Inv, TypeOK, ServerTypeOK
  <2> QED
    BY <1>2, <2>1
<1>4. /\ units \in Seq(Units) /\ Len(units) \in 0..Chunk
      /\ Len(units) > 0 => info.current + Len(units) <= Len(folder[info.file_name])
      /\ \A i \in 1..Len(units) : units[i] = folder[info.file_name][info.current + i]
      /\ AfterRead(info, units).file_name = info.file_name
      /\ AfterRead(info, units).current = info.current + Len(units)
  BY <1>2, <1>3, NextUnitsItems
<1>5. S \in SUBSET Conns /\ (c \notin S => Len(units) = 0) /\ \A d \in Conns : d # c => d \notin S
  OBVIOUS
<1> DEFINE after == AfterRead(info, units)
<1> HIDE DEF units, S, after
<1>6. sending'[c] = after /\ \A d \in Conns : d # c => sending'[d] = sending[d]
  BY <1>1 DEF Inv, TypeOK, ServerTypeOK, after
<1>7. StreamsTypeOK /\ units \in Seq(Notices \cup Units)
  BY <1>4 DEF Inv, TypeOK
<1>8. /\ \A d \in Conns : d \notin S \/ far[d] # "open" => toClient'[d] = toClient[d]
      /\ \A d \in Conns : \A i \in 1..Len(toClient'[d]) :
           \/ i \in 1..Len(toClient[d]) /\ toClient'[d][i] = toClient[d][i]
           \/ \E j \in 1..Len(units) : toClient'[d][i] = units[j]
  BY <1>1, <1>5, <1>7, WriteFacts
<1>9. \A i \in 1..Len(toClient'[c]) : toClient'[c][i].type = "put" =>
        \/ \E j \in 1..Len(toClient[c]) : toClient'[c][i] = toClient[c][j]
        \/ toClient'[c][i].file \in Stored'
  BY <1>4, <1>8, UnitFacts
<1>10. ASSUME FolderGrows, NEW d \in Conns, d # c PROVE FlowOK(d)'
  BY <1>1, <1>5, <1>6, <1>8, <1>10, Elsewhere
<1>11. ~InUse(receiving[c]) /\ \A i \in 1..Len(toServer[c]) : toServer[c][i].type = "data"
  BY <1>1, BusyFacts DEF Inv, NearInv, NearOK
<1>12. ASSUME FolderGrows, ~InUse(downloading[c]) PROVE FlowOK(c)'
  <2>1. \A i \in 1..Len(toServer'[c]) :
          \E j \in 1..Len(toServer[c]) : toServer'[c][i] = toServer[c][j]
    BY <1>1
  <2> QED
    BY <1>1, <1>9, <1>11, <1>12, <2>1, AtRest
<1>13. ASSUME FolderGrows, InUse(downloading[c]) PROVE FlowOK(c)'
  <2> DEFINE mine == disk[owner[c]][downloading[c].file_name]
             queue == toClient[c]
  <2>1. PICK name : name = downloading[c].file_name
    OBVIOUS
  <2>2. AskedOK(c) /\ UploadOK(c) /\ ReceiveOK(c) /\ DownloadOK(c) /\ NoticeOK(c)
    BY DEF FlowInv, ConnOK
  <2>3. /\ name \in local_files[owner[c]] /\ name \in Stored
        /\ downloading[c].current = Len(mine)
        /\ Part(mine, folder[name], 0) /\ Part(queue, folder[name], Len(mine))
        /\ info.file_name = name /\ info.current = Len(mine) + Len(queue)
    BY <1>1, <1>13, <2>1, <2>2 DEF DownloadOK
  <2>4. far[c] = "open"
    BY <1>13 DEF Inv, FarInv, FarOK
  <2>5. queue \in Seq(Notices \cup Units) /\ Len(queue) <= Capacity
    BY <1>7 DEF StreamsTypeOK
  <2>6. Len(mine) \in Nat
    <3>1. owner[c] \in Procs /\ name \in Names
      BY <1>2, <1>13, <2>3, OwnerFacts
    <3>2. disk \in [Procs -> [Names -> Seq(Units)]]
      BY DEF Inv, TypeOK, ClientTypeOK
    <3> QED
      BY <2>1, <3>1, <3>2
  <2>7. Len(queue) + Len(units) <= Capacity
    <3>1. Len(queue) + Chunk <= Capacity
      BY <1>1, <2>4 DEF CanWrite, HasRoom
    <3> QED
      BY <1>4, <2>5, <3>1, BoundsFacts
  <2> HIDE DEF mine, queue, info
  <2>8. /\ Len(toClient'[c]) = Len(queue) + Len(units)
        /\ \A i \in 1..Len(toClient'[c]) :
             \/ i \in 1..Len(queue) /\ toClient'[c][i] = queue[i]
             \/ /\ i - Len(queue) \in 1..Len(units)
                /\ toClient'[c][i] = units[i - Len(queue)]
    <3>1. CASE c \in S
      <4>1. toClient'[c] = Fit(queue, units)
        BY <1>1, <2>4, <3>1 DEF Write, queue
      <4>2. Len(Fit(queue, units)) = Len(queue) + Len(units)
        BY <1>7, <2>5, <2>7, FitWhole
      <4>3. \A i \in 1..Len(Fit(queue, units)) :
              \/ i \in 1..Len(queue) /\ Fit(queue, units)[i] = queue[i]
              \/ /\ i - Len(queue) \in 1..Len(units)
                 /\ Fit(queue, units)[i] = units[i - Len(queue)]
        BY <1>7, <2>5, FitFacts
      <4> HIDE DEF Fit
      <4> QED
        BY <4>1, <4>2, <4>3
    <3>2. CASE c \notin S
      <4>1. toClient'[c] = queue /\ Len(units) = 0
        BY <1>5, <1>8, <3>2 DEF queue
      <4>2. Len(queue) \in Nat
        BY <2>5
      <4> QED
        BY <4>1, <4>2
    <3> QED
      BY <3>1, <3>2
  <2>9. Part(toClient'[c], folder[name], Len(mine))
    <3>1. Len(folder[name]) \in Nat /\ Len(queue) \in Nat /\ Len(units) \in Nat
      BY <1>3, <1>4, <2>3, <2>5
    <3>2. Len(mine) + Len(toClient'[c]) <= Len(folder[name])
      BY <1>4, <2>3, <2>6, <2>8, <3>1 DEF Part
    <3>3. ASSUME NEW i \in 1..Len(toClient'[c])
          PROVE  toClient'[c][i] = folder[name][Len(mine) + i]
      <4>1. CASE i \in 1..Len(queue) /\ toClient'[c][i] = queue[i]
        BY <2>3, <4>1 DEF Part
      <4>2. CASE /\ i - Len(queue) \in 1..Len(units)
                 /\ toClient'[c][i] = units[i - Len(queue)]
        <5>1. units[i - Len(queue)] = folder[name][info.current + (i - Len(queue))]
          BY <1>4, <2>3, <4>2
        <5>2. info.current + (i - Len(queue)) = Len(mine) + i
          BY <2>3, <2>6, <3>1
        <5> QED
          BY <4>2, <5>1, <5>2
      <4> QED
        BY <2>8, <4>1, <4>2
    <3> QED
      BY <3>2, <3>3 DEF Part
  <2>10. sending'[c].file_name = name /\ sending'[c].current = Len(mine) + Len(toClient'[c])
    <3>1. Len(queue) \in Nat /\ Len(units) \in Nat
      BY <1>4, <2>5
    <3> QED
      BY <1>4, <1>6, <2>3, <2>6, <2>8, <3>1 DEF after
  <2>11. owner' = owner /\ downloading' = downloading /\ disk' = disk
         /\ local_files' = local_files /\ uploading' = uploading
    BY DEF clientVars
  <2>12. DownloadOK(c)'
    BY <1>1, <2>1, <2>3, <2>9, <2>10, <2>11 DEF DownloadOK, mine
  <2>13. AskedOK(c)'
    BY <1>1, <1>11, <2>2, <2>11, AskedStays
  <2>14. UploadOK(c)' /\ ReceiveOK(c)'
    BY <1>1, <2>2, <2>11, KeptSame, UploadStays, ReceiveStays
  <2>15. NoticeOK(c)'
    BY <1>1, <1>9, <2>2, NoticeStays
  <2> QED
    BY <2>12, <2>13, <2>14, <2>15 DEF FlowOK
<1> QED
  BY <1>1, <1>10, <1>12, <1>13, FolderLeftAlone

LEMMA ServerFlow ==
  ASSUME Apart, Inv, Inv', PacedInv, SharedInv, FlowInv,
         NEW c \in Conns, Server(c)
  PROVE  FlowInv'
<1>1. UNCHANGED clientVars
  BY DEF Server
<1>2. CASE Hangup(c)
  BY <1>1, <1>2, DisconnectFlow DEF Hangup
<1>3. ASSUME NEW n \in 1..Len(toServer[c]), Leave(c, n) PROVE FlowInv'
  BY <1>1, <1>3, DisconnectFlow DEF Leave, Reads
<1>4. CASE HandleClient(c)
  BY <1>1, <1>2, <1>3, <1>4, IgnoreFlow, NameFlow, GetFlow, PutFlow, NothingCoalesces
     DEF HandleClient
<1>5. CASE ReceiveFile(c)
  BY <1>1, <1>5, ReceiveMoreFlow, FinishReceiveFlow DEF ReceiveFile
<1>6. CASE SendFile(c)
  BY <1>1, <1>6, SendChunkFlow, FinishSendFlow DEF SendFile
<1> QED
  BY <1>1, <1>4, <1>5, <1>6, AcceptFlow DEF Server, ServerStep

-----------------------------------------------------------------------------
(* The clients: what their steps have in common *)

LEMMA NothingNew ==
  ASSUME Inv, UNCHANGED serverVars
  PROVE  FolderGrows
<1>1. folder \in [Names -> Seq(Units)] /\ Stored \subseteq Names
  BY StoredFacts DEF Inv, TypeOK, ServerTypeOK
<1>2. folder' = folder /\ Stored' = Stored
  BY DEF serverVars, tableVars, Stored
<1> QED
  BY <1>1, <1>2, GrownSame

(* A connection over which its client begins and moves nothing: it may close   *)
(* it, read notifications from it, or write commands to it.                    *)
LEMMA ClientAtRest ==
  ASSUME Inv, Inv', FlowInv, UNCHANGED serverVars, Keeps, NEW c \in Conns,
         toServer'[c] = toServer[c] \/ (~InUse(receiving[c]) /\ Adds(c)),
         ~InUse(uploading'[c]) \/ (uploading'[c] = uploading[c] /\ owner'[c] = owner[c]),
         \/ ~InUse(downloading'[c])
         \/ /\ downloading'[c] = downloading[c] /\ owner'[c] = owner[c]
            /\ toClient'[c] = toClient[c]
            /\ disk'[owner[c]][downloading[c].file_name]
                 = disk[owner[c]][downloading[c].file_name],
         \A i \in 1..Len(toClient'[c]) :
           \E j \in 1..Len(toClient[c]) : toClient'[c][i] = toClient[c][j]
  PROVE  FlowOK(c)'
<1>1. AskedOK(c) /\ UploadOK(c) /\ ReceiveOK(c) /\ DownloadOK(c) /\ NoticeOK(c)
  BY DEF FlowInv, ConnOK
<1>2. receiving' = receiving /\ sending' = sending /\ folder' = folder
      /\ Stored' = Stored
  BY DEF serverVars, tableVars, Stored
<1>3. KeptStays /\ FolderGrows
  BY KeptFiles, NothingNew
<1>4. \A i \in 1..Len(toServer'[c]) :
        \/ \E j \in 1..Len(toServer[c]) : toServer'[c][i] = toServer[c][j]
        \/ toServer'[c][i].type \notin {"put", "get"}
  BY DEF Adds
<1>5. AskedOK(c)'
  BY <1>1, <1>4, AskedStays
<1>6. UploadOK(c)'
  BY <1>1, <1>3, UploadStays
<1>7. ReceiveOK(c)'
  BY <1>1, <1>2, <1>3, ReceiveStays
<1>8. DownloadOK(c)'
  <2> SUFFICES ASSUME InUse(downloading'[c]) PROVE DownloadOK(c)'
    BY DEF DownloadOK
  <2>1. owner[c] \in Procs
    BY OwnerFacts
  <2>2. local_files[owner[c]] \subseteq local_files'[owner[c]]
    BY <2>1 DEF Keeps
  <2> QED
    BY <1>1, <1>2, <1>3, <2>2, DownloadStays
<1>9. NoticeOK(c)'
  BY <1>1, <1>2, NoticeStays
<1> QED
  BY <1>5, <1>6, <1>7, <1>8, <1>9 DEF FlowOK

(* A client's step, from what it does to the connections and the directories.  *)
LEMMA ClientFrame ==
  ASSUME FlowInv, UNCHANGED serverVars, Keeps,
         \A c \in Conns : FlowOK(c)' /\ OnceOK(c)',
         \A p \in Procs, n \in Names : LocalOK(p, n)'
  PROVE  FlowInv'
<1>1. shared' = shared /\ folder' = folder /\ Stored' = Stored
  BY DEF serverVars, tableVars, Stored
<1>2. \A n \in Names : FolderOK(n)'
  BY <1>1, KeptFiles, FolderStays DEF FlowInv
<1>3. SharedIsWhole'
  BY <1>1 DEF FlowInv, SharedIsWhole
<1> QED
  BY <1>1, <1>2, <1>3 DEF FlowInv, FlowOK, ConnOK

(* A step that leaves the directories alone and opens no connection.           *)
LEMMA SilentFlow ==
  ASSUME Inv, Inv', FlowInv, UNCHANGED serverVars,
         disk' = disk, local_files' = local_files,
         \A c \in Conns :
           /\ toServer'[c] = toServer[c] \/ (~InUse(receiving[c]) /\ Adds(c))
           /\ ~InUse(uploading'[c]) \/ (uploading'[c] = uploading[c] /\ owner'[c] = owner[c])
           /\ \/ ~InUse(downloading'[c])
              \/ /\ downloading'[c] = downloading[c] /\ owner'[c] = owner[c]
                 /\ toClient'[c] = toClient[c]
           /\ \A i \in 1..Len(toClient'[c]) :
                \E j \in 1..Len(toClient[c]) : toClient'[c][i] = toClient[c][j]
           /\ owner'[c] \in {owner[c], NoProc}
  PROVE  FlowInv'
<1>1. Keeps
  <2> SUFFICES ASSUME NEW p \in Procs, NEW c \in Conns, owner'[c] = p
               PROVE  \/ owner[c] = p /\ downloading'[c].file_name = downloading[c].file_name
                      \/ downloading'[c].file_name \notin local_files[p]
    BY DEF Keeps
  <2>1. owner[c] = p
    BY DropboxClientAssumption DEF DropboxClientAssumption, NoProc
  <2>2. NoName \notin local_files[p]
    BY NoNameIsNone DEF Inv, TypeOK, ClientTypeOK
  <2> QED
    BY <2>1, <2>2 DEF InUse
<1>2. \A c \in Conns : FlowOK(c)'
  BY <1>1, ClientAtRest
<1>3. \A c \in Conns : OnceOK(c)'
  BY OnceStays DEF FlowInv, ConnOK
<1>4. FolderGrows
  BY NothingNew
<1>5. \A p \in Procs, n \in Names : LocalOK(p, n)'
  BY <1>4, LocalStays DEF FlowInv
<1> QED
  BY <1>1, <1>2, <1>3, <1>5, ClientFrame

-----------------------------------------------------------------------------
(* The clients: steps that move no data *)

(* Closed connections hold nothing for their client. *)
LEMMA ReleaseLeaves ==
  ASSUME Inv, NEW S \in SUBSET Conns, NEW unread, Release(S, unread)
  PROVE  \A c \in Conns :
           /\ c \notin S => owner'[c] = owner[c] /\ toClient'[c] = toClient[c]
           /\ owner'[c] \in {owner[c], NoProc}
           /\ \A i \in 1..Len(toClient'[c]) :
                \E j \in 1..Len(toClient[c]) : toClient'[c][i] = toClient[c][j]
<1>1. /\ toClient' = [c \in Conns |-> IF c \in S THEN <<>> ELSE toClient[c]]
      /\ owner' = [c \in Conns |-> IF c \in S THEN NoProc ELSE owner[c]]
  BY DEF Release, CloseFar
<1> SUFFICES ASSUME NEW c \in Conns
             PROVE  /\ c \notin S => owner'[c] = owner[c] /\ toClient'[c] = toClient[c]
                    /\ owner'[c] \in {owner[c], NoProc}
                    /\ \A i \in 1..Len(toClient'[c]) :
                         \E j \in 1..Len(toClient[c]) : toClient'[c][i] = toClient[c][j]
  OBVIOUS
<1>2. CASE c \in S
  <2>1. toClient'[c] = <<>>
    BY <1>1, <1>2
  <2>2. Len(toClient'[c]) = 0
    BY <2>1
  <2>3. \A i \in 1..Len(toClient'[c]) : FALSE
    BY <2>2
  <2> QED
    BY <1>1, <1>2, <2>3
<1>3. CASE c \notin S
  BY <1>1, <1>3
<1> QED
  BY <1>2, <1>3

LEMMA FinishUploadFlow ==
  ASSUME Inv, Inv', FlowInv, UNCHANGED serverVars,
         NEW c \in Conns, FinishUpload(c)
  PROVE  FlowInv'
<1>1. /\ uploading' = [uploading EXCEPT ![c] = NoFile] /\ Release({c}, {})
      /\ toServer' = toServer /\ disk' = disk /\ local_files' = local_files
      /\ downloading' = downloading /\ InUse(uploading[c])
  BY DEF FinishUpload
<1>2. \A d \in Conns :
        /\ d \notin {c} => owner'[d] = owner[d] /\ toClient'[d] = toClient[d]
        /\ owner'[d] \in {owner[d], NoProc}
        /\ \A i \in 1..Len(toClient'[d]) :
             \E j \in 1..Len(toClient[d]) : toClient'[d][i] = toClient[d][j]
  BY <1>1, ReleaseLeaves
<1>3. ~InUse(uploading'[c]) /\ \A d \in Conns : d # c => uploading'[d] = uploading[d]
  BY <1>1, NoFileFacts DEF Inv, TypeOK, ClientTypeOK
<1>4. ~InUse(downloading'[c])
  BY <1>1 DEF Inv, FarInv, FarOK
<1>5. \A d \in Conns :
        /\ ~InUse(uploading'[d]) \/ (uploading'[d] = uploading[d] /\ owner'[d] = owner[d])
        /\ \/ ~InUse(downloading'[d])
           \/ /\ downloading'[d] = downloading[d] /\ owner'[d] = owner[d]
              /\ toClient'[d] = toClient[d]
  BY <1>1, <1>2, <1>3, <1>4
<1> QED
  BY <1>1, <1>2, <1>5, SilentFlow

LEMMA DieFlow ==
  ASSUME Inv, Inv', FlowInv, UNCHANGED serverVars,
         NEW p \in Procs, Die(p),
         \A c \in Conns : toServer'[c] = toServer[c] \/ (~InUse(receiving[c]) /\ Adds(c))
  PROVE  FlowInv'
<1> DEFINE unread == {c \in Conns : toClient[c] # <<>>}
<1>1. /\ uploading' = [c \in Conns |-> IF c \in Mine(p) THEN NoFile ELSE uploading[c]]
      /\ downloading' = [c \in Conns |-> IF c \in Mine(p) THEN NoFile ELSE downloading[c]]
      /\ Release(Mine(p), unread)
      /\ disk' = disk /\ local_files' = local_files
  BY DEF Die
<1>2. Mine(p) \in SUBSET Conns
  BY DEF Mine
<1> HIDE DEF unread
<1>3. \A d \in Conns :
        /\ d \notin Mine(p) => owner'[d] = owner[d] /\ toClient'[d] = toClient[d]
        /\ owner'[d] \in {owner[d], NoProc}
        /\ \A i \in 1..Len(toClient'[d]) :
             \E j \in 1..Len(toClient[d]) : toClient'[d][i] = toClient[d][j]
  BY <1>1, <1>2, ReleaseLeaves
<1>4. \A c \in Conns :
        IF c \in Mine(p) THEN ~InUse(uploading'[c]) /\ ~InUse(downloading'[c])
        ELSE uploading'[c] = uploading[c] /\ downloading'[c] = downloading[c]
  BY <1>1, NoFileFacts
<1>5. \A d \in Conns :
        /\ ~InUse(uploading'[d]) \/ (uploading'[d] = uploading[d] /\ owner'[d] = owner[d])
        /\ \/ ~InUse(downloading'[d])
           \/ /\ downloading'[d] = downloading[d] /\ owner'[d] = owner[d]
              /\ toClient'[d] = toClient[d]
  BY <1>3, <1>4
<1> QED
  BY <1>1, <1>3, <1>5, SilentFlow

(* A command goes to the connection for commands. *)
LEMMA TellAdds ==
  ASSUME Inv, NEW p \in Procs, state[p] = "connected", NEW type \in {"sleep", "exit"},
         Tell(p, type)
  PROVE  \A c \in Conns : toServer'[c] = toServer[c] \/ (~InUse(receiving[c]) /\ Adds(c))
<1>1. PICK k : k = fd_cmd[p]
  OBVIOUS
<1>2. k \in Conns /\ ~InUse(receiving[k])
  BY <1>1 DEF Inv, ProcsInv, ProcOK, Idle
<1>3. \A c \in Conns : Adds(c)
  BY TellFacts
<1>4. \A d \in Conns : d # k => toServer'[d] = toServer[d]
  BY <1>1 DEF Tell, Inv, TypeOK, StreamsTypeOK
<1> QED
  BY <1>2, <1>3, <1>4

LEMMA TypeSleepFlow ==
  ASSUME Inv, Inv', FlowInv, UNCHANGED serverVars,
         NEW p \in Procs, TypeSleep(p)
  PROVE  FlowInv'
<1>1. /\ state[p] = "connected" /\ Tell(p, "sleep") /\ toClient' = toClient
      /\ uploading' = uploading /\ downloading' = downloading /\ owner' = owner
      /\ disk' = disk /\ local_files' = local_files
  BY DEF TypeSleep, clientVars
<1>2. \A c \in Conns : toServer'[c] = toServer[c] \/ (~InUse(receiving[c]) /\ Adds(c))
  BY <1>1, TellAdds
<1> QED
  BY <1>1, <1>2, SilentFlow

LEMMA ReadKnownFlow ==
  ASSUME Inv, Inv', FlowInv, UNCHANGED serverVars,
         NEW p \in Procs, NEW n \in 1..Capacity, ReadKnown(p, n)
  PROVE  FlowInv'
<1>1. /\ Response(p, n) /\ toServer' = toServer
      /\ uploading' = uploading /\ downloading' = downloading /\ owner' = owner
      /\ disk' = disk /\ local_files' = local_files
  BY DEF ReadKnown, clientVars
<1>2. LeavesPart
  BY <1>1, ResponseFacts
<1>3. PICK k : k = fd_cmd[p]
  OBVIOUS
<1>4. k \in Conns /\ ~InUse(downloading[k])
  BY <1>1, <1>3 DEF Response, Inv, ProcsInv, ProcOK, Idle
<1>5. \A d \in Conns : d # k => toClient'[d] = toClient[d]
  BY <1>1, <1>3 DEF Response, Inv, TypeOK, StreamsTypeOK
<1> QED
  BY <1>1, <1>2, <1>4, <1>5, SilentFlow DEF LeavesPart

-----------------------------------------------------------------------------
(* The clients: connections are opened *)

(* What a client begins to download is new to it. *)
LEMMA OpenKeepsFiles ==
  ASSUME Inv, NEW p \in Procs, NEW line \in Requests, Open(p, line),
         \A q \in Procs : local_files[q] \subseteq local_files'[q],
         \A q \in Procs : \A n \in local_files[q] : disk'[q][n] = disk[q][n],
         \A d \in Conns : d # Fresh => downloading'[d] = downloading[d],
         downloading'[Fresh].file_name \notin local_files[p]
  PROVE  Keeps
<1>1. PICK k : k = Fresh /\ owner'[k] = p
               /\ \A d \in Conns : d # k => owner'[d] = owner[d]
  BY OpenFacts
<1>2. ASSUME NEW q \in Procs, NEW d \in Conns, owner'[d] = q
      PROVE  \/ owner[d] = q /\ downloading'[d].file_name = downloading[d].file_name
             \/ downloading'[d].file_name \notin local_files[q]
  BY <1>1, <1>2
<1> QED
  BY <1>2 DEF Keeps

LEMMA OpenOnce ==
  ASSUME Inv, FlowInv, NEW p \in Procs, NEW line \in Requests,
         Open(p, line),
         \A d \in Conns : d # Fresh => downloading'[d] = downloading[d],
         downloading'[Fresh].file_name \notin local_files[p]
  PROVE  \A c \in Conns : OnceOK(c)'
<1>1. PICK k : k = Fresh /\ owner'[k] = p
               /\ \A d \in Conns : d # k => owner'[d] = owner[d]
  BY OpenFacts
<1>2. \A d \in Conns :
        InUse(downloading[d]) => downloading[d].file_name \in local_files[owner[d]]
  BY DEF FlowInv, ConnOK, DownloadOK
<1> SUFFICES ASSUME NEW c \in Conns, NEW d \in Conns \ {c}, InUse(downloading'[c]),
                    owner'[d] = owner'[c]
             PROVE  downloading'[d].file_name # downloading'[c].file_name
  BY DEF OnceOK
<1>3. CASE c = k
  <2>1. owner[d] = p /\ downloading'[d] = downloading[d]
    BY <1>1, <1>3
  <2> QED
    BY <1>1, <1>2, <1>3, <2>1 DEF InUse
<1>4. CASE d = k
  <2>1. owner[c] = p /\ downloading'[c] = downloading[c]
    BY <1>1, <1>4
  <2> QED
    BY <1>1, <1>2, <1>4, <2>1
<1>5. CASE c # k /\ d # k
  <2>1. /\ owner'[c] = owner[c] /\ owner'[d] = owner[d]
        /\ downloading'[c] = downloading[c] /\ downloading'[d] = downloading[d]
    BY <1>1, <1>5
  <2>2. OnceOK(c)
    BY DEF FlowInv, ConnOK
  <2> QED
    BY <2>1, <2>2 DEF OnceOK
<1> QED
  BY <1>3, <1>4, <1>5

(* The other connections go on as they were. *)
LEMMA OpenedElsewhere ==
  ASSUME Inv, Inv', FlowInv, UNCHANGED serverVars, Keeps,
         NEW p \in Procs, NEW line \in Requests, Open(p, line), LeavesPart,
         \A d \in Conns : d # Fresh =>
           uploading'[d] = uploading[d] /\ downloading'[d] = downloading[d],
         \A d \in Conns : InUse(downloading[d]) =>
           /\ toClient'[d] = toClient[d]
           /\ disk'[owner[d]][downloading[d].file_name]
                = disk[owner[d]][downloading[d].file_name]
  PROVE  \A d \in Conns : d # Fresh => FlowOK(d)'
<1> SUFFICES ASSUME NEW d \in Conns, d # Fresh PROVE FlowOK(d)'
  OBVIOUS
<1>1. owner'[d] = owner[d] /\ toServer'[d] = toServer[d]
  BY OpenFacts
<1>2. \A i \in 1..Len(toClient'[d]) :
        \E j \in 1..Len(toClient[d]) : toClient'[d][i] = toClient[d][j]
  BY DEF LeavesPart
<1>3. uploading'[d] = uploading[d] /\ downloading'[d] = downloading[d]
  OBVIOUS
<1> QED
  BY <1>1, <1>2, <1>3, ClientAtRest

(* The new connection has nothing on it but the request. *)
LEMMA OpenedHere ==
  ASSUME Inv, UNCHANGED serverVars, LeavesPart, Usable # {},
         NEW k, k = Fresh, AskedOK(k)', UploadOK(k)', DownloadOK(k)'
  PROVE  FlowOK(k)'
<1>1. k \in Conns /\ Idle(k) /\ Len(toClient[k]) = 0
  BY FreshFacts
<1>2. ReceiveOK(k)'
  BY <1>1 DEF Idle, ReceiveOK, serverVars
<1>3. NoticeOK(k)'
  <2>1. Len(toClient'[k]) <= 0 /\ Len(toClient'[k]) \in Nat
    BY <1>1 DEF LeavesPart
  <2> QED
    BY <2>1 DEF NoticeOK
<1> QED
  BY <1>2, <1>3 DEF FlowOK

LEMMA StartFlow ==
  ASSUME Inv, Inv', FlowInv, UNCHANGED serverVars,
         NEW p \in Procs, Start(p)
  PROVE  FlowInv'
<1> DEFINE line == [type |-> "name", user |-> UserOf[p]]
<1>1. /\ Open(p, line) /\ toClient' = toClient /\ local_files' = local_files
      /\ uploading' = uploading /\ downloading' = downloading /\ disk' = disk
  BY DEF Start
<1>2. line \in Requests /\ line.type = "name"
  BY LineFacts, DropboxAssumption DEF DropboxAssumption
<1> HIDE DEF line
<1>3. PICK k : /\ k = Fresh /\ Usable # {}
               /\ Len(toServer'[k]) = 1 /\ toServer'[k][1] = line
  BY <1>1, <1>2, OpenFacts
<1>4. k \in Conns /\ ~InUse(uploading'[k]) /\ ~InUse(downloading'[k])
  BY <1>1, <1>3, FreshFacts DEF Idle
<1>5. downloading'[k].file_name \notin local_files[p]
  <2>1. NoName \notin local_files[p]
    BY NoNameIsNone DEF Inv, TypeOK, ClientTypeOK
  <2> QED
    BY <1>4, <2>1 DEF InUse
<1>6. Keeps
  BY <1>1, <1>2, <1>3, <1>5, OpenKeepsFiles
<1>7. \A c \in Conns : OnceOK(c)'
  BY <1>1, <1>2, <1>3, <1>5, OpenOnce
<1>8. LeavesPart
  BY <1>1, LeavesAll DEF Inv, TypeOK
<1>9. \A d \in Conns : d # k => FlowOK(d)'
  BY <1>1, <1>2, <1>3, <1>6, <1>8, OpenedElsewhere
<1>10. AskedOK(k)'
  BY <1>2, <1>3 DEF AskedOK
<1>11. UploadOK(k)' /\ DownloadOK(k)'
  BY <1>4 DEF UploadOK, DownloadOK
<1>12. FlowOK(k)'
  BY <1>3, <1>8, <1>10, <1>11, OpenedHere
<1>13. FolderGrows
  BY NothingNew
<1>14. \A q \in Procs, m \in Names : LocalOK(q, m)'
  BY <1>1, <1>13, LocalStays DEF FlowInv
<1>15. \A d \in Conns : FlowOK(d)' /\ OnceOK(d)'
  BY <1>7, <1>9, <1>12
<1> QED
  BY <1>6, <1>14, <1>15, ClientFrame

(* What is put is the client's own file, and is not downloaded at the time. *)
LEMMA PutIsKept ==
  ASSUME Inv, FlowInv, NEW p \in Procs, NEW f \in Files,
         disk[p][<<f, 0>>] = Content(f, p), SizeOf[f] > 0,
         NEW c \in Conns, owner[c] = p
  PROVE  downloading[c].file_name # <<f, 0>>
<1> DEFINE n == <<f, 0>>
<1> SUFFICES ASSUME downloading[c].file_name = n PROVE FALSE
  OBVIOUS
<1>1. n \in Names /\ n[1] = f
  BY FileHasName
<1> HIDE DEF n
<1>2. Part(Content(f, p), folder[n], 0)
  <2>1. InUse(downloading[c])
    BY <1>1, NoNameIsNone DEF InUse
  <2>2. Part(disk[owner[c]][downloading[c].file_name], folder[downloading[c].file_name], 0)
    BY <2>1 DEF FlowInv, ConnOK, DownloadOK
  <2> QED
    BY <2>2 DEF n
<1>3. /\ Len(Content(f, p)) = SizeOf[f] /\ SizeOf[f] \in Nat
      /\ \A i \in 1..SizeOf[f] : Content(f, p)[i] = Unit(f, p, i)
  BY ContentItems, SizeFacts
<1> HIDE DEF Content
<1>4. 1 \in 1..SizeOf[f]
  BY <1>3
<1>5. folder[n] \in Seq(Units)
  BY <1>1 DEF Inv, TypeOK, ServerTypeOK
<1>6. 1 \in 1..Len(folder[n]) /\ folder[n][0 + 1] = Unit(f, p, 1)
  <2>1. 0 + SizeOf[f] <= Len(folder[n])
    BY <1>2, <1>3 DEF Part
  <2>2. Content(f, p)[1] = folder[n][0 + 1]
    BY <1>2, <1>3, <1>4 DEF Part
  <2> QED
    BY <1>3, <1>4, <1>5, <2>1, <2>2
<1>7. PICK q \in Procs : Follow(folder[n], f, q, 0) /\ Kept(q, f)
  <2>1. folder[n] # <<>>
    BY <1>5, <1>6
  <2> QED
    BY <1>1, <2>1 DEF FlowInv, FolderOK
<1>8. folder[n][1] = Unit(f, q, 0 + 1)
  BY <1>6, <1>7 DEF Follow
<1>9. p = q
  <2>1. Unit(f, p, 1) = Unit(f, q, 0 + 1)
    BY <1>6, <1>8
  <2> QED
    BY <2>1, UnitsDiffer
<1> QED
  BY <1>7, <1>9 DEF Kept, n

LEMMA TypePutFlow ==
  ASSUME Inv, Inv', FlowInv, UNCHANGED serverVars,
         NEW p \in Procs, NEW f \in Files, TypePut(p, f)
  PROVE  FlowInv'
<1>1. PICK name \in Names : name = <<f, 0>> /\ name[1] = f /\ name[2] = 0
  BY FileHasName
<1>2. PICK size \in Nat : size = SizeOf[f] /\ size = Len(disk[p][name])
  <2>1. Len(Content(f, p)) = SizeOf[f] /\ SizeOf[f] \in Nat
    BY ContentItems, SizeFacts
  <2>2. disk[p][name] = Content(f, p)
    BY <1>1 DEF TypePut
  <2> QED
    BY <2>1, <2>2
<1> DEFINE line == PutLine(name, size, UserOf[p])
           info == FileInfo(name, size)
<1>3. /\ Open(p, line) /\ disk[p][name] = Content(f, p)
      /\ uploading' = [uploading EXCEPT ![Fresh] = info]
      /\ local_files' = [local_files EXCEPT ![p] = @ \cup {name}]
      /\ toClient' = toClient /\ downloading' = downloading /\ disk' = disk
  BY <1>1, <1>2 DEF TypePut
<1>4. /\ line \in Requests /\ line.type = "put" /\ line.file = name
      /\ line.size = size /\ line.user = UserOf[p]
  BY LineFacts, DropboxAssumption DEF DropboxAssumption, PutLine
<1>5. info.file_name = name /\ info.size = size
  BY FileInfoFacts
<1> HIDE DEF line, info
<1>6. PICK k : /\ k = Fresh /\ Usable # {} /\ owner'[k] = p
               /\ Len(toServer'[k]) = 1 /\ toServer'[k][1] = line
               /\ \A d \in Conns : d # k => owner'[d] = owner[d]
  BY <1>3, <1>4, OpenFacts
<1>7. k \in Conns /\ ~InUse(downloading'[k])
  BY <1>3, <1>6, FreshFacts DEF Idle
<1>8. uploading'[k] = info /\ \A d \in Conns : d # k => uploading'[d] = uploading[d]
  BY <1>3, <1>6, <1>7 DEF Inv, TypeOK, ClientTypeOK
<1>9. /\ local_files'[p] = local_files[p] \cup {name}
      /\ \A q \in Procs : q # p => local_files'[q] = local_files[q]
  BY <1>3 DEF Inv, TypeOK, ClientTypeOK
<1>10. downloading'[k].file_name \notin local_files[p]
  <2>1. NoName \notin local_files[p]
    BY NoNameIsNone DEF Inv, TypeOK, ClientTypeOK
  <2> QED
    BY <1>7, <2>1 DEF InUse
<1>11. Keeps
  BY <1>3, <1>4, <1>6, <1>9, <1>10, OpenKeepsFiles
<1>12. \A c \in Conns : OnceOK(c)'
  BY <1>3, <1>4, <1>6, <1>10, OpenOnce
<1>13. LeavesPart
  BY <1>3, LeavesAll DEF Inv, TypeOK
<1>14. \A d \in Conns : d # k => FlowOK(d)'
  BY <1>3, <1>4, <1>6, <1>8, <1>11, <1>13, OpenedElsewhere
<1>15. AskedOK(k)'
  <2>1. \E q \in Procs : line.user = UserOf[q]
    BY <1>4
  <2>2. uploading'[k].file_name = <<line.file[1], 0>>
    BY <1>1, <1>4, <1>5, <1>8
  <2>3. line.type # "get" /\ line.size = SizeOf[line.file[1]]
    BY <1>1, <1>2, <1>4
  <2>4. \A i \in 1..Len(toServer'[k]) : toServer'[k][i] = line
    BY <1>6
  <2> QED
    BY <2>1, <2>2, <2>3, <2>4 DEF AskedOK
<1>16. Kept(p, f)'
  <2> SUFFICES ASSUME SizeOf[f] > 0 PROVE Kept(p, f)'
    BY DEF Kept
  <2>1. ASSUME NEW c \in Conns, owner'[c] = p PROVE downloading'[c].file_name # <<f, 0>>
    <3>1. CASE c = k
      BY <1>1, <1>7, <3>1, NoNameIsNone DEF InUse
    <3>2. CASE c # k
      <4>1. owner[c] = p /\ downloading'[c] = downloading[c]
        BY <1>3, <1>6, <2>1, <3>2
      <4> QED
        BY <1>1, <1>3, <4>1, PutIsKept
    <3> QED
      BY <3>1, <3>2
  <2> QED
    BY <1>1, <1>3, <1>9, <2>1 DEF Kept
<1>17. UploadOK(k)' /\ DownloadOK(k)'
  <2>1. uploading'[k].file_name[1] = f /\ uploading'[k].file_name[2] = 0
        /\ uploading'[k].size = SizeOf[f]
    BY <1>1, <1>2, <1>5, <1>8
  <2> QED
    BY <1>6, <1>7, <1>16, <2>1 DEF UploadOK, DownloadOK
<1>18. FlowOK(k)'
  BY <1>6, <1>13, <1>15, <1>17, OpenedHere
<1>19. FolderGrows
  BY NothingNew
<1>20. ASSUME NEW q \in Procs, NEW m \in Names PROVE LocalOK(q, m)'
  <2>1. CASE q = p /\ m = name
    BY <1>1, <1>3, <1>9, <2>1 DEF LocalOK
  <2>2. CASE q # p \/ m # name
    <3>1. m \in local_files'[q] <=> m \in local_files[q]
      BY <1>9, <2>2
    <3> QED
      BY <1>3, <1>19, <3>1, LocalStays DEF FlowInv
  <2> QED
    BY <2>1, <2>2
<1>21. \A d \in Conns : FlowOK(d)' /\ OnceOK(d)'
  BY <1>12, <1>14, <1>18
<1> QED
  BY <1>11, <1>20, <1>21, ClientFrame

LEMMA ReadNewFlow ==
  ASSUME Inv, Inv', FlowInv, UNCHANGED serverVars,
         NEW p \in Procs, NEW n \in 1..Capacity, ReadNew(p, n)
  PROVE  FlowInv'
<1> DEFINE head == Head(toClient[fd_cmd[p]])
<1>1. /\ Response(p, n) /\ head.type = "put" /\ head.file \notin local_files[p]
      /\ Open(p, [type |-> "get", file |-> head.file])
      /\ downloading' = [downloading EXCEPT ![Fresh] = FileInfo(head.file, head.size)]
      /\ local_files' = [local_files EXCEPT ![p] = @ \cup {head.file}]
      /\ disk' = [disk EXCEPT ![p][head.file] = <<>>] /\ uploading' = uploading
  BY DEF ReadNew
<1>2. LeavesPart /\ fd_cmd[p] \in Conns /\ head \in Notices \cup Units
  BY <1>1, ResponseFacts
<1>3. PICK cmd \in Conns : cmd = fd_cmd[p] /\ ~InUse(downloading[cmd])
  <2>1. ~InUse(downloading[fd_cmd[p]])
    BY <1>1 DEF Response, Inv, ProcsInv, ProcOK, Idle
  <2> QED
    BY <1>2, <2>1
<1>4. \A d \in Conns : d # cmd => toClient'[d] = toClient[d]
  BY <1>1, <1>3 DEF Response, Inv, TypeOK, StreamsTypeOK
<1>5. head.file \in Stored
  <2>1. toClient[cmd] \in Seq(Notices \cup Units) /\ n \in 1..Len(toClient[cmd])
    BY <1>1, <1>3 DEF Response, Inv, TypeOK, StreamsTypeOK
  <2>2. 1 \in 1..Len(toClient[cmd]) /\ head = toClient[cmd][1]
    BY <1>3, <2>1
  <2>3. NoticeOK(cmd)
    BY DEF FlowInv, ConnOK
  <2> QED
    BY <1>1, <2>2, <2>3 DEF NoticeOK
<1>6. PICK name \in Names : name = head.file
  BY <1>1, <1>2, NoticeFacts
<1>7. PICK size \in Nat : size = head.size
  BY <1>1, <1>2, NoticeFacts
<1> DEFINE line == [type |-> "get", file |-> name]
           info == FileInfo(name, size)
<1>8. /\ name \notin local_files[p] /\ name \in Stored /\ Open(p, line)
      /\ downloading' = [downloading EXCEPT ![Fresh] = info]
      /\ local_files' = [local_files EXCEPT ![p] = @ \cup {name}]
      /\ disk' = [disk EXCEPT ![p][name] = <<>>] /\ uploading' = uploading
  BY <1>1, <1>5, <1>6, <1>7
<1> HIDE DEF head
<1>9. line \in Requests /\ line.type = "get" /\ line.file = name
  BY LineFacts
<1>10. info.file_name = name /\ info.current = 0
  BY FileInfoFacts
<1> HIDE DEF line, info
<1>11. PICK k : /\ k = Fresh /\ Usable # {} /\ owner'[k] = p
                /\ Len(toServer'[k]) = 1 /\ toServer'[k][1] = line
                /\ \A d \in Conns : d # k => owner'[d] = owner[d]
  BY <1>8, <1>9, OpenFacts
<1>12. /\ k \in Conns /\ ~InUse(uploading'[k]) /\ ~InUse(sending[k])
       /\ Len(toClient[k]) = 0
  BY <1>8, <1>11, FreshFacts DEF Idle
<1>13. downloading'[k] = info /\ \A d \in Conns : d # k => downloading'[d] = downloading[d]
  BY <1>8, <1>11, <1>12 DEF Inv, TypeOK, ClientTypeOK
<1>14. /\ local_files'[p] = local_files[p] \cup {name}
       /\ \A q \in Procs : q # p => local_files'[q] = local_files[q]
  BY <1>8 DEF Inv, TypeOK, ClientTypeOK
<1>15. /\ disk'[p][name] = <<>>
       /\ \A m \in Names : m # name => disk'[p][m] = disk[p][m]
       /\ \A q \in Procs : q # p => disk'[q] = disk[q]
  <2>1. disk \in [Procs -> [Names -> Seq(Units)]]
    BY DEF Inv, TypeOK, ClientTypeOK
  <2> QED
    BY <1>8, <2>1
<1>16. downloading'[k].file_name \notin local_files[p]
  BY <1>8, <1>10, <1>13
<1>17. Keeps
  <2>1. ASSUME NEW q \in Procs, NEW m \in local_files[q] PROVE disk'[q][m] = disk[q][m]
    <3>1. m \in Names
      BY <2>1 DEF Inv, TypeOK, ClientTypeOK
    <3> QED
      BY <1>8, <1>15, <2>1, <3>1
  <2> QED
    BY <1>8, <1>9, <1>11, <1>13, <1>14, <1>16, <2>1, OpenKeepsFiles
<1>18. \A c \in Conns : OnceOK(c)'
  BY <1>8, <1>9, <1>11, <1>13, <1>16, OpenOnce
<1>19. ASSUME NEW d \in Conns, InUse(downloading[d])
       PROVE  /\ toClient'[d] = toClient[d]
              /\ disk'[owner[d]][downloading[d].file_name]
                   = disk[owner[d]][downloading[d].file_name]
  <2>1. owner[d] \in Procs /\ downloading[d].file_name \in Names
    BY <1>19, OwnerFacts, InUseFacts DEF Inv, TypeOK, ClientTypeOK
  <2>2. downloading[d].file_name \in local_files[owner[d]]
    BY <1>19 DEF FlowInv, ConnOK, DownloadOK
  <2> QED
    BY <1>3, <1>4, <1>8, <1>15, <1>19, <2>1, <2>2
<1>20. \A d \in Conns : d # k => FlowOK(d)'
  BY <1>2, <1>8, <1>9, <1>11, <1>13, <1>17, <1>19, OpenedElsewhere
<1>21. toClient'[k] = <<>> /\ Len(toClient'[k]) = 0
  <2>1. toClient'[k] \in Seq(Notices \cup Units) /\ Len(toClient'[k]) <= 0
    BY <1>2, <1>12 DEF LeavesPart
  <2> QED
    BY <2>1
<1>22. AskedOK(k)'
  <2>1. line.type # "put"
    BY <1>9
  <2>2. /\ downloading'[k].file_name = line.file /\ downloading'[k].current = 0
        /\ toClient'[k] = <<>>
    BY <1>9, <1>10, <1>13, <1>21
  <2>3. \A i \in 1..Len(toServer'[k]) :
          toServer'[k][i].type # "put" /\ toServer'[k][i].file = downloading'[k].file_name
    BY <1>11, <2>1, <2>2
  <2> QED
    BY <2>2, <2>3 DEF AskedOK
<1>23. ASSUME NEW units, units = <<>> PROVE Part(units, folder[name], 0)
  <2>1. Len(folder[name]) \in Nat
    <3>1. folder \in [Names -> Seq(Units)]
      BY DEF Inv, TypeOK, ServerTypeOK
    <3> QED
      BY <3>1
  <2>2. Len(units) = 0
    BY <1>23
  <2> QED
    BY <2>1, <2>2 DEF Part
<1>24. sending' = sending /\ folder' = folder /\ Stored' = Stored
  BY DEF serverVars, tableVars, Stored
<1>25. UploadOK(k)' /\ DownloadOK(k)'
  <2>1. PICK mine : mine = disk'[p][name] /\ mine = <<>> /\ Len(mine) = 0
    BY <1>15
  <2>2. /\ Part(mine, folder[name], 0) /\ Part(toClient'[k], folder[name], 0)
    BY <1>21, <1>23, <2>1
  <2>3. name \in Stored'
    BY <1>8, <1>24
  <2> QED
    BY <1>8, <1>10, <1>11, <1>12, <1>13, <1>14, <1>24, <2>1, <2>2, <2>3 DEF UploadOK, DownloadOK
<1>26. FlowOK(k)'
  BY <1>2, <1>11, <1>22, <1>25, OpenedHere
<1>27. FolderGrows
  BY NothingNew
<1>28. ASSUME NEW q \in Procs, NEW m \in Names PROVE LocalOK(q, m)'
  <2>1. CASE q = p /\ m = name
    BY <1>8, <1>14, <1>15, <1>23, <1>24, <2>1 DEF LocalOK
  <2>2. CASE q # p \/ m # name
    <3>1. m \in local_files'[q] <=> m \in local_files[q]
      BY <1>14, <2>2
    <3>2. disk'[q][m] = disk[q][m]
      BY <1>15, <2>2
    <3> QED
      BY <1>27, <3>1, <3>2, LocalStays DEF FlowInv
  <2> QED
    BY <2>1, <2>2
<1>29. \A d \in Conns : FlowOK(d)' /\ OnceOK(d)'
  BY <1>18, <1>20, <1>26
<1> QED
  BY <1>17, <1>28, <1>29, ClientFrame

-----------------------------------------------------------------------------
(* The clients: steps that move data *)

(* What a client reads of its own file is what comes next of it. *)
LEMMA UploadChunkFlow ==
  ASSUME ~Slow, Inv, Inv', PacedInv, FlowInv, UNCHANGED serverVars,
         NEW c \in Conns, UploadChunk(c)
  PROVE  FlowInv'
<1>1. PICK p \in Procs : p = owner[c]
  BY OwnerFacts DEF UploadChunk
<1>2. PICK name \in Names, f \in Files : name = uploading[c].file_name /\ f = name[1]
  <2>1. uploading[c].file_name \in Names
    BY InUseFacts DEF UploadChunk, Inv, TypeOK, ClientTypeOK
  <2> QED
    BY <2>1, NameFacts
<1> DEFINE info == uploading[c]
           units == NextUnits(disk[p][name], info)
           after == AfterRead(info, units)
<1>3. /\ InUse(info) /\ info.size > 0 /\ Writable(c) /\ RequestWasRead(c)
      /\ uploading' = [uploading EXCEPT ![c] = after]
      /\ toServer' = [toServer EXCEPT ![c] = Fit(@, units)]
      /\ toClient' = toClient /\ owner' = owner /\ local_files' = local_files
      /\ downloading' = downloading /\ disk' = disk
  BY <1>1, <1>2 DEF UploadChunk
<1>4. /\ name = <<f, 0>> /\ info.size = SizeOf[f] /\ Kept(p, f)
  <2>1. UploadOK(c)
    BY DEF FlowInv, ConnOK
  <2>2. info.file_name[2] = 0 /\ info.size = SizeOf[f] /\ Kept(p, f)
    BY <1>1, <1>2, <1>3, <2>1 DEF UploadOK
  <2> QED
    BY <1>2, <2>2, NameFacts
<1>5. disk[p][name] = Content(f, p)
  BY <1>3, <1>4 DEF Kept
<1>6. /\ Content(f, p) \in Seq(Units) /\ Len(Content(f, p)) = SizeOf[f]
      /\ \A i \in 1..SizeOf[f] : Content(f, p)[i] = Unit(f, p, i)
  BY ContentItems
<1>7. /\ info \in FileInfos /\ info.current \in Nat
  BY InUseFacts DEF Inv, TypeOK, ClientTypeOK
<1>8. /\ units \in Seq(Units) /\ Len(units) \in 0..Chunk
      /\ Len(units) > 0 => info.current + Len(units) <= SizeOf[f]
      /\ \A i \in 1..Len(units) : units[i] = Unit(f, p, info.current + i)
      /\ after.file_name = name /\ after.size = info.size
      /\ after.current = info.current + Len(units)
  <2> HIDE DEF Content, info
  <2>1. /\ units \in Seq(Units) /\ Len(units) \in 0..Chunk
        /\ Len(units) > 0 => info.current + Len(units) <= SizeOf[f]
        /\ \A i \in 1..Len(units) : units[i] = Content(f, p)[info.current + i]
        /\ after.file_name = info.file_name /\ after.size = info.size
        /\ after.current = info.current + Len(units)
    BY <1>5, <1>6, <1>7, NextUnitsItems
  <2> HIDE DEF units, after
  <2>2. ASSUME NEW i \in 1..Len(units) PROVE units[i] = Unit(f, p, info.current + i)
    <3>1. SizeOf[f] \in Nat /\ Len(units) \in Nat
      BY <1>6, <2>1
    <3>2. info.current + i \in 1..SizeOf[f]
      BY <1>7, <2>1, <3>1
    <3> QED
      BY <1>6, <2>1, <3>2
  <2> QED
    BY <1>2, <2>1, <2>2 DEF info
<1> HIDE DEF units, after
<1>9. /\ uploading'[c] = after /\ \A d \in Conns : d # c => uploading'[d] = uploading[d]
  BY <1>3 DEF Inv, TypeOK, ClientTypeOK
<1>10. /\ toServer \in [Conns -> Seq(Requests \cup Units)]
       /\ \A d \in Conns : Len(toServer[d]) <= Capacity
  BY DEF Inv, TypeOK, StreamsTypeOK
<1>11. units \in Seq(Requests \cup Units) /\ \A i \in 1..Len(units) : units[i].type = "data"
  BY <1>8, UnitFacts
<1>12. toServer'[c] = Fit(toServer[c], units)
  BY <1>3, <1>10
<1>13. \A d \in Conns : d # c => toServer'[d] = toServer[d]
  BY <1>3, <1>10
<1>14. \A i \in 1..Len(toServer'[c]) :
         \/ i \in 1..Len(toServer[c]) /\ toServer'[c][i] = toServer[c][i]
         \/ /\ i - Len(toServer[c]) \in 1..Len(units)
            /\ toServer'[c][i] = units[i - Len(toServer[c])]
  BY <1>10, <1>11, <1>12, FitFacts
<1>15. ~InUse(downloading[c])
  BY <1>3 DEF Inv, FarInv, FarOK
<1>16. Keeps
  BY <1>3 DEF Keeps
<1>17. /\ AskedOK(c) /\ ReceiveOK(c) /\ NoticeOK(c)
  BY DEF FlowInv, ConnOK
<1>18. KeptStays
  BY <1>16, KeptFiles
<1>19. AskedOK(c)'
  <2>1. \A i \in 1..Len(toServer'[c]) :
          \/ \E j \in 1..Len(toServer[c]) : toServer'[c][i] = toServer[c][j]
          \/ toServer'[c][i].type \notin {"put", "get"}
    BY <1>11, <1>14
  <2>2. uploading'[c].file_name = uploading[c].file_name
    BY <1>2, <1>8, <1>9
  <2> QED
    BY <1>3, <1>15, <1>17, <2>1, <2>2, AskedStays
<1>20. UploadOK(c)' /\ DownloadOK(c)'
  <2>1. Kept(p, f)'
    BY <1>4, <1>18 DEF KeptStays
  <2>2. /\ uploading'[c].file_name[1] = f /\ uploading'[c].file_name[2] = 0
        /\ uploading'[c].size = SizeOf[f] /\ owner'[c] = p
    BY <1>1, <1>3, <1>4, <1>8, <1>9
  <2> QED
    BY <1>3, <1>15, <2>1, <2>2 DEF UploadOK, DownloadOK
<1>21. NoticeOK(c)'
  <2>1. Stored' = Stored
    BY DEF serverVars, tableVars, Stored
  <2> QED
    BY <1>3, <1>17, <2>1 DEF NoticeOK
<1>22. ReceiveOK(c)'
  <2>1. receiving' = receiving /\ folder' = folder
    BY DEF serverVars, tableVars
  <2> SUFFICES ASSUME InUse(receiving[c]) PROVE ReceiveOK(c)'
    BY <2>1 DEF ReceiveOK
  <2>2. PICK target \in Names : target = receiving[c].file_name
    BY InUseFacts DEF Inv, TypeOK, ServerTypeOK
  <2> DEFINE file == folder[target]
             queue == toServer[c]
  <2>3. PICK g : g = target[1]
    OBVIOUS
  <2>4. PICK q \in Procs :
          /\ Follow(file, g, q, 0) /\ Follow(queue, g, q, Len(file))
          /\ owner[c] = q /\ name = <<g, 0>>
    BY <1>2, <1>3, <1>17, <2>2, <2>3 DEF ReceiveOK
  <2>5. g = f /\ q = p
    BY <1>1, <1>4, <2>4
  <2>6. receiving[c].size = SizeOf[f] /\ receiving[c].current = Len(file)
    BY <1>17, <2>2, <2>3, <2>5 DEF ReceiveOK
  <2>7. Follow(file, f, p, 0) /\ Follow(queue, f, p, Len(file))
    BY <2>4, <2>5
  <2>8. Len(file) \in Nat
    <3>1. folder \in [Names -> Seq(Units)]
      BY DEF Inv, TypeOK, ServerTypeOK
    <3> QED
      BY <3>1
  <2>9. queue \in Seq(Requests \cup Units) /\ Len(queue) \in Nat
    BY <1>10
  <2>10. Len(file) + Len(queue) = info.current
    BY <1>3, <2>6 DEF PacedInv, PacedOK, ArrivesOK
  <2>11. Len(units) \in Nat /\ SizeOf[f] \in Nat
    BY <1>6, <1>8
  <2>12. Len(toServer'[c]) <= Len(queue) + Len(units) /\ Len(toServer'[c]) \in Nat
    <3>1. /\ Fit(queue, units) \in Seq(Requests \cup Units)
          /\ Len(Fit(queue, units)) = Len(queue) + Lesser(Capacity - Len(queue), Len(units))
      BY <1>10, <1>11, <2>9, FitFacts
    <3>2. Lesser(Capacity - Len(queue), Len(units)) <= Len(units)
      BY <2>9, <2>11, BoundsFacts, LesserFacts
    <3>3. Lesser(Capacity - Len(queue), Len(units)) \in Int
      BY <2>9, <2>11, BoundsFacts, LesserFacts
    <3> HIDE DEF Fit
    <3> QED
      BY <1>12, <2>9, <2>11, <3>1, <3>2, <3>3
  <2> HIDE DEF file, queue, info
  <2>13. Follow(toServer'[c], f, p, Len(file))
    <3>1. Len(file) + Len(toServer'[c]) <= SizeOf[f]
      <4>1. Len(file) + Len(queue) <= SizeOf[f]
        BY <2>7 DEF Follow
      <4> QED
        BY <1>8, <2>8, <2>9, <2>10, <2>11, <2>12, <4>1
    <3>2. ASSUME NEW i \in 1..Len(toServer'[c])
          PROVE  toServer'[c][i] = Unit(f, p, Len(file) + i)
      <4>1. CASE i \in 1..Len(queue) /\ toServer'[c][i] = queue[i]
        BY <2>7, <4>1 DEF Follow
      <4>2. CASE /\ i - Len(queue) \in 1..Len(units)
                 /\ toServer'[c][i] = units[i - Len(queue)]
        <5>1. units[i - Len(queue)] = Unit(f, p, info.current + (i - Len(queue)))
          BY <1>8, <4>2
        <5>2. info.current + (i - Len(queue)) = Len(file) + i
          BY <2>8, <2>9, <2>10, <2>12
        <5> QED
          BY <4>2, <5>1, <5>2
      <4> QED
        BY <1>14, <4>1, <4>2 DEF queue
    <3> QED
      BY <3>1, <3>2 DEF Follow
  <2>14. Kept(p, f)'
    BY <1>4, <1>18 DEF KeptStays
  <2>15. owner'[c] = p /\ uploading'[c].file_name = <<f, 0>>
    BY <1>1, <1>3, <1>4, <1>8, <1>9
  <2> QED
    BY <2>1, <2>2, <2>3, <2>5, <2>6, <2>7, <2>13, <2>14, <2>15 DEF ReceiveOK, file
<1>23. FlowOK(c)'
  BY <1>19, <1>20, <1>21, <1>22 DEF FlowOK
<1>24. ASSUME NEW d \in Conns, d # c PROVE FlowOK(d)'
  <2>1. \A i \in 1..Len(toClient'[d]) :
          \E j \in 1..Len(toClient[d]) : toClient'[d][i] = toClient[d][j]
    BY <1>3
  <2> QED
    BY <1>3, <1>9, <1>13, <1>16, <1>24, <2>1, ClientAtRest
<1>25. \A d \in Conns : OnceOK(d)'
  BY <1>3, OnceStays DEF FlowInv, ConnOK
<1>26. FolderGrows
  BY NothingNew
<1>27. \A q \in Procs, m \in Names : LocalOK(q, m)'
  BY <1>3, <1>26, LocalStays DEF FlowInv
<1>28. \A d \in Conns : FlowOK(d)' /\ OnceOK(d)'
  BY <1>23, <1>24, <1>25
<1> QED
  BY <1>16, <1>27, <1>28, ClientFrame

(* What is read of a download is what comes next of the server's file. *)
LEMMA ReadsUnitsFlow ==
  ASSUME Inv, FlowInv, UNCHANGED serverVars,
         NEW c \in Conns, NEW n \in 0..Chunk, ReadsUnits(c, n),
         NEW p, p = owner[c], NEW name, name = downloading[c].file_name
  PROVE  /\ p \in Procs /\ name \in Names /\ InUse(downloading[c])
         /\ name \in local_files[p] /\ name \in Stored
         /\ n \in 0..Len(toClient[c]) /\ toClient[c] \in Seq(Units)
         /\ folder[name] \in Seq(Units) /\ disk[p][name] \in Seq(Units)
         /\ disk'[p][name] = WriteAt(disk[p][name], Len(disk[p][name]), First(toClient[c], n))
         /\ Part(disk'[p][name], folder[name], 0)
         /\ Part(toClient[c], folder[name], Len(disk[p][name]))
         /\ downloading[c].current = Len(disk[p][name])
         /\ \A q \in Procs, m \in Names :
              q # p \/ m # name => disk'[q][m] = disk[q][m]
<1> DEFINE mine == disk[p][name]
           queue == toClient[c]
<1>1. /\ InUse(downloading[c])
      /\ disk' = [disk EXCEPT ![p][name] =
                    WriteAt(@, downloading[c].current, First(queue, n))]
  BY DEF ReadsUnits
<1>2. p \in Procs /\ name \in Names
  BY <1>1, OwnerFacts, InUseFacts DEF Inv, TypeOK, ClientTypeOK
<1>3. /\ name \in local_files[p] /\ name \in Stored
      /\ downloading[c].current = Len(mine)
      /\ Part(mine, folder[name], 0) /\ Part(queue, folder[name], Len(mine))
  BY <1>1 DEF FlowInv, ConnOK, DownloadOK
<1>4. n \in 0..Len(queue)
  BY ReadsUnitsFacts
<1>5. queue \in Seq(Units)
  <2>1. queue \in Seq(Notices \cup Units)
    BY DEF Inv, TypeOK, StreamsTypeOK
  <2>2. \A i \in 1..Len(queue) : queue[i].type = "data"
    BY <1>1 DEF Inv, FarInv, DataOK
  <2> HIDE DEF queue
  <2>3. \A i \in 1..Len(queue) : queue[i] \in Notices \cup Units
    BY <2>1
  <2>4. \A i \in 1..Len(queue) : queue[i] \in Units
    BY <2>2, <2>3, NoticeFacts
  <2> QED
    BY <2>1, <2>4, ItemsGiveSeq
<1>6. disk \in [Procs -> [Names -> Seq(Units)]] /\ folder \in [Names -> Seq(Units)]
  BY DEF Inv, TypeOK, ClientTypeOK, ServerTypeOK
<1>7. mine \in Seq(Units) /\ folder[name] \in Seq(Units)
  BY <1>2, <1>6
<1> DEFINE more == WriteAt(mine, Len(mine), First(queue, n))
<1>8. disk' = [disk EXCEPT ![p][name] = more]
  BY <1>1, <1>3
<1> HIDE DEF queue
<1>9. Part(more, folder[name], 0)
  <2> HIDE DEF mine
  <2> QED
    BY <1>3, <1>4, <1>5, <1>7, PartMore
<1> HIDE DEF more
<1>10. /\ disk'[p][name] = more
       /\ \A q \in Procs, m \in Names : q # p \/ m # name => disk'[q][m] = disk[q][m]
  BY <1>2, <1>6, <1>8
<1> QED
  BY <1>1, <1>2, <1>3, <1>4, <1>5, <1>7, <1>9, <1>10 DEF queue, more

(* A download leaves the other files alone, and the other downloads. *)
LEMMA DownloadKeepsFiles ==
  ASSUME Inv, FlowInv, UNCHANGED serverVars,
         NEW c \in Conns, NEW n \in 0..Chunk, ReadsUnits(c, n),
         \A d \in Conns : d # c => downloading'[d] = downloading[d] /\ owner'[d] = owner[d],
         \/ owner'[c] = NoProc
         \/ downloading'[c].file_name = downloading[c].file_name /\ owner'[c] = owner[c]
  PROVE  Keeps
<1>1. PICK p, name : p = owner[c] /\ name = downloading[c].file_name
  OBVIOUS
<1>2. /\ p \in Procs /\ name \in Names
      /\ \A q \in Procs, m \in Names : q # p \/ m # name => disk'[q][m] = disk[q][m]
  BY <1>1, ReadsUnitsFlow
<1>3. local_files' = local_files
  BY DEF ReadsUnits
<1>4. local_files \in [Procs -> SUBSET Names]
  BY DEF Inv, TypeOK, ClientTypeOK
<1>5. ASSUME NEW q \in Procs, NEW m \in local_files[q],
             \A d \in Conns : owner[d] = q => downloading[d].file_name # m
      PROVE  disk'[q][m] = disk[q][m]
  <2>1. m \in Names
    BY <1>4
  <2> QED
    BY <1>1, <1>2, <1>5, <2>1
<1>6. NoProc \notin Procs
  BY DropboxClientAssumption DEF DropboxClientAssumption, NoProc
<1>7. ASSUME NEW q \in Procs, NEW d \in Conns, owner'[d] = q
      PROVE  owner[d] = q /\ downloading'[d].file_name = downloading[d].file_name
  BY <1>6, <1>7
<1> QED
  BY <1>3, <1>5, <1>7 DEF Keeps

LEMMA DownloadFlow ==
  ASSUME Inv, Inv', FlowInv, UNCHANGED serverVars, Keeps,
         NEW c \in Conns, NEW n \in 0..Chunk, ReadsUnits(c, n),
         \A d \in Conns : d # c =>
           /\ downloading'[d] = downloading[d] /\ owner'[d] = owner[d]
           /\ toClient'[d] = toClient[d],
         \/ ~InUse(downloading'[c])
         \/ downloading'[c].file_name = downloading[c].file_name /\ owner'[c] = owner[c],
         FlowOK(c)'
  PROVE  FlowInv'
<1>1. PICK p, name : p = owner[c] /\ name = downloading[c].file_name
  OBVIOUS
<1>2. /\ p \in Procs /\ name \in Names /\ InUse(downloading[c])
      /\ name \in local_files[p] /\ name \in Stored
      /\ Part(disk'[p][name], folder[name], 0)
      /\ \A q \in Procs, m \in Names : q # p \/ m # name => disk'[q][m] = disk[q][m]
  BY <1>1, ReadsUnitsFlow
<1>3. toServer' = toServer /\ uploading' = uploading /\ local_files' = local_files
  BY DEF ReadsUnits
<1>4. folder' = folder /\ Stored' = Stored
  BY DEF serverVars, tableVars, Stored
<1>5. ASSUME NEW d \in Conns, d # c PROVE FlowOK(d)'
  <2>1. ASSUME InUse(downloading[d])
        PROVE  disk'[owner[d]][downloading[d].file_name]
                 = disk[owner[d]][downloading[d].file_name]
    <3>1. owner[d] \in Procs /\ downloading[d].file_name \in Names
      BY <2>1, OwnerFacts, InUseFacts DEF Inv, TypeOK, ClientTypeOK
    <3>2. owner[d] = p => downloading[d].file_name # name
      <4>1. OnceOK(d)
        BY DEF FlowInv, ConnOK
      <4> QED
        BY <1>1, <1>5, <2>1, <4>1 DEF OnceOK
    <3> QED
      BY <1>2, <3>1, <3>2
  <2>2. \A i \in 1..Len(toClient'[d]) :
          \E j \in 1..Len(toClient[d]) : toClient'[d][i] = toClient[d][j]
    BY <1>5
  <2> QED
    BY <1>3, <1>5, <2>1, <2>2, ClientAtRest
<1>6. \A d \in Conns : OnceOK(d)'
  BY OnceStays DEF FlowInv, ConnOK
<1>7. FolderGrows
  BY NothingNew
<1>8. ASSUME NEW q \in Procs, NEW m \in Names PROVE LocalOK(q, m)'
  <2>1. CASE q = p /\ m = name
    BY <1>2, <1>3, <1>4, <2>1 DEF LocalOK
  <2>2. CASE q # p \/ m # name
    BY <1>2, <1>3, <1>7, <2>2, LocalStays DEF FlowInv
  <2> QED
    BY <2>1, <2>2
<1>9. \A d \in Conns : FlowOK(d)' /\ OnceOK(d)'
  BY <1>5, <1>6
<1> QED
  BY <1>8, <1>9, ClientFrame

LEMMA DownloadMoreFlow ==
  ASSUME Inv, Inv', FlowInv, UNCHANGED serverVars,
         NEW c \in Conns, NEW n \in 0..Chunk, DownloadMore(c, n)
  PROVE  FlowInv'
<1>1. /\ ReadsUnits(c, n) /\ n > 0
      /\ downloading' = [downloading EXCEPT ![c].current = @ + n]
      /\ toClient' = [toClient EXCEPT ![c] = AllBut(@, n)]
      /\ owner' = owner /\ toServer' = toServer /\ uploading' = uploading
      /\ local_files' = local_files
  BY DEF DownloadMore, ReadsUnits
<1>2. PICK p \in Procs, name \in Names : p = owner[c] /\ name = downloading[c].file_name
  BY <1>1, ReadsUnitsFlow
<1> DEFINE mine == disk[p][name]
           queue == toClient[c]
           left == toClient'[c]
<1>3. /\ InUse(downloading[c]) /\ name \in local_files[p] /\ name \in Stored
      /\ n \in 0..Len(queue) /\ queue \in Seq(Units)
      /\ folder[name] \in Seq(Units) /\ Len(mine) \in Nat
      /\ Len(disk'[p][name]) = Len(mine) + n
      /\ Part(disk'[p][name], folder[name], 0)
      /\ Part(queue, folder[name], Len(mine))
      /\ downloading[c].current = Len(mine)
  <2> HIDE DEF mine, queue
  <2>1. ReadsUnits(c, n) /\ n \in 0..Chunk
    BY <1>1
  <2>2. /\ InUse(downloading[c]) /\ name \in local_files[p] /\ name \in Stored
        /\ n \in 0..Len(toClient[c]) /\ toClient[c] \in Seq(Units)
        /\ folder[name] \in Seq(Units)
    BY <1>2, <2>1, ReadsUnitsFlow
  <2>3. /\ disk[p][name] \in Seq(Units)
        /\ disk'[p][name] = WriteAt(disk[p][name], Len(disk[p][name]), First(toClient[c], n))
    BY <1>2, <2>1, ReadsUnitsFlow
  <2>4. Len(disk[p][name]) \in Nat /\ Len(disk'[p][name]) = Len(disk[p][name]) + n
    <3>1. PICK file \in Seq(Units), units \in Seq(Units) :
            file = disk[p][name] /\ units = toClient[c]
      BY <2>2, <2>3
    <3>2. n \in 0..Len(units) /\ disk'[p][name] = WriteAt(file, Len(file), First(units, n))
      BY <2>2, <2>3, <3>1
    <3>3. Len(WriteAt(file, Len(file), First(units, n))) = Len(file) + n
      BY <3>2, AppendFacts
    <3> QED
      BY <3>1, <3>2, <3>3
  <2>5. Part(disk'[p][name], folder[name], 0)
    BY <1>2, <2>1, ReadsUnitsFlow
  <2>6. Part(toClient[c], folder[name], Len(disk[p][name]))
    BY <1>2, <2>1, ReadsUnitsFlow
  <2>7. downloading[c].current = Len(disk[p][name])
    BY <1>2, <2>1, ReadsUnitsFlow
  <2> QED
    BY <2>2, <2>4, <2>5, <2>6, <2>7 DEF mine, queue
<1>4. n \in Nat /\ Len(queue) \in Nat /\ n <= Len(queue)
  BY <1>3
<1>5. /\ left = AllBut(queue, n)
      /\ \A d \in Conns : d # c => toClient'[d] = toClient[d]
  BY <1>1 DEF Inv, TypeOK, StreamsTypeOK
<1>6. /\ left \in Seq(Units) /\ Len(left) = Len(queue) - n
      /\ \A i \in 1..Len(left) : i + n \in 1..Len(queue) /\ left[i] = queue[i + n]
  <2> HIDE DEF queue, left
  <2>1. /\ AllBut(queue, n) \in Seq(Units)
        /\ Len(AllBut(queue, n)) = Len(queue) - n
        /\ \A i \in 1..Len(AllBut(queue, n)) :
             i + n \in 1..Len(queue) /\ AllBut(queue, n)[i] = queue[i + n]
    BY <1>3, <1>4, AllButFacts
  <2> HIDE DEF AllBut
  <2> QED
    BY <1>5, <2>1
<1>7. /\ downloading'[c].file_name = name
      /\ downloading'[c].current = Len(mine) + n
      /\ \A d \in Conns : d # c => downloading'[d] = downloading[d]
  <2> DEFINE info == [downloading[c] EXCEPT !.current = @ + n]
  <2>1. downloading[c] \in FileInfos
    BY DEF Inv, TypeOK, ClientTypeOK
  <2>2. info.file_name = downloading[c].file_name /\ info.current = downloading[c].current + n
    BY <1>4, <2>1, MovedFacts
  <2> HIDE DEF info
  <2>3. downloading' = [downloading EXCEPT ![c] = info]
    BY <1>1 DEF info
  <2> QED
    BY <1>2, <1>3, <2>2, <2>3 DEF Inv, TypeOK, ClientTypeOK
<1> HIDE DEF queue, left, mine
<1>8. Keeps
  BY <1>1, <1>2, <1>7, DownloadKeepsFiles
<1>9. AskedOK(c) /\ UploadOK(c) /\ ReceiveOK(c) /\ DownloadOK(c) /\ NoticeOK(c)
  BY DEF FlowInv, ConnOK
<1>10. /\ receiving' = receiving /\ sending' = sending /\ folder' = folder
       /\ Stored' = Stored
  BY DEF serverVars, tableVars, Stored
<1>11. AskedOK(c)'
  <2>1. queue # <<>>
    <3>1. Len(queue) # 0
      BY <1>1, <1>4
    <3> QED
      BY <3>1
  <2>2. \A j \in 1..Len(toServer[c]) : toServer[c][j].type # "get"
    BY <1>3, <1>9, <2>1 DEF AskedOK, queue
  <2>3. \A i \in 1..Len(toServer'[c]) :
          \E j \in 1..Len(toServer[c]) : toServer'[c][i] = toServer[c][j]
    BY <1>1
  <2> QED
    BY <1>1, <1>9, <2>2, <2>3, AskedStays
<1>12. KeptStays
  BY <1>8, KeptFiles
<1>13. UploadOK(c)' /\ ReceiveOK(c)'
  BY <1>1, <1>9, <1>10, <1>12, UploadStays, ReceiveStays
<1>14. NoticeOK(c)'
  <2>1. \A i \in 1..Len(toClient'[c]) :
          \E j \in 1..Len(toClient[c]) : toClient'[c][i] = toClient[c][j]
    BY <1>6 DEF queue, left
  <2> QED
    BY <1>9, <1>10, <2>1, NoticeStays
<1>15. Part(left, folder[name], Len(mine) + n)
  <2>1. Len(left) <= Len(queue) - n
    BY <1>4, <1>6
  <2> QED
    BY <1>3, <1>6, <2>1, PartRest
<1>16. DownloadOK(c)'
  <2>1. ASSUME InUse(sending[c])
        PROVE  /\ sending[c].file_name = name
               /\ sending[c].current = (Len(mine) + n) + Len(left)
    <3>1. sending[c].file_name = name /\ sending[c].current = Len(mine) + Len(queue)
      BY <1>2, <1>3, <1>9, <2>1 DEF DownloadOK, mine, queue
    <3> QED
      BY <1>3, <1>4, <1>6, <3>1
  <2>2. name \in Stored'
    BY <1>3, <1>10
  <2> QED
    BY <1>1, <1>2, <1>3, <1>7, <1>10, <1>15, <2>1, <2>2 DEF DownloadOK, left
<1>17. FlowOK(c)'
  BY <1>11, <1>13, <1>14, <1>16 DEF FlowOK
<1> QED
  BY <1>1, <1>2, <1>5, <1>7, <1>8, <1>17, DownloadFlow

LEMMA FinishDownloadFlow ==
  ASSUME Inv, Inv', FlowInv, UNCHANGED serverVars,
         NEW c \in Conns, NEW n \in 0..Chunk, FinishDownload(c, n)
  PROVE  FlowInv'
<1> DEFINE unread == {d \in Conns : Len(toClient[d]) > n}
           S == {c}
<1>1. /\ ReadsUnits(c, n) /\ Release(S, unread)
      /\ downloading' = [downloading EXCEPT ![c] = NoFile]
      /\ toServer' = toServer /\ uploading' = uploading
  BY DEF FinishDownload, ReadsUnits
<1>2. S \in SUBSET Conns
  OBVIOUS
<1> HIDE DEF unread
<1>3. owner'[c] = NoProc
  BY <1>1 DEF Release
<1>4. \A d \in Conns : d # c <=> d \notin S
  OBVIOUS
<1> HIDE DEF S
<1>5. \A d \in Conns :
        /\ d # c => owner'[d] = owner[d] /\ toClient'[d] = toClient[d]
        /\ \A i \in 1..Len(toClient'[d]) :
             \E j \in 1..Len(toClient[d]) : toClient'[d][i] = toClient[d][j]
  BY <1>1, <1>2, <1>4, ReleaseLeaves
<1>6. ~InUse(downloading'[c]) /\ \A d \in Conns : d # c => downloading'[d] = downloading[d]
  BY <1>1, NoFileFacts DEF Inv, TypeOK, ClientTypeOK
<1>7. InUse(downloading[c])
  BY <1>1 DEF ReadsUnits
<1>8. ~InUse(uploading'[c])
  BY <1>1, <1>7 DEF Inv, FarInv, FarOK
<1>9. Keeps
  BY <1>1, <1>3, <1>5, <1>6, DownloadKeepsFiles
<1>10. FlowOK(c)'
  BY <1>1, <1>5, <1>6, <1>8, <1>9, ClientAtRest
<1> QED
  BY <1>1, <1>5, <1>6, <1>9, <1>10, DownloadFlow

LEMMA ClientsFlow ==
  ASSUME ~Slow, Inv, Inv', PacedInv, FlowInv, Clients
  PROVE  FlowInv'
<1>1. UNCHANGED serverVars /\ ClientStep
  BY DEF Clients
<1>2. ASSUME NEW p \in Procs, Die(p), toServer' = toServer PROVE FlowInv'
  BY <1>1, <1>2, DieFlow
<1>3. ASSUME NEW c \in Conns, DivideByZero(c) PROVE FlowInv'
  BY <1>2, <1>3, OwnerFacts DEF DivideByZero
<1>4. ASSUME NEW c \in Conns, NEW n \in 0..Chunk,
             DownloadMore(c, n) \/ FinishDownload(c, n)
      PROVE  FlowInv'
  BY <1>1, <1>4, DownloadMoreFlow, FinishDownloadFlow
<1>5. ASSUME NEW c \in Conns, Transfer(c) PROVE FlowInv'
  BY <1>1, <1>3, <1>4, <1>5, UploadChunkFlow, FinishUploadFlow DEF Transfer
<1>6. ASSUME NEW p \in Procs, ServerResponse(p) PROVE FlowInv'
  BY <1>1, <1>6, ReadKnownFlow, ReadNewFlow DEF ServerResponse
<1>7. ASSUME NEW p \in Procs, TypeExit(p) PROVE FlowInv'
  <2>1. state[p] = "connected" /\ Tell(p, "exit") /\ Die(p)
    BY <1>7 DEF TypeExit
  <2>2. \A c \in Conns : toServer'[c] = toServer[c] \/ (~InUse(receiving[c]) /\ Adds(c))
    BY <2>1, TellAdds
  <2> QED
    BY <1>1, <2>1, <2>2, DieFlow
<1>8. ASSUME NEW p \in Procs, Input(p) PROVE FlowInv'
  BY <1>1, <1>2, <1>7, <1>8, StartFlow, TypePutFlow, TypeSleepFlow DEF Input, Killed
<1> QED
  BY <1>1, <1>5, <1>6, <1>8 DEF ClientStep

-----------------------------------------------------------------------------
(* What the server tells of files is so. *)

(* A notification says no more than there was, of a file that does not shrink. *)
LEMMA TruthStays ==
  ASSUME Inv, Inv', FlowInv, TruthInv, FolderGrows,
         \A n \in Stored' \ shared' : SizeOf[n[1]] > 0 =>
           \/ n \in Stored \ shared /\ folder'[n] = folder[n]
           \/ Len(folder'[n]) < SizeOf[n[1]],
         \A c \in Conns : \A i \in 1..Len(toClient'[c]) :
           toClient'[c][i].type = "put" =>
             \/ \E j \in 1..Len(toClient[c]) : toClient'[c][i] = toClient[c][j]
             \/ toClient'[c][i].size <= Len(folder'[toClient'[c][i].file])
  PROVE  TruthInv'
<1>1. \A n \in Stored' \ shared' : SizeOf[n[1]] > 0 => Len(folder'[n]) < SizeOf[n[1]]
  BY DEF TruthInv
<1>2. ASSUME NEW c \in Conns, NEW i \in 1..Len(toClient'[c]), toClient'[c][i].type = "put"
      PROVE  toClient'[c][i].size <= Len(folder'[toClient'[c][i].file])
  <2> SUFFICES ASSUME NEW j \in 1..Len(toClient[c]), toClient'[c][i] = toClient[c][j]
               PROVE  toClient'[c][i].size <= Len(folder'[toClient'[c][i].file])
    BY <1>2
  <2>1. PICK line : line = toClient[c][j] /\ line = toClient'[c][i] /\ line.type = "put"
    BY <1>2
  <2>2. toClient[c] \in Seq(Notices \cup Units)
    BY DEF Inv, TypeOK, StreamsTypeOK
  <2>3. line \in Notices \cup Units
    BY <2>1, <2>2
  <2>4. line.file \in Names /\ line.size \in Nat
    BY <2>1, <2>3, NoticeFacts
  <2>5. line.file \in Stored
    BY <2>1 DEF FlowInv, ConnOK, NoticeOK
  <2>6. line.size <= Len(folder[line.file])
    BY <2>1 DEF TruthInv
  <2>7. Len(folder[line.file]) <= Len(folder'[line.file])
    BY <2>5 DEF FolderGrows, Grown
  <2>8. Len(folder[line.file]) \in Nat /\ Len(folder'[line.file]) \in Nat
    <3>1. folder \in [Names -> Seq(Units)] /\ folder' \in [Names -> Seq(Units)]
      BY DEF Inv, TypeOK, ServerTypeOK
    <3> QED
      BY <2>4, <3>1
  <2>9. line.size <= Len(folder'[line.file])
    BY <2>4, <2>6, <2>7, <2>8
  <2> QED
    BY <2>1, <2>9
<1> QED
  BY <1>1, <1>2 DEF TruthInv

(* A step that leaves the folder alone. *)
LEMMA TruthLeftAlone ==
  ASSUME Inv, Inv', FlowInv, TruthInv,
         folder' = folder, shared' = shared, Stored' = Stored,
         \A c \in Conns : \A i \in 1..Len(toClient'[c]) :
           toClient'[c][i].type = "put" =>
             \/ \E j \in 1..Len(toClient[c]) : toClient'[c][i] = toClient[c][j]
             \/ toClient'[c][i].size <= Len(folder[toClient'[c][i].file])
  PROVE  TruthInv'
<1>1. FolderGrows
  <2>1. folder \in [Names -> Seq(Units)] /\ Stored \subseteq Names
    BY StoredFacts DEF Inv, TypeOK, ServerTypeOK
  <2> QED
    BY <2>1, GrownSame
<1> QED
  BY <1>1, TruthStays

(* sync_new_connection reads the sizes from the disk. *)
LEMMA NameTruth ==
  ASSUME Inv, Inv', FlowInv, TruthInv,
         NEW c \in Conns, NEW n \in 1..Len(toServer[c]), Name(c, n)
  PROVE  TruthInv'
<1> DEFINE user == CommandOf(c, n).user
           notices == Catalogue(user)
           items == <<[type |-> "welcome"]>> \o notices
           again == client_files[user] # {}
<1>1. /\ Write({c}, items, again)
      /\ folder' = folder /\ shared' = shared /\ Stored' = Stored
  BY DEF Name, Stored
<1>2. user \in Owners
  BY CommandFacts DEF Name, Reads, Inv, TypeOK
<1>3. /\ notices \in Seq(Notices)
      /\ \A i \in 1..Len(notices) : notices[i].size = Len(folder[notices[i].file])
      /\ \A i \in 1..Len(notices) : notices[i].file \in client_files[user]
  BY <1>2, CatalogueFacts DEF Inv, TypeOK
<1>4. items = <<[type |-> "welcome"]>> \o notices
  OBVIOUS
<1>5. \A m \in client_files[user] : Len(folder[m]) \in Nat
  <2>1. client_files \in [Owners -> SUBSET Names] /\ folder \in [Names -> Seq(Units)]
    BY DEF Inv, TypeOK, ServerTypeOK
  <2>2. client_files[user] \subseteq Names
    BY <1>2, <2>1
  <2> QED
    BY <2>1, <2>2
<1> HIDE DEF notices, user, items, again
<1>6. \A i \in 1..Len(notices) : notices[i].size <= Len(folder[notices[i].file])
  BY <1>3, <1>5
<1>7. /\ items \in Seq(Notices)
      /\ \A i \in 1..Len(items) : items[i].type = "put" =>
           items[i].size <= Len(folder[items[i].file])
  <2>1. <<[type |-> "welcome"]>> \in Seq(Notices)
    BY LineFacts
  <2>2. items \in Seq(Notices)
    BY <1>3, <1>4, <2>1
  <2>3. Len(items) = 1 + Len(notices) /\ items[1] = [type |-> "welcome"]
    BY <1>3, <1>4
  <2>4. ASSUME NEW i \in 2..Len(items)
        PROVE  i - 1 \in 1..Len(notices) /\ items[i] = notices[i - 1]
    BY <1>3, <1>4, <2>3
  <2>5. ASSUME NEW i \in 1..Len(items), items[i].type = "put"
        PROVE  items[i].size <= Len(folder[items[i].file])
    <3>1. i # 1
      BY <2>3, <2>5
    <3>2. i \in 2..Len(items)
      BY <3>1
    <3>3. i - 1 \in 1..Len(notices) /\ items[i] = notices[i - 1]
      BY <2>4, <3>2
    <3> QED
      BY <1>6, <3>3
  <2> QED
    BY <2>2, <2>5
<1>8. \A d \in Conns : \A i \in 1..Len(toClient'[d]) :
        \/ i \in 1..Len(toClient[d]) /\ toClient'[d][i] = toClient[d][i]
        \/ \E j \in 1..Len(items) : toClient'[d][i] = items[j]
  <2>1. StreamsTypeOK /\ {c} \in SUBSET Conns /\ items \in Seq(Notices \cup Units)
    BY <1>7 DEF Inv, TypeOK
  <2> QED
    BY <1>1, <2>1, WriteFacts
<1> QED
  BY <1>1, <1>7, <1>8, TruthLeftAlone

(* A new upload has an empty file, and its name is in no notification yet. *)
LEMMA PutTruth ==
  ASSUME Apart, Inv, Inv', PacedInv, SharedInv, FlowInv, TruthInv,
         NEW c \in Conns, NEW n \in 1..Len(toServer[c]), Put(c, n)
  PROVE  TruthInv'
<1> DEFINE request == CommandOf(c, n)
           f == request.file[1]
           name == StoredName(request.user, f)
<1>1. /\ n = 1 /\ request.type = "put"
      /\ StartReceive(c, request.user, request, <<>>)
      /\ toClient' = toClient /\ shared' = shared
  BY DEF Put, Reads
<1>2. request = toServer[c][1] /\ toServer[c][1] \in Requests \cup Units
  BY <1>1, CommandFacts DEF Inv, TypeOK
<1>3. request.file \in Names /\ request.user \in Owners
  BY <1>1, <1>2, RequestFacts, OwnersHaveNames
<1>4. 1 \in 1..Len(toServer[c])
  BY DEF Inv, TypeOK, StreamsTypeOK
<1>5. Owns(request.user, f)
  BY <1>1, <1>2, <1>4 DEF SharedInv, OwnRequest
<1>6. f \in Files /\ HasName(request.user, f)
  BY <1>1, <1>3, NameFacts DEF StartReceive
<1>7. name \in Names /\ name \notin Stored
  BY <1>5, <1>6, NameIsFresh
<1>8. /\ folder' = [folder EXCEPT ![name] = <<>>]
      /\ client_files' = [client_files EXCEPT ![request.user] = @ \cup {name}]
  BY <1>1 DEF StartReceive
<1> HIDE DEF name
<1>9. Len(folder'[name]) = 0 /\ \A m \in Names \ {name} : folder'[m] = folder[m]
  <2>1. folder'[name] = <<>> /\ \A m \in Names \ {name} : folder'[m] = folder[m]
    BY <1>7, <1>8 DEF Inv, TypeOK, ServerTypeOK
  <2> QED
    BY <2>1
<1> HIDE DEF request, f
<1>10. Stored \subseteq Stored' /\ Stored' \subseteq Stored \cup {name}
  <2>1. client_files \in [Owners -> SUBSET Names]
    BY DEF Inv, TypeOK, ServerTypeOK
  <2>2. \A v \in Owners : /\ client_files[v] \subseteq client_files'[v]
                         /\ client_files'[v] \subseteq client_files[v] \cup {name}
    BY <1>8, <2>1
  <2> QED
    BY <2>2 DEF Stored
<1>11. FolderGrows
  <2> SUFFICES ASSUME NEW m \in Stored PROVE Grown(folder[m], folder'[m])
    BY <1>10 DEF FolderGrows
  <2>1. m \in Names /\ m # name
    BY <1>7, StoredFacts
  <2>2. folder[m] \in Seq(Units)
    BY <2>1 DEF Inv, TypeOK, ServerTypeOK
  <2>3. Len(folder[m]) \in Nat /\ folder'[m] = folder[m]
    BY <1>9, <2>1, <2>2
  <2> QED
    BY <2>3 DEF Grown
<1>12. ASSUME NEW m \in Stored' \ shared', SizeOf[m[1]] > 0
       PROVE  \/ m \in Stored \ shared /\ folder'[m] = folder[m]
              \/ Len(folder'[m]) < SizeOf[m[1]]
  <2>1. CASE m = name
    <3>1. SizeOf[m[1]] \in Nat
      BY <1>7, <2>1, NameFacts, SizeFacts
    <3> QED
      BY <1>9, <1>12, <2>1, <3>1
  <2>2. CASE m # name
    <3>1. m \in Stored \ shared /\ m \in Names \ {name}
      BY <1>1, <1>10, <1>12, <2>2, StoredFacts
    <3> QED
      BY <1>9, <3>1
  <2> QED
    BY <2>1, <2>2
<1>13. \A d \in Conns : \A i \in 1..Len(toClient'[d]) :
         \E j \in 1..Len(toClient[d]) : toClient'[d][i] = toClient[d][j]
  BY <1>1
<1> QED
  BY <1>11, <1>12, <1>13, TruthStays

(* What comes of an upload makes its file longer, at most as long as it is to  *)
(* be; a read that makes it so is the last, and the file is announced.         *)
LEMMA ReceiveTruth ==
  ASSUME Inv, Inv', SharedInv, FlowInv, TruthInv,
         NEW c \in Conns, NEW n \in 0..Chunk, ReadsData(c, n), Stored' = Stored,
         \/ shared' = shared /\ (receiving[c].size > 0 => ~Done(receiving[c], n))
         \/ shared' = shared \cup {receiving[c].file_name},
         \A d \in Conns : \A i \in 1..Len(toClient'[d]) :
           toClient'[d][i].type = "put" =>
             \/ \E j \in 1..Len(toClient[d]) : toClient'[d][i] = toClient[d][j]
             \/ toClient'[d][i].size <= Len(folder'[toClient'[d][i].file])
  PROVE  TruthInv'
<1> DEFINE file == folder[receiving[c].file_name]
<1>1. PICK name \in Names, f \in Files : name = receiving[c].file_name /\ f = name[1]
  BY ReadsDataFlow
<1>2. /\ receiving[c].size = SizeOf[f] /\ receiving[c].current = Len(file)
      /\ Len(file) \in Nat /\ Len(folder'[name]) = Len(file) + n
      /\ folder'[name] \in Seq(Units)
      /\ \A m \in Names \ {name} : folder'[m] = folder[m]
      /\ FolderGrows
  BY <1>1, ReadsDataFlow
<1>3. PICK p \in Procs : Follow(folder'[name], f, p, 0)
  BY <1>1, ReadsDataFlow
<1> HIDE DEF file
<1>4. Len(folder'[name]) <= SizeOf[f] /\ Len(folder'[name]) \in Nat /\ SizeOf[f] \in Nat
  <2>1. Len(folder'[name]) \in Nat /\ SizeOf[f] \in Nat
    BY <1>2, SizeFacts
  <2> QED
    BY <1>3, <2>1 DEF Follow
<1>5. ASSUME NEW m \in Stored' \ shared', SizeOf[m[1]] > 0
      PROVE  \/ m \in Stored \ shared /\ folder'[m] = folder[m]
             \/ Len(folder'[m]) < SizeOf[m[1]]
  <2>1. CASE m = name
    <3>1. ~Done(receiving[c], n)
      BY <1>1, <1>2, <1>5, <2>1
    <3>2. Len(folder'[name]) # SizeOf[f]
      BY <1>2, <3>1 DEF Done
    <3> QED
      BY <1>1, <1>4, <2>1, <3>2
  <2>2. CASE m # name
    <3>1. m \in Stored \ shared /\ m \in Names \ {name}
      BY <1>5, <2>2, StoredFacts
    <3> QED
      BY <1>2, <3>1
  <2> QED
    BY <2>1, <2>2
<1> QED
  BY <1>2, <1>5, TruthStays

(* sync_peers tells the size of what it announces. *)
LEMMA FinishReceiveTruth ==
  ASSUME Inv, Inv', SharedInv, FlowInv, TruthInv,
         NEW c \in Conns, NEW n \in 0..Chunk, FinishReceive(c, n)
  PROVE  TruthInv'
<1> DEFINE info == receiving[c]
           S == name_clients_map[fd_file_map[c]]
           size == Len(folder'[info.file_name])
           line == PutLine(info.file_name, size, fd_file_map[c])
<1>1. ReadsData(c, n) /\ Stored' = Stored
  BY DEF FinishReceive, Stored
<1>2. IF Done(info, n)
      THEN Write(S, <<line>>, FALSE) /\ shared' = shared \cup {info.file_name}
      ELSE toClient' = toClient /\ shared' = shared
  BY DEF FinishReceive
<1>3. /\ info.file_name \in Names /\ InUse(info) /\ fd_file_map[c] \in Owners
      /\ folder' \in [Names -> Seq(Units)]
  BY <1>1, ReadsDataFacts, OwnNameFacts
<1>4. S \in SUBSET Conns
  BY <1>3 DEF Inv, TypeOK, ServerTypeOK
<1>5. size \in Nat
  BY <1>3
<1>6. line \in Notices /\ line.file = info.file_name /\ line.size = size
  <2> HIDE DEF size
  <2>1. line \in Notices
    BY <1>3, <1>5, OwnersHaveNames, LineFacts
  <2> QED
    BY <2>1 DEF PutLine
<1>7. line.size <= Len(folder'[line.file])
  BY <1>5, <1>6
<1> HIDE DEF line, S, info, size
<1>8. \A d \in Conns : \A i \in 1..Len(toClient'[d]) :
        \/ \E j \in 1..Len(toClient[d]) : toClient'[d][i] = toClient[d][j]
        \/ toClient'[d][i].size <= Len(folder'[toClient'[d][i].file])
  <2>1. CASE Done(info, n)
    <3>1. <<line>> \in Seq(Notices \cup Units) /\ StreamsTypeOK
      BY <1>6 DEF Inv, TypeOK
    <3>2. \A d \in Conns : \A i \in 1..Len(toClient'[d]) :
            \/ i \in 1..Len(toClient[d]) /\ toClient'[d][i] = toClient[d][i]
            \/ \E j \in 1..Len(<<line>>) : toClient'[d][i] = <<line>>[j]
      BY <1>2, <1>4, <2>1, <3>1, WriteFacts
    <3>3. \A j \in 1..Len(<<line>>) : <<line>>[j] = line
      OBVIOUS
    <3> QED
      BY <1>7, <3>2, <3>3
  <2>2. CASE ~Done(info, n)
    BY <1>2, <2>2
  <2> QED
    BY <2>1, <2>2
<1>9. \/ shared' = shared /\ ~Done(receiving[c], n)
      \/ shared' = shared \cup {receiving[c].file_name}
  BY <1>2 DEF info
<1> QED
  BY <1>1, <1>8, <1>9, ReceiveTruth

LEMMA ReceiveMoreTruth ==
  ASSUME Inv, Inv', SharedInv, FlowInv, TruthInv,
         NEW c \in Conns, NEW n \in 0..Chunk, ReceiveMore(c, n)
  PROVE  TruthInv'
<1> DEFINE file == folder[receiving[c].file_name]
<1>1. /\ ReadsData(c, n) /\ Stored' = Stored /\ toClient' = toClient /\ shared' = shared
      /\ n # 0 => ~Done(receiving[c], n)
  BY DEF ReceiveMore, Stored
<1>2. \A d \in Conns : \A i \in 1..Len(toClient'[d]) :
        \E j \in 1..Len(toClient[d]) : toClient'[d][i] = toClient[d][j]
  BY <1>1
<1>3. PICK name \in Names, f \in Files : name = receiving[c].file_name /\ f = name[1]
  BY <1>1, ReadsDataFlow
<1>4. /\ receiving[c].size = SizeOf[f] /\ receiving[c].current = Len(file)
      /\ Len(file) \in Nat /\ name \in Stored \ shared
  BY <1>1, <1>3, ReadsDataFlow
<1>5. ASSUME n = 0, receiving[c].size > 0 PROVE ~Done(receiving[c], n)
  <2>1. Len(file) < SizeOf[f]
    BY <1>3, <1>4, <1>5 DEF TruthInv
  <2> HIDE DEF file
  <2>2. Len(file) + 0 # SizeOf[f]
    BY <1>4, <2>1, SizeFacts
  <2> QED
    BY <1>4, <1>5, <2>2 DEF Done
<1>6. receiving[c].size > 0 => ~Done(receiving[c], n)
  BY <1>1, <1>5
<1> QED
  BY <1>1, <1>2, <1>6, ReceiveTruth

(* What carries no notification leaves those that are under way. *)
LEMMA SendChunkTruth ==
  ASSUME Inv, Inv', FlowInv, TruthInv, NEW c \in Conns, SendChunk(c)
  PROVE  TruthInv'
<1> DEFINE info == sending[c]
           units == NextUnits(folder[info.file_name], info)
           S == IF units = <<>> THEN {} ELSE {c}
<1>1. /\ InUse(info) /\ Write(S, units, FALSE)
      /\ folder' = folder /\ shared' = shared /\ Stored' = Stored
  BY DEF SendChunk, tableVars, Stored
<1>2. info \in FileInfos /\ info.file_name \in Names
  BY <1>1, InUseFacts DEF Inv, TypeOK, ServerTypeOK
<1>3. folder[info.file_name] \in Seq(Units)
  <2>1. folder \in [Names -> Seq(Units)]
    BY DEF Inv, TypeOK, ServerTypeOK
  <2> QED
    BY <1>2, <2>1
<1>4. units \in Seq(Units) /\ S \in SUBSET Conns
  BY <1>2, <1>3, NextUnitsItems
<1> HIDE DEF units, S
<1>5. \A j \in 1..Len(units) : units[j].type = "data"
  BY <1>4, UnitFacts
<1>6. \A d \in Conns : \A i \in 1..Len(toClient'[d]) :
        \/ i \in 1..Len(toClient[d]) /\ toClient'[d][i] = toClient[d][i]
        \/ \E j \in 1..Len(units) : toClient'[d][i] = units[j]
  <2>1. StreamsTypeOK /\ units \in Seq(Notices \cup Units)
    BY <1>4 DEF Inv, TypeOK
  <2> QED
    BY <1>1, <1>4, <2>1, WriteFacts
<1> QED
  BY <1>1, <1>5, <1>6, TruthLeftAlone

LEMMA ServerTruth ==
  ASSUME Apart, Inv, Inv', PacedInv, SharedInv, FlowInv, TruthInv,
         NEW c \in Conns, Server(c)
  PROVE  TruthInv'
<1>1. ASSUME toClient' = toClient, folder' = folder, shared' = shared, Stored' = Stored
      PROVE  TruthInv'
  <2>1. \A d \in Conns : \A i \in 1..Len(toClient'[d]) :
          \E j \in 1..Len(toClient[d]) : toClient'[d][i] = toClient[d][j]
    BY <1>1
  <2> QED
    BY <1>1, <2>1, TruthLeftAlone
<1>2. CASE Disconnect(c)
  BY <1>1, <1>2 DEF Disconnect, Stored
<1>3. ASSUME NEW n \in 1..Len(toServer[c]), Ignore(c, n) \/ Get(c, n)
      PROVE  TruthInv'
  BY <1>1, <1>3 DEF Ignore, Get, serverVars, tableVars, Stored
<1>4. CASE HandleClient(c)
  BY <1>2, <1>3, <1>4, NameTruth, PutTruth, NothingCoalesces DEF HandleClient, Hangup, Leave
<1>5. CASE ReceiveFile(c)
  BY <1>5, ReceiveMoreTruth, FinishReceiveTruth DEF ReceiveFile
<1>6. CASE FinishSend(c)
  BY <1>1, <1>6 DEF FinishSend, tableVars, Stored
<1>7. CASE SendFile(c)
  BY <1>6, <1>7, SendChunkTruth DEF SendFile
<1>8. CASE Accept(c)
  BY <1>1, <1>8 DEF Accept, serverVars, tableVars, Stored
<1> QED
  BY <1>4, <1>5, <1>7, <1>8 DEF Server, ServerStep

(* Clients write nothing to clients. *)
LEMMA ClientsTakeOnly ==
  ASSUME Inv, Clients
  PROVE  \A c \in Conns : \A i \in 1..Len(toClient'[c]) :
           \E j \in 1..Len(toClient[c]) : toClient'[c][i] = toClient[c][j]
<1> DEFINE Leaves == \A c \in Conns : \A i \in 1..Len(toClient'[c]) :
                       \E j \in 1..Len(toClient[c]) : toClient'[c][i] = toClient[c][j]
<1>1. toClient' = toClient => Leaves
  OBVIOUS
<1>2. LeavesPart => Leaves
  BY DEF LeavesPart
<1>3. \A S \in SUBSET Conns : \A unread : Release(S, unread) => Leaves
  BY ReleaseLeaves
<1> HIDE DEF Leaves
<1>4. ASSUME NEW p \in Procs, Die(p) PROVE Leaves
  BY <1>3, <1>4 DEF Die, Mine
<1>5. ASSUME NEW p \in Procs, Start(p) \/ TypeSleep(p) PROVE Leaves
  BY <1>1, <1>5 DEF Start, TypeSleep
<1>6. ASSUME NEW p \in Procs, NEW f \in Files, TypePut(p, f) PROVE Leaves
  BY <1>1, <1>6 DEF TypePut
<1>7. ASSUME NEW p \in Procs, Input(p) PROVE Leaves
  BY <1>4, <1>5, <1>6, <1>7 DEF Input, TypeExit, Killed
<1>8. ASSUME NEW p \in Procs, ServerResponse(p) PROVE Leaves
  BY <1>2, <1>8, ResponseFacts DEF ServerResponse, ReadKnown, ReadNew
<1>9. ASSUME NEW c \in Conns, UploadChunk(c) PROVE Leaves
  BY <1>1, <1>9 DEF UploadChunk
<1>10. ASSUME NEW c \in Conns, FinishUpload(c) PROVE Leaves
  BY <1>3, <1>10 DEF FinishUpload
<1>11. ASSUME NEW c \in Conns, NEW n \in 0..Chunk, DownloadMore(c, n) PROVE Leaves
  <2>1. ReadsUnits(c, n) /\ toClient' = [toClient EXCEPT ![c] = AllBut(@, n)]
    BY <1>11 DEF DownloadMore
  <2>2. n \in 0..Len(toClient[c]) /\ StreamsTypeOK
    BY <2>1, ReadsUnitsFacts DEF Inv, TypeOK
  <2> QED
    BY <1>2, <2>1, <2>2, ReadLeavesPart
<1>12. ASSUME NEW c \in Conns, NEW n \in 0..Chunk, FinishDownload(c, n) PROVE Leaves
  BY <1>3, <1>12 DEF FinishDownload
<1>13. ASSUME NEW c \in Conns, DivideByZero(c) PROVE Leaves
  BY <1>4, <1>13, OwnerFacts DEF DivideByZero
<1>14. ASSUME NEW c \in Conns, Transfer(c) PROVE Leaves
  BY <1>9, <1>10, <1>11, <1>12, <1>13, <1>14 DEF Transfer
<1>15. Leaves
  BY <1>7, <1>8, <1>14 DEF Clients, ClientStep
<1> QED
  BY <1>15 DEF Leaves

LEMMA NextTruth ==
  ASSUME Apart, Inv, Inv', PacedInv, SharedInv, FlowInv, TruthInv, [Next]_vars
  PROVE  TruthInv'
<1>1. CASE Clients
  <2>1. UNCHANGED serverVars
    BY <1>1 DEF Clients
  <2>2. folder' = folder /\ shared' = shared /\ Stored' = Stored
    BY <2>1 DEF serverVars, tableVars, Stored
  <2>3. \A d \in Conns : \A i \in 1..Len(toClient'[d]) :
          \E j \in 1..Len(toClient[d]) : toClient'[d][i] = toClient[d][j]
    BY <1>1, ClientsTakeOnly
  <2> QED
    BY <2>2, <2>3, TruthLeftAlone
<1>2. CASE UNCHANGED vars
  <2>1. toClient' = toClient /\ UNCHANGED serverVars
    BY <1>2 DEF vars, streamVars
  <2>2. folder' = folder /\ shared' = shared /\ Stored' = Stored
    BY <2>1 DEF serverVars, tableVars, Stored
  <2>3. \A d \in Conns : \A i \in 1..Len(toClient'[d]) :
          \E j \in 1..Len(toClient[d]) : toClient'[d][i] = toClient[d][j]
    BY <2>1
  <2> QED
    BY <2>2, <2>3, TruthLeftAlone
<1> QED
  BY <1>1, <1>2, ServerTruth DEF Next, Over

-----------------------------------------------------------------------------
(* The invariant *)

LEMMA InitFlow ==
  ASSUME Init
  PROVE  FlowInv
<1>1. /\ \A c \in Conns : toServer[c] = <<>> /\ toClient[c] = <<>>
      /\ \A c \in Conns : ~InUse(receiving[c]) /\ ~InUse(uploading[c]) /\ ~InUse(downloading[c])
      /\ \A n \in Names : folder[n] = <<>>
      /\ shared = {}
  BY NoFileFacts DEF Init, StreamsInit, ServerInit, ClientInit
<1>2. ASSUME NEW c \in Conns PROVE ConnOK(c)
  <2>1. Len(toServer[c]) = 0 /\ Len(toClient[c]) = 0
    BY <1>1
  <2>2. AskedOK(c) /\ NoticeOK(c)
    BY <2>1 DEF AskedOK, NoticeOK
  <2>3. UploadOK(c) /\ ReceiveOK(c) /\ DownloadOK(c) /\ OnceOK(c)
    BY <1>1 DEF UploadOK, ReceiveOK, DownloadOK, OnceOK
  <2> QED
    BY <2>2, <2>3 DEF ConnOK
<1>3. ASSUME NEW p \in Procs, NEW n \in Names PROVE LocalOK(p, n)
  <2>1. local_files[p] = {}
    BY DEF Init, ClientInit
  <2>2. disk[p][n] = IF n[1] \in Original[p] /\ n[2] = 0 THEN Content(n[1], p) ELSE <<>>
    BY DEF Init, ClientInit
  <2> QED
    BY <2>1, <2>2 DEF LocalOK
<1>4. (\A n \in Names : FolderOK(n)) /\ SharedIsWhole
  BY <1>1 DEF FolderOK, SharedIsWhole
<1> QED
  BY <1>1, <1>2, <1>3, <1>4 DEF FlowInv

LEMMA InitTruth ==
  ASSUME Init
  PROVE  TruthInv
<1>1. /\ \A c \in Conns : toClient[c] = <<>>
      /\ \A u \in Owners : client_files[u] = {}
  BY DEF Init, StreamsInit, ServerInit
<1>2. Stored = {}
  BY <1>1 DEF Stored
<1>3. \A c \in Conns : Len(toClient[c]) = 0
  BY <1>1
<1> QED
  BY <1>2, <1>3 DEF TruthInv

LEMMA StutterFlow ==
  ASSUME Inv, Inv', FlowInv, UNCHANGED vars
  PROVE  FlowInv'
<1>1. UNCHANGED clientVars /\ toServer' = toServer /\ toClient' = toClient /\ UNCHANGED serverVars
  BY DEF vars, streamVars
<1>2. /\ receiving' = receiving /\ sending' = sending /\ folder' = folder
      /\ shared' = shared /\ Stored' = Stored
  BY <1>1 DEF serverVars, tableVars, Stored
<1> QED
  BY <1>1, <1>2, Elsewhere, FolderLeftAlone

LEMMA NextFlow ==
  ASSUME ~Slow, Apart, Inv, Inv', PacedInv, SharedInv, FlowInv, [Next]_vars
  PROVE  FlowInv'
  BY ServerFlow, ClientsFlow, StutterFlow DEF Next, Over

LEMMA FlowInvariance ==
  ASSUME ~Slow, Apart
  PROVE  Spec => []QuickInv
<1>1. Init => QuickInv
  BY InitInv, InitPaced, InitShares, InitFlow, InitTruth DEF QuickInv
<1>2. ASSUME Inv, PacedInv, SharedInv, FlowInv, TruthInv, [Next]_vars PROVE QuickInv'
  <2>1. Inv' /\ PacedInv' /\ SharedInv'
    BY <1>2, NextKeeps, NextPaced, NextShares
  <2>2. FlowInv'
    BY <1>2, <2>1, NextFlow
  <2>3. TruthInv'
    BY <1>2, <2>1, NextTruth
  <2> QED
    BY <2>1, <2>2, <2>3 DEF QuickInv
<1>3. QuickInv /\ [Next]_vars => QuickInv'
  BY <1>2 DEF QuickInv
<1> QED
  BY <1>1, <1>3, PTL DEF Spec

-----------------------------------------------------------------------------
(* What follows *)

(* A part from the start is a prefix. *)
LEMMA PartIsPrefix ==
  ASSUME Inv, NEW p \in Procs, NEW n \in Names, Part(disk[p][n], folder[n], 0)
  PROVE  IsPrefix(disk[p][n], folder[n])
<1>1. PICK s, t : s = disk[p][n] /\ t = folder[n]
  OBVIOUS
<1>2. disk \in [Procs -> [Names -> Seq(Units)]]
  BY DEF Inv, TypeOK, ClientTypeOK
<1>3. folder \in [Names -> Seq(Units)]
  BY DEF Inv, TypeOK, ServerTypeOK
<1>4. s \in Seq(Units) /\ t \in Seq(Units)
  BY <1>1, <1>2, <1>3
<1>5. Len(s) \in Nat /\ Len(t) \in Nat /\ Len(s) <= Len(t)
  BY <1>1, <1>4 DEF Part
<1>6. \A i \in 1..Len(s) : s[i] = t[i]
  BY <1>1, <1>5 DEF Part
<1>7. SubSeq(s, 1, Len(s)) = SubSeq(t, 1, Len(s))
  <2>1. /\ SubSeq(s, 1, Len(s)) = [i \in 1..Len(s) |-> s[i]]
        /\ SubSeq(t, 1, Len(s)) = [i \in 1..Len(s) |-> t[i]]
    BY <1>4, <1>5
  <2> QED
    BY <1>6, <2>1
<1> QED
  BY <1>1, <1>5, <1>7 DEF IsPrefix

(* When no two users have a file name in common: what is in the files of the  *)
(* server and of the clients, what is under way to them, and what requests ask *)
(* for, fit together in every state; the invariant of DropboxInv is inductive. *)
THEOREM FilesFlow ==
  ASSUME ~Slow, Apart
  PROVE  Spec => []QuickInv
<1> QED
  BY FlowInvariance, PTL

(* What is of p's file from its start is a prefix of it. *)
LEMMA FollowIsPrefix ==
  ASSUME NEW f \in Files, NEW p \in Procs, NEW file \in Seq(Units), Follow(file, f, p, 0)
  PROVE  IsPrefix(file, Content(f, p))
<1>1. PICK t : t = Content(f, p)
  OBVIOUS
<1>2. /\ t \in Seq(Units) /\ Len(t) = SizeOf[f]
      /\ \A i \in 1..SizeOf[f] : t[i] = Unit(f, p, i)
  BY <1>1, ContentItems
<1>3. Len(file) \in Nat /\ SizeOf[f] \in Nat /\ Len(file) <= SizeOf[f]
  <2>1. Len(file) \in Nat /\ SizeOf[f] \in Nat
    BY SizeFacts
  <2> QED
    BY <2>1 DEF Follow
<1>4. ASSUME NEW i \in 1..Len(file) PROVE file[i] = t[i]
  <2>1. i \in 1..SizeOf[f] /\ 0 + i = i
    BY <1>3
  <2>2. file[i] = Unit(f, p, 0 + i)
    BY DEF Follow
  <2> QED
    BY <1>2, <2>1, <2>2
<1>5. SubSeq(file, 1, Len(file)) = SubSeq(t, 1, Len(file))
  <2>1. /\ SubSeq(file, 1, Len(file)) = [i \in 1..Len(file) |-> file[i]]
        /\ SubSeq(t, 1, Len(file)) = [i \in 1..Len(file) |-> t[i]]
    BY <1>2, <1>3
  <2> QED
    BY <1>4, <2>1
<1>6. Len(file) <= Len(t)
  BY <1>2, <1>3
<1> QED
  BY <1>1, <1>5, <1>6 DEF IsPrefix

(* A notification that is under way is true. *)
LEMMA NoticeHolds ==
  ASSUME QuickInv, NEW c \in Conns, NEW i \in 1..Len(toClient[c]),
         toClient[c][i].type = "put"
  PROVE  NoticeIsTrue(toClient[c][i])
<1>1. PICK line : line = toClient[c][i]
  OBVIOUS
<1>2. Inv /\ FlowInv /\ TruthInv
  BY DEF QuickInv
<1>3. line \in Notices \cup Units
  <2>1. toClient[c] \in Seq(Notices \cup Units)
    BY <1>2 DEF Inv, TypeOK, StreamsTypeOK
  <2> QED
    BY <1>1, <2>1
<1>4. line.file \in Names /\ line.file \in Stored
  BY <1>1, <1>2, <1>3, NoticeFacts DEF FlowInv, ConnOK, NoticeOK
<1>5. PICK f \in Files, file \in Seq(Units) : f = line.file[1] /\ file = folder[line.file]
  <2>1. folder \in [Names -> Seq(Units)]
    BY <1>2 DEF Inv, TypeOK, ServerTypeOK
  <2> QED
    BY <1>4, <2>1, NameFacts
<1>6. line.size <= Len(file)
  BY <1>1, <1>2, <1>5 DEF TruthInv
<1>7. Len(file) \in Nat /\ SizeOf[f] \in Nat
  BY <1>5, SizeFacts
<1>8. PICK p \in Procs : Follow(file, f, p, 0)
  <2>1. CASE file # <<>>
    <3>1. FolderOK(line.file)
      BY <1>2, <1>4 DEF FlowInv
    <3> QED
      BY <1>5, <2>1, <3>1 DEF FolderOK
  <2>2. CASE file = <<>>
    <3>1. far[c] = "open"
      <4>1. toClient[c] # <<>>
        OBVIOUS
      <4> QED
        BY <1>2, <4>1 DEF Inv, FarInv, FarOK
    <3>2. owner[c] \in Procs
      <4>1. owner \in [Conns -> Procs \cup {NoProc}]
        BY <1>2 DEF Inv, TypeOK, ClientTypeOK
      <4>2. owner[c] # NoProc
        BY <1>2, <3>1 DEF Inv, FarInv, FarOK
      <4> QED
        BY <4>1, <4>2
    <3>3. Len(file) = 0
      BY <2>2
    <3>4. Follow(file, f, owner[c], 0)
      <4>1. 0 + Len(file) <= SizeOf[f]
        BY <1>7, <3>3
      <4>2. \A k \in 1..Len(file) : FALSE
        BY <3>3
      <4> QED
        BY <4>1, <4>2 DEF Follow
    <3> QED
      BY <3>2, <3>4
  <2> QED
    BY <2>1, <2>2
<1>9. IsPrefix(file, Content(f, p))
  BY <1>8, FollowIsPrefix
<1>10. ASSUME line.file \in shared PROVE file = Content(f, p)
  <2>1. PICK q \in Procs : file = Content(f, q)
    BY <1>2, <1>5, <1>10 DEF FlowInv, SharedIsWhole
  <2>2. Len(file) = SizeOf[f]
    BY <2>1, ContentItems
  <2> QED
    BY <1>8, <2>2, WholeIsContent
<1>11. ASSUME SizeOf[f] > 0, file = Content(f, p) PROVE line.file \in shared
  <2>1. Len(file) = SizeOf[f]
    BY <1>11, ContentItems
  <2>2. ~(Len(file) < SizeOf[f])
    BY <1>7, <2>1
  <2> QED
    BY <1>2, <1>4, <1>5, <1>11, <2>2 DEF TruthInv
<1> HIDE DEF Content, IsPrefix
<1>12. NoticeIsTrue(line)
  BY <1>5, <1>6, <1>9, <1>10, <1>11 DEF NoticeIsTrue
<1> QED
  BY <1>1, <1>12

(* When no two users have a file name in common, what a client is told of a    *)
(* file is so, whether sync_peers tells it of a complete file or               *)
(* sync_new_connection of one that may still come or have broken off: there is *)
(* as much of it as the line says, a beginning of what one client put, and it  *)
(* is whole exactly when sync_peers announced it.                              *)
THEOREM NoticesTellTheTruth ==
  ASSUME ~Slow, Apart
  PROVE  Spec => []NoticesAreTrue
<1>1. QuickInv => NoticesAreTrue
  BY NoticeHolds DEF NoticesAreTrue
<1> QED
  BY <1>1, FlowInvariance, PTL

(* When no two users have a file name in common, what a client has of a file   *)
(* it asked for is a beginning of the server's, also of one that is still      *)
(* being uploaded (download_file).                                             *)
THEOREM DownloadsArePrefixes ==
  ASSUME ~Slow, Apart
  PROVE  Spec => []DownloadIsPrefix
<1>1. ASSUME Inv, FlowInv, NEW p \in Procs, NEW n \in local_files[p]
      PROVE  IsPrefix(disk[p][n], folder[n]) \/ disk[p][n] = Content(n[1], p)
  <2>1. n \in Names
    BY <1>1 DEF Inv, TypeOK, ClientTypeOK
  <2>2. CASE disk[p][n] = Content(n[1], p)
    BY <2>2
  <2>3. CASE Part(disk[p][n], folder[n], 0)
    BY <1>1, <2>1, <2>3, PartIsPrefix
  <2>4. LocalOK(p, n)
    BY <1>1, <2>1 DEF FlowInv
  <2> QED
    BY <1>1, <2>2, <2>3, <2>4 DEF LocalOK
<1>2. QuickInv => DownloadIsPrefix
  BY <1>1 DEF QuickInv, DownloadIsPrefix
<1> QED
  BY <1>2, FlowInvariance, PTL

-----------------------------------------------------------------------------
(* The refinement: every step publishes a file, gives one to a client, or is   *)
(* nothing to SharedFolder.                                                    *)

LEMMA HoldersFacts ==
  ASSUME NEW h
  PROVE  h \in Holders <=> \E p \in Procs, n \in shared : h = <<p, n>> /\ disk[p][n] = folder[n]
  BY DEF Holders

LEMMA HoldersFactsNext ==
  ASSUME NEW h
  PROVE  h \in Holders' <=>
           \E p \in Procs, n \in shared' : h = <<p, n>> /\ disk'[p][n] = folder'[n]
  BY DEF Holders

(* A file that is announced was not before. *)
LEMMA PublishMaps ==
  ASSUME Stays, SharedIsWhole', disk' = disk, NEW name \in Names \ shared,
         shared' = shared \cup {name}
  PROVE  Folder!FolderNext
<1>1. PICK p \in Procs : folder'[name] = Content(name[1], p)
  BY DEF SharedIsWhole
<1>2. PICK file : file = folder'[name]
  OBVIOUS
<1>3. file \in {Content(name[1], q) : q \in Procs}
  BY <1>1, <1>2
<1>4. \A other : <<name, other>> \notin Published
  BY DEF Published
<1>5. Published' = Published \cup {<<name, file>>}
  <2>1. ASSUME NEW x PROVE x \in Published' <=> x \in Published \cup {<<name, file>>}
    BY <1>2 DEF Published, Stays
  <2> QED
    BY <2>1
<1>6. PICK S \in SUBSET Procs : S = {q \in Procs : disk[q][name] = file}
  OBVIOUS
<1>7. Holders' = Holders \cup (S \X {name})
  <2>1. ASSUME NEW q \in Procs, NEW n \in shared'
        PROVE  <<q, n>> \in Holders' <=> <<q, n>> \in Holders \cup (S \X {name})
    <3>1. CASE n = name
      BY <1>2, <1>6, <3>1, HoldersFacts, HoldersFactsNext
    <3>2. CASE n # name
      <4>1. n \in shared /\ folder'[n] = folder[n]
        BY <3>2 DEF Stays
      <4> QED
        BY <3>2, <4>1, HoldersFacts, HoldersFactsNext
    <3> QED
      BY <3>1, <3>2
  <2>2. ASSUME NEW h \in Holders' PROVE \E q \in Procs, n \in shared' : h = <<q, n>>
    BY HoldersFactsNext
  <2>3. ASSUME NEW h \in Holders \cup (S \X {name})
        PROVE  \E q \in Procs, n \in shared' : h = <<q, n>>
    BY HoldersFacts
  <2> QED
    BY <2>1, <2>2, <2>3
<1>8. Folder!Publish(name, file)
  BY <1>4, <1>5, <1>7 DEF Folder!Publish
<1> QED
  BY <1>3, <1>8 DEF Folder!FolderNext

(* A client that writes to a file that it does not hold may come to hold it.   *)
LEMMA FetchMaps ==
  ASSUME SharedIsWhole, shared' = shared, folder' = folder,
         NEW p \in Procs, NEW name \in Names,
         \A q \in Procs, n \in Names : q # p \/ n # name => disk'[q][n] = disk[q][n],
         shared \subseteq Names,
         name \in shared /\ disk[p][name] = folder[name] => disk'[p][name] = folder[name]
  PROVE  Folder!FolderNext \/ UNCHANGED Folder!folderVars
<1>1. Published' = Published
  BY DEF Published
<1>2. ASSUME NEW q \in Procs, NEW n \in shared, <<q, n>> # <<p, name>>
      PROVE  <<q, n>> \in Holders' <=> <<q, n>> \in Holders
  <2>1. disk'[q][n] = disk[q][n]
    BY <1>2
  <2> QED
    BY <2>1, HoldersFacts, HoldersFactsNext
<1>3. <<p, name>> \in Holders => <<p, name>> \in Holders'
  BY HoldersFacts, HoldersFactsNext
<1>4. ASSUME NEW h \in Holders \cup Holders'
      PROVE  \E q \in Procs, n \in shared : h = <<q, n>>
  BY HoldersFacts, HoldersFactsNext
<1>5. CASE <<p, name>> \in Holders' /\ <<p, name>> \notin Holders
  <2>1. name \in shared
    BY <1>5, HoldersFactsNext
  <2>2. PICK q \in Procs : folder[name] = Content(name[1], q)
    BY <2>1 DEF SharedIsWhole
  <2>3. \E file \in {Content(name[1], r) : r \in Procs} : <<name, file>> \in Published
    BY <2>1, <2>2 DEF Published
  <2>4. Holders' = Holders \cup {<<p, name>>}
    BY <1>2, <1>4, <1>5
  <2>5. Folder!Fetch(p, name)
    BY <1>1, <2>3, <2>4 DEF Folder!Fetch
  <2> QED
    BY <2>5 DEF Folder!FolderNext
<1>6. CASE ~(<<p, name>> \in Holders' /\ <<p, name>> \notin Holders)
  <2>1. Holders' = Holders
    BY <1>2, <1>3, <1>4, <1>6
  <2> QED
    BY <1>1, <2>1 DEF Folder!folderVars
<1> QED
  BY <1>5, <1>6

(* Nothing was announced, and no client has written. *)
LEMMA NothingMaps ==
  ASSUME Stays, shared' = shared, disk' = disk
  PROVE  UNCHANGED Folder!folderVars
<1>1. Published' = Published
  BY DEF Published, Stays
<1>2. Holders' = Holders
  BY DEF Holders, Stays
<1> QED
  BY <1>1, <1>2 DEF Folder!folderVars

(* The server announces a file at a time. *)
LEMMA OneIsAnnounced ==
  ASSUME Inv, SharedInv, NEW c \in Conns, Server(c)
  PROVE  \/ shared' = shared
         \/ \E name \in Names \ shared : shared' = shared \cup {name}
<1>1. ASSUME NEW n \in 0..Chunk, FinishReceive(c, n), shared' # shared
      PROVE  \E name \in Names \ shared : shared' = shared \cup {name}
  <2>1. ReadsData(c, n) /\ shared' = shared \cup {receiving[c].file_name}
    BY <1>1 DEF FinishReceive
  <2>2. receiving[c].file_name \in Names
    BY <2>1, ReadsDataFacts
  <2>3. receiving[c].file_name \notin shared
    BY <2>1, OwnNameFacts DEF ReadsData
  <2> QED
    BY <2>1, <2>2, <2>3
<1>2. CASE ReceiveFile(c)
  BY <1>1, <1>2 DEF ReceiveFile, ReceiveMore
<1>3. CASE HandleClient(c)
  BY <1>3 DEF HandleClient, Hangup, Leave, Disconnect, Ignore, Name, Get, Put, PutWithData,
              serverVars
<1>4. CASE Accept(c) \/ SendFile(c)
  BY <1>4 DEF Accept, SendFile, SendChunk, FinishSend, serverVars
<1> QED
  BY <1>2, <1>3, <1>4 DEF Server, ServerStep

LEMMA ServerMaps ==
  ASSUME Inv, SharedInv, FlowInv', Stays, NEW c \in Conns, Server(c)
  PROVE  Folder!FolderNext \/ UNCHANGED Folder!folderVars
<1>1. disk' = disk
  BY DEF Server, clientVars
<1>2. SharedIsWhole'
  BY DEF FlowInv
<1> QED
  BY <1>1, <1>2, OneIsAnnounced, PublishMaps, NothingMaps

(* A client that opens a file for writing had none of that name: its own is    *)
(* kept if it was put, and is not the one announced otherwise.                 *)
LEMMA ReadNewMaps ==
  ASSUME Inv, FlowInv, UNCHANGED serverVars,
         NEW p \in Procs, NEW n \in 1..Capacity, ReadNew(p, n)
  PROVE  Folder!FolderNext \/ UNCHANGED Folder!folderVars
<1>1. PICK name : name = Head(toClient[fd_cmd[p]]).file
  OBVIOUS
<1>2. /\ Response(p, n) /\ Head(toClient[fd_cmd[p]]).type = "put" /\ name \notin local_files[p]
      /\ disk' = [disk EXCEPT ![p][name] = <<>>]
  BY <1>1 DEF ReadNew
<1>3. name \in Names
  <2>1. Head(toClient[fd_cmd[p]]) \in Notices \cup Units
    BY <1>2, ResponseFacts
  <2> QED
    BY <1>1, <1>2, <2>1, NoticeFacts
<1>4. disk \in [Procs -> [Names -> Seq(Units)]]
  BY DEF Inv, TypeOK, ClientTypeOK
<1>5. /\ disk'[p][name] = <<>>
      /\ \A q \in Procs, m \in Names : q # p \/ m # name => disk'[q][m] = disk[q][m]
  BY <1>2, <1>3, <1>4
<1>6. folder' = folder /\ shared' = shared /\ shared \subseteq Names /\ SharedIsWhole
  BY DEF serverVars, Inv, TypeOK, ServerTypeOK, FlowInv
<1>7. ASSUME disk[p][name] = folder[name] PROVE folder[name] = <<>>
  <2>1. PICK f \in Files : f = name[1]
    BY <1>3, NameFacts
  <2>2. CASE disk[p][name] = <<>>
    BY <1>7, <2>2
  <2>3. CASE name[2] = 0 /\ disk[p][name] = Content(f, p)
    <3> SUFFICES ASSUME folder[name] # <<>> PROVE FALSE
      OBVIOUS
    <3>1. PICK q \in Procs : Follow(folder[name], f, q, 0) /\ Kept(q, f)
      BY <1>3, <2>1 DEF FlowInv, FolderOK
    <3>2. PICK size \in Nat : size = SizeOf[f]
      BY SizeFacts
    <3>3. /\ folder[name] \in Seq(Units) /\ Len(folder[name]) = size
          /\ \A i \in 1..size : folder[name][i] = Unit(f, p, i)
      BY <1>7, <2>3, <3>2, ContentItems
    <3>4. 1 \in 1..size
      BY <3>3
    <3>5. folder[name][1] = Unit(f, q, 1)
      BY <3>1, <3>3, <3>4 DEF Follow
    <3>6. p = q
      BY <3>3, <3>4, <3>5, UnitsDiffer
    <3>7. name = <<f, 0>>
      BY <1>3, <2>1, <2>3, NameFacts
    <3> QED
      BY <1>2, <3>1, <3>2, <3>4, <3>6, <3>7 DEF Kept
  <2>4. LocalOK(p, name)
    BY <1>3 DEF FlowInv
  <2> QED
    BY <1>2, <2>1, <2>2, <2>3, <2>4 DEF LocalOK
<1> QED
  BY <1>3, <1>5, <1>6, <1>7, FetchMaps

(* A copy that is whole is written to no more. *)
LEMMA ReadsUnitsMaps ==
  ASSUME Inv, FlowInv, UNCHANGED serverVars,
         NEW c \in Conns, NEW n \in 0..Chunk, ReadsUnits(c, n)
  PROVE  Folder!FolderNext \/ UNCHANGED Folder!folderVars
<1>1. PICK p, name : p = owner[c] /\ name = downloading[c].file_name
  OBVIOUS
<1>2. PICK units, mine, file :
        units = toClient[c] /\ mine = disk[p][name] /\ file = folder[name]
  OBVIOUS
<1>3. /\ p \in Procs /\ name \in Names /\ n \in 0..Len(units)
      /\ units \in Seq(Units) /\ file \in Seq(Units) /\ mine \in Seq(Units)
      /\ disk'[p][name] = WriteAt(mine, Len(mine), First(units, n))
      /\ Part(units, file, Len(mine))
      /\ \A q \in Procs, m \in Names : q # p \/ m # name => disk'[q][m] = disk[q][m]
  BY <1>1, <1>2, ReadsUnitsFlow
<1>4. folder' = folder /\ shared' = shared /\ shared \subseteq Names /\ SharedIsWhole
  BY DEF serverVars, Inv, TypeOK, ServerTypeOK, FlowInv
<1>5. ASSUME mine = file PROVE disk'[p][name] = file
  <2>1. Len(units) = 0 /\ n = 0
    BY <1>3, <1>5 DEF Part
  <2>2. PICK more : more = WriteAt(mine, Len(mine), First(units, n))
    OBVIOUS
  <2>3. /\ more \in Seq(Units) /\ Len(more) = Len(mine) + n
        /\ \A i \in 1..Len(mine) : more[i] = mine[i]
    BY <1>3, <2>2, AppendFacts
  <2>4. more = mine
    BY <1>3, <2>1, <2>3
  <2> QED
    BY <1>3, <1>5, <2>2, <2>4
<1> QED
  BY <1>2, <1>3, <1>4, <1>5, FetchMaps

LEMMA ClientsMap ==
  ASSUME Inv, FlowInv, Stays, Clients
  PROVE  Folder!FolderNext \/ UNCHANGED Folder!folderVars
<1>1. UNCHANGED serverVars /\ ClientStep /\ shared' = shared
  BY DEF Clients, serverVars
<1>2. CASE disk' = disk
  BY <1>1, <1>2, NothingMaps
<1>3. ASSUME NEW c \in Conns, Transfer(c)
      PROVE  Folder!FolderNext \/ UNCHANGED Folder!folderVars
  <2>1. ASSUME NEW n \in 0..Chunk, DownloadMore(c, n) \/ FinishDownload(c, n)
        PROVE  Folder!FolderNext \/ UNCHANGED Folder!folderVars
    BY <1>1, <2>1, ReadsUnitsMaps DEF DownloadMore, FinishDownload
  <2> QED
    BY <1>2, <1>3, <2>1 DEF Transfer, UploadChunk, FinishUpload, DivideByZero, Die
<1>4. ASSUME NEW p \in Procs, ServerResponse(p)
      PROVE  Folder!FolderNext \/ UNCHANGED Folder!folderVars
  <2>1. ASSUME NEW n \in 1..Capacity, ReadKnown(p, n) PROVE disk' = disk
    BY <2>1 DEF ReadKnown, clientVars
  <2> QED
    BY <1>1, <1>2, <1>4, <2>1, ReadNewMaps DEF ServerResponse
<1>5. ASSUME NEW p \in Procs, Input(p) PROVE disk' = disk
  BY <1>5 DEF Input, Start, TypePut, TypeSleep, TypeExit, Killed, Die, clientVars
<1> QED
  BY <1>1, <1>2, <1>3, <1>4, <1>5 DEF ClientStep

LEMMA InitMaps ==
  ASSUME Init
  PROVE  Folder!FolderInit
<1>1. shared = {}
  BY DEF Init, ServerInit
<1> QED
  BY <1>1 DEF Folder!FolderInit, Published, Holders

(* The server and the clients of users who have no file name in common, with   *)
(* connections that come and go, clients that are killed and files that are    *)
(* read while they grow, do what SharedFolder says: whole files get names, and *)
(* who has one keeps it.                                                       *)
THEOREM DropboxImplementsFolder ==
  ASSUME ~Slow, Apart
  PROVE  Spec => ImplementsSharedFolder
<1>1. Init => Folder!FolderInit
  BY InitMaps
<1>2. ASSUME Inv, PacedInv, SharedInv, FlowInv, FlowInv', [Next]_vars
      PROVE  [Folder!FolderNext]_(Folder!folderVars)
  <2>1. Stays
    BY <1>2, NextShares
  <2>2. CASE UNCHANGED vars
    <3>1. shared' = shared /\ disk' = disk
      BY <2>2 DEF vars, serverVars, clientVars
    <3> QED
      BY <2>1, <3>1, NothingMaps
  <2>3. CASE Clients
    BY <1>2, <2>1, <2>3, ClientsMap
  <2>4. ASSUME NEW c \in Conns, Server(c)
        PROVE  Folder!FolderNext \/ UNCHANGED Folder!folderVars
    BY <1>2, <2>1, <2>4, ServerMaps
  <2> QED
    BY <1>2, <2>2, <2>3, <2>4 DEF Next, Over
<1>3. QuickInv /\ QuickInv' /\ [Next]_vars => [Folder!FolderNext]_(Folder!folderVars)
  BY <1>2 DEF QuickInv
<1> QED
  BY <1>1, <1>3, FlowInvariance, PTL DEF Spec, ImplementsSharedFolder, Folder!FolderSpec
=============================================================================
