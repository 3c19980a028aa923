# Formal models of np-homeworks

TLA+ modules for the network programming homeworks of this repository, checked
with TLC on small instances and, for the main safety properties, proved with
TLAPS for every value of the constants. Paths are relative to `src/`.

The repository holds four unrelated programs, and each has its models: `Udp*`
and `FileCopy` for hw2, `Chat*` for hw1, `Dropbox*` and `SharedFolder` for hw3,
`TextTool` for hw0.

## 1. Inventory

| Part | State | Operations | Interacts with | Hard behaviour | What makes it correct |
|---|---|---|---|---|---|
| **hw2 sender** `hw2/sender/sender.hpp` | current packet, `syn`, stream position, `connecting`, timer | `send_file`; `send_packet` in three classes: `select()`, `SO_RCVTIMEO`, `SIGALRM` | datagrams to the receiver, `int` acknowledgements back | loss, late acknowledgements, timers that race with answers, ICMP errors, `int` offsets | never ahead of the receiver; never blocked without a timer; always ends |
| **hw2 receiver** `hw2/receiver/receiver.hpp` | last `syn`, output stream and its error flags, output file | one loop: receive, open or write, acknowledge | as above | duplicates, name packet received twice, death and restart | output is a prefix of the input; complete after a finished transfer |
| **hw1 server loop** `hw1/server/server.hpp` | `clients`, event batch, read buffers | `run`, `disconnect`, `send`, `forEachClient` | calls the handlers of `server.cpp`; sockets, epoll | edge-triggered events, descriptors that are reused, `accept()` failing, SIGPIPE | `clients` is exact; nobody is dropped without cause; input is read |
| **hw1 commands** `hw1/server/server.cpp` | `fd_name_map`, `name_fd_map` | `who name yell tell check exit`, connect, disconnect | called back by the loop; calls `disconnect` and `send` | two maps that must agree, lines after `exit`, coalesced lines | unique names; `tell` reaches the holder of the name |
| **hw1 client** `hw1/client/` | `connecting` | write what is typed, print what comes | the server, stdin | newline stripped, so writes run together | (environment of the server) |
| **hw1 `select_server`** `hw1/server/server.hpp:22-173` | as the epoll loop | as the epoll loop | used by no program | erases from the set it iterates over | (not modelled) |
| **hw3 server** `hw3/server.cpp`, `general.hpp` | `name_map`, `name_clients_map`, `client_files`, `fd_file_map`, `sending`, `receiving`, `fail_count`, the directory | `/name /put /get /exit`, `receive_file`, `send_file`, `sync_peers`, `sync_new_connection`, `disconnect` | one command connection per client and one more for each transfer | commands without an end mark, descriptors that are reused, uploads that break off, partial writes, SIGPIPE | its maps agree; what clients are told of files is so; `sync_peers` announces whole files only, and they stay; transfers end |
| **hw3 client** `hw3/client.cpp` | `uploading`, `downloading`, `local_files`, its directory | `/put /sleep /exit` typed, `/put` from the server, `upload_file`, `download_file` | as above | notifications read together, the 50 ms pause, iterators after erasure, division by a size of 0 | what it has of a file is a beginning of the server's; it fetches what it is told of |
| **hw0** `hw0/hw0.cpp` | local variables | `main`, `process`, `trim`, `split` | a file, stdin | `npos` kept in an `int`, delimiters that overlap | equals a reference definition of trimming and splitting |

`PROJECT.json` lists every hazard found while reading, at its line, with the
properties that watch it or the reason none does yet.

## 2. Modules

    UdpFile     UdpNetwork            ChatKernel
        \       /     \                   |
        UdpSender   UdpReceiver       ChatServer -- ChatRoom
              \      /                    |         (instance)
            UdpTransfer -- FileCopy   ChatServerInv
                 |       (instance)     /       \
           UdpTransferInv       MCChatServer  ChatServerProofs
            /         \
    MCUdpTransfer  UdpTransferProofs
                        |
                  UdpRefinementProofs

              DropboxStreams               TextTool
                    |                      /      \
               DropboxFiles          MCTextTool  TextToolProofs
               /          \
      DropboxServer   DropboxClient
               \          /
                 Dropbox -- SharedFolder (instance)
                    |
                DropboxInv
               /          \
        MCDropbox    DropboxLemmas -- DropboxProofs -- DropboxPacedProofs
                                                              |
                                                      DropboxFlowProofs

### hw2: stop-and-wait file transfer

* `UdpFile` – the header, and how `send_file` cuts the file: `BytesAt`, `AtEof`
  (eof only after a short read), `AsInt` (`int offset = file.tellg()` truncates).
  A payload is the position of its first byte.
* `UdpNetwork` – *external*: two channels with a capacity, loss, duplication,
  optional reordering, and the ICMP error an absent receiver causes.
* `UdpSender` – `send_file` and the three `send_packet`s. `send_packet` is two
  steps because the process can only be overtaken where it blocks: `SendPacket`
  (write) and then one of `AckMatches`, `AckStale`, `Timeout`, `AlarmSignal`,
  `ReadError`. The three classes differ in the timer: per call (`"select"`,
  `"rcvtimeo"`) or running freely and re-armed by its own handler (`"alarm"`).
* `UdpReceiver` – the body of the loop of `run()` is one action, `ReceivePacket`.
  The `ofstream` is modelled by what libstdc++ does: `open()` on an open stream
  sets failbit and changes nothing, a failed stream drops writes. The process
  may die (`CrashReceiver`; buffered output is lost) and be started again.
* `UdpTransfer` – one sender, one receiver and the path; the properties.
* `FileCopy` – what the transfer promises, without packets: chunks are stored in
  order, each once, and counted as done only when stored, unless the sink broke.

### hw1: chat

* `ChatKernel` – *external*: descriptors (`accept()` gives the lowest free one),
  connection states, inboxes, the edge-triggered ready list, SIGPIPE and RST.
* `ChatServer` – `epoll_server::Server::run` as `EpollWait`, `NewConnection`
  (the listener's event with `handleNewConnection`), `ReadClient` (one `read()`),
  and one action per command of `handleClient`. Each action is the whole handler
  with all its writes; every write may kill the server when the connection was
  reset. Lines that were read together are handled one per step; between two of
  them only clients move, for the server is one thread. A missing key of a map
  reads as `""` or `0`, as `operator[]` makes it. `name` without a word reads
  beyond the vector: the process dies or goes on with any word. The clients of
  `hw1/client` type segments, close, or disappear with a RST; the last newline
  of what they type is stripped, so two writes read at once run together
  (`Glue`).
* `ChatRoom` – what it promises, without sockets, events or lines: guests come
  and go, a name is one guest's at a time, and a message for a name that a guest
  has goes to that guest. `ChatServer` maps `clients` to the guests, and to the
  names those of `fd_name_map` that a user may choose.

### hw3: dropbox

* `DropboxStreams` – *external*: TCP connections as two bounded streams. A
  non-blocking write puts in what fits (`Fit`); a client that closes with unread
  data, or is written to after it closed, makes a RST; a write after the RST is
  the server's death by SIGPIPE. A descriptor is handed out again when both ends
  are closed.
* `DropboxFiles` – `FileInfo` of `general.hpp`. A file is a sequence of units and
  knows who made it, so that a piece of the wrong file, or at the wrong place, is
  told apart. The name `f(k)` is the pair `<<f, k>>`.
* `DropboxServer` – one step is one turn of the epoll loop for one descriptor:
  `Accept`, `HandleClient` (`Hangup`, `Leave`, `Ignore`, `Name`, `Get`, `Put`,
  `PutWithData`), `ReceiveFile` (`ReceiveMore`, `FinishReceive` with `sync_peers`),
  `SendFile` (`SendChunk`, `FinishSend`). `Name` is also `sync_new_connection`:
  `Catalogue` tells of every name of the user's, whether its upload is complete, under
  way or broken off. `epoll_wait` returns batches, but every handler closes its own
  descriptor only, so the order in a batch is the order of the steps and an event is
  never stale. A read takes any number of the items that are there; `Command` and
  `PutWithData` say what the tokens of several make. `folder` is the server's
  directory, `shared` a history variable: the names `sync_peers` has announced. The
  set `clients` is the set of connections that are open.
* `DropboxClient` – a client is a process with a directory, a command connection
  and its transfers: `Start`, `TypePut`, `TypeSleep`, `TypeExit`, `Killed`;
  `ReadKnown` and `ReadNew` (`server_response`); `UploadChunk`, `FinishUpload`,
  `DownloadMore`, `FinishDownload`, `DivideByZero`. Death stands for the user and
  for the use of an iterator after `erase` alike. `usleep(50000)` before the
  first data is the constant `Slow`: when it is FALSE the pause
  (`client.cpp:195`) is long enough, and the server has read the request before
  data comes; when it is TRUE it may not have. A client runs once: it is not
  started again in the directory it left.
* `Dropbox` – both, the properties and the fairness.
* `SharedFolder` – what it promises to users who have no file name in common:
  whole files are published under names of their own, do not change, and who came
  to hold one keeps it, for the lifetime of that process. In
  `Dropbox` a file is published when `sync_peers` announces it, and held by the
  clients whose copy equals the server's.

### hw0: text tool

* `TextTool` – `main` line by line, `process` and `trim`; a turn of the loop of
  `split` is an action (`FindDelim`, `SkipChar`), with `npos` as -1 just as the
  code keeps it in an `int`. A word that is a command counts as one character.
* `MCTextTool` – the reference: stripping, splitting and obeying by recursion.

Definitions called *Mutant of X* are small, plausible bugs of `X`; `PROJECT.json`
says which property each of them violates when it takes the place of `X`.

## 3. Runs

| Run | What it asks | Distinct states |
|---|---|---|
| `udp_safety` | `select()` sender, 3 chunks (the last one short), channels of 3, 2 receiver deaths: all safety properties, the inductive invariant, `ImplementsFileCopy`, `Termination` | 32 016 |
| `udp_live` | `Termination`, SIGALRM, a file that ends at a chunk boundary, datagrams that overtake each other, one death | 32 000 |
| `udp_retry` | **violated**: `EveryFinishIsComplete` | – |
| `chat_names` | 2 descriptors handed out again and again, names taken, changed and asked for, lines after `exit`; the inductive invariant, `ImplementsChatRoom` | 1 784 938 |
| `chat_live` | every command, 2 segments per inbox, `accept()` failing, server deaths: no unread input without an event to come (`UnreadIsDue`), what is written is read, who leaves is removed | 400 889 |
| `chat_stale` | **violated**: `TellReachesNamed` | – |
| `chat_anonymous` | **violated**: `AnonymousCannotTell` | – |
| `drop_safety` | 2 clients of one user, 4 descriptors, a file put twice and fetched under both names, a client that is killed: the maps, `SharedStays`, `ImplementsSharedFolder`, the inductive invariant `QuickInv` | 631 144 |
| `drop_live` | a file of 4 units over buffers of 2; both clients may `/exit` at any time, one may be killed: `TransfersEnd`, `UploadIsShared`, `NoticesAreTrue` (what clients are told of whole, running and broken-off uploads), `QuickInv`: nothing lost, every piece in its place, nothing left behind | 99 995 |
| `drop_slow` | 2 users with 3 clients, `/sleep`, and a server slower than the pause: requests run together; `NobodyWaitsInVain`, `ClientsGetTheirOwn`, the inductive invariant `Inv` | 674 740 |
| `drop_notices` | **violated**: `NotifiedIsFetched` | – |
| `text_tool` | `split` and `reverse` of all lines of up to 5 letters and blanks, 4 delimiters, 2 of which overlap themselves | 68 106 |

**Why the bounds are enough.** hw2: three chunks give a first, a middle and a
last packet; `MaxSyn` is above the last sequence number and never binds; three
slots hold a packet, its copy and its predecessor's copy; `HalfInt = 2` makes
the offset wrap inside a file of five bytes; two deaths let the receiver die
before and after the file is complete. The `select()` and the `SO_RCVTIMEO`
sender are the same machine in the model (a timer per call); the proofs are for
every variant. hw1: two descriptors and two names are what a conflict takes;
descriptors are reused without limit, so histories are unbounded although the
state is finite. hw3: two uploads of one name are what takes two names
(`MaxCopies = 1`), and a client that puts beside one that fetches is what
`sync_peers` needs; three descriptors are two command connections and a
transfer, four let an upload and a download, or two uploads, overlap; a file of
four units does not fit into a buffer of two, so writes have to wait, and the
buffer holds less than a whole catalogue. Three clients are one that uploads, one
of its user's that must be told and one of another user's that must not, on
descriptors that pass from one to the other. hw0: five letters leave room for a
delimiter of three at either end, twice, or overlapping itself. `MaxQueue`,
`MaxPending`, `MaxSyn`, `MaxCrashes`, `MaxCopies` (with `puts`) and `Capacity`
are the bounds of the models; only `Capacity` exists in reality (a socket's
buffer).

**Fairness.** hw2: a process that can run does; clocks advance; a dead receiver
is started again; `read()` is strongly fair, because it returns at once when an
answer is there, so that the timer cannot win for ever; and at some time the
network stops losing and duplicating. Without the last one the file may never
arrive, and no retransmission protocol can help it. hw1: only the server's own
step, weakly: one process that waits nowhere but in `epoll_wait`. hw3: each
process as a whole is weakly fair, the server while epoll reports something and a
client while `select()` does; which descriptor comes first is left open. hw0: the
tool runs. Nothing is assumed of users.

**What the violated runs show.** (1) A name packet that is sent again finds the
output stream open; `open()` fails, sets failbit, and all data is dropped while
each packet is acknowledged and the sender prints "succeed!"
(`receiver.hpp:43`). (2) NAME leaves the old name registered, so TELL passes
"check target user exist" for a name nobody has (`server.cpp:112-113, 131`).
(3) TELL's check of the sender compares with "anonymouse" (`server.cpp:122`).
(4) `server_response` looks at the first command of what it read
(`hw3/client.cpp:154`): two notifications that come together are one, and the
second file is never fetched.

**Where the passing properties stop.**

* hw2: on a path that reorders datagrams `InOrder` and `NeverAhead` are false:
  remembering one sequence number needs an order-preserving path.
* hw1: `UnreadIsDue` and `EveryLineIsRead` need a read that takes all there is
  (`ReadMax >= MaxQueue`): more than 2048 bytes in one edge stay unread until the
  client writes again (`server.hpp:221`). `QuietLeaverIsRemoved` is about clients
  that close when all was read: data and FIN in one edge leave a client that is
  listed, and keeps its name, until a write to it is answered by a RST.
  `ClientsAreOpen` leaves out the client -1 that a failing `accept()` makes.
* hw1 and hw3: a write to a client that reset its connection may kill the server
  (SIGPIPE), and so may `name` without its word. The liveness properties are of a
  server that lives (`~alive`): they tolerate these deaths and do not speak
  against them. A client's death by the division by 0 or by an erased iterator is
  tolerated too; what is checked is that the server gets over it.
* hw3: `UploadArrives`, `UploadIsShared` and `FreshDescriptors` need the pause to
  work (`Slow = FALSE`). Without it a `/put` that is read together with data
  takes the data up to a blank for a part of the user's name
  (`hw3/server.cpp:116-120`), and the upload never reaches its size. `SharedStays`,
  `NoticesAreTrue`, `DownloadIsPrefix` and `ImplementsSharedFolder` are about users
  who have no file name in common (`Apart`): the names are chosen per user, but the
  directory is one (`server.cpp:102`), and when two users put files of one name TLC
  finds `NoticesAreTrue` and `SharedStays` violated at once.
* hw3: "announced" in `SharedStays`, `UploadIsShared` and `SharedFolder` means by
  `sync_peers`, when the file is whole. `sync_new_connection` uses the same line
  for every name in `client_files`, also of an upload that is under way, and of one
  that broke off, whose name nothing removes (`server.cpp:72-77, 101`).
  `NoticesAreTrue` is about both: the size told is no more than is there, what is
  there is a beginning of one client's file, and it is all of it exactly when
  `sync_peers` announced it. A client that is told of a part stops at the size it
  was told and keeps the part for the file (`server.cpp:74`, `client.cpp:162`);
  `DownloadIsPrefix` says no more than that it is a beginning.

## 4. Proofs

`ASSUME`s are the types of the constants, that `MAX_DATA_SIZE` and the int range
are even, that `""` and `"anonymous"` are no valid names, that a name which ran
together is no user's, that a buffer holds a chunk, and that a delimiter has a
character.

**hw2** (`UdpTransferProofs`, `UdpRefinementProofs`). The safety properties are
not inductive: that the output is a prefix of the input depends on what is still
in the channels. `Inv` (module `UdpTransferInv`) says what they hold: every
packet on its way is the sender's present or previous one, in order
(`PacketsInv`); no acknowledgement is newer than a packet still on its way, so a
stale copy can never confirm the next packet (`AcksInv`); the receiver is at most
one packet behind (`ReceiverInv`); the number of pieces stored follows from its
sequence number while the stream works (`StreamInv`). It is preserved by every
action when `Reorder = FALSE`, which gives `OutputIsPrefix`, `SenderNeverAhead`,
`FinishedIsComplete`, `FinishedIsFinal` and, step by step,
`TransferImplementsCopy`: every step of the transfer is a step of `FileCopy` or
leaves it unchanged. `TransferInvariant` states `Inv` itself. `TypeCorrect` and
`WaitIsTimed` need no order, and neither does `NameIsMarked`: while it sends, the
sender's position is a multiple of the chunk size (`MarkInv`), hence even, and
stays even when `int offset` wraps at an even range; the marker -1 is odd. So no
data packet in the channel, however old, carries the marker.

**hw1** (`ChatServerProofs`). The two maps do *not* agree: after a rename, and
after a `name` that follows `exit`, `name_fd_map` has entries that no one has.
What is inductive is the other direction, `NamesInv`: who has a name is
registered under it, whether still connected or not. Hence disconnecting a client
removes no one else's entry, a name that is free in `name_fd_map` is nobody's,
names are unique (`NamesAreUnique`) and `tell` finds the holder
(`HolderGetsTheMessage`). `EventsInv` says that a reported event stays true until
it is handled, although other events of the batch close and accept sockets
before; with it `OnlyLeaversAreDropped`. `NoWakeUpIsLost` is the converse, and the
safety half of `EveryLineIsRead`: unread input has its event in the ready list or
in the batch, so the edge that announced it is never used up by a handler that
did not read. It needs `ReadMax >= MaxQueue`, as `EveryLineIsRead` does, and
`ClosedIsEmpty`: nothing is left in a socket that is closed. `ClientSetIsExact`
is inductive with the type invariant. `ServerInvariant` states `Inv`. From it
`ServerImplementsRoom`:
each action of the server is an `Enter`, `Leave`, `TakeName` or `Tell` of
`ChatRoom` or leaves it unchanged. The two places that need the invariant are
`Rename` (a name `name_fd_map` does not have is nobody's, so taking it is allowed)
and `TellDelivered` (the descriptor the map leads to is the holder's, if there is
one). That `tell` also delivers to a stale name is allowed by `ChatRoom`, which
says nothing of names nobody has; `chat_stale` shows it.

**hw3** (`DropboxLemmas` for queues, files and names; then layers, one on the other).
`DropboxProofs` proves `Inv` for every `Slow`, every set of users, files and
clients: what makes it inductive is that commands and data never meet on one
connection, from the socket's buffer (`StreamOK`) over both ends' maps (`NearOK`,
`FarOK`, `NamedOK`) to the client's `fd_cmd` (`ProcOK`), so that a descriptor the
server remembers under a user is never one that carries a file. Hence
`NamesAlwaysAgree`.

Two more layers of `DropboxProofs` hold as generally. `WaitInv`: a request that the
server has still to read is of a client that waits for its transfer, and whoever
uploads or downloads has a server that does the same, has still to read the
request, or has closed; hence `TransfersHaveTwoEnds`, the safety half of
`TransfersEnd`. What could go wrong is a request that is swallowed with the data
read behind it (`PutWithData`), or one end's map entry that outlives the
connection. `OwnInv`: the user of a command connection is the one its client gives
(`NameOK`; a client that types `/exit`, which may run together with its name into
another, has closed already), and an upload's name is in its user's catalogue
(`KnownOK`); hence `ClientsHearOfTheirOwn`: `sync_peers` writes into no download
and to no client of another user's, although descriptors are closed and handed out
again and users may have files of one name.

`DropboxPacedProofs` adds `PacedInv` when `~Slow`: a request is alone in its stream
until it is read, empty reads are counted at the end of an upload only, and stored
plus under way is what was sent (`UploadsArePaced`); hence `UploadsArrive` and
`DescriptorsAreFresh`. To it comes `SharedInv` when no two users have a file of one
name (`Apart`): who uploads has a name of its user's which no other upload of any user
has and which was not announced (`UploadsHaveNames`); hence `SharedFilesStay`, for the
files `sync_peers` announced. `handle_client` compares a name with those of one user
only, so that files of two users stay apart because each user's names begin with files
of that user (`Owns`).

`DropboxFlowProofs` says what is *in* the files. None of the last three properties
follows from counting units: a file of the right length could hold the pieces of two
clients, and a download could lose a piece in the middle. `FlowInv` therefore follows
the pieces, and `TruthInv` what is told of them. A file of the server's is a beginning
of one client's file, and that client keeps it as it was (`FolderOK`, `Kept`). A
request to upload asks for the size of the file that is about to come (`AskedOK`).
What an upload has stored, then what is in the socket's buffer, then what the client
has not read yet are consecutive parts of that one file (`UploadOK`, `ReceiveOK`), and
a download is the same in the other direction (`DownloadOK`), one per name and process
(`OnceOK`). What is in a client's directory is its own file, or a beginning of the
server's (`LocalOK`). Notifications are of users' files (`NoticeOK`), and what
`sync_peers` announced is whole (`SharedIsWhole`). `TruthInv` is the rest of what a
notification says: its size is no more than what the server has, and a file that
`sync_peers` has not announced lacks something, for the turn of the loop that
completes it also announces it. Both are inductive together with the layers below
(`FilesFlow` states `QuickInv`, all of them): `PacedInv` keeps a request from being
read together with data, `SharedInv` keeps two uploads from writing to one file, and
`HasRoom` keeps `non_block_write` from dropping a piece. Hence `NoticesTellTheTruth`,
`DownloadsArePrefixes` and, step by step, `DropboxImplementsFolder`: `FinishReceive`
publishes a whole file under a name that had none; the read that brings a client the
last piece of a file, and the client's `ReadNew`, which empties the file it is about
to fetch, are `Fetch`es or change no holder; everything else changes nothing. All are
for every number of users, clients, files and names and every capacity, with clients
that may be killed at any time; `~Slow` and `Apart` are hypotheses because without
them the properties are false (section 3).

**hw0** (`TextToolProofs`). The loop of `split` keeps: the pieces so far lie
between the delimiters found from left to right, no delimiter begins between
`last` and `current`, and `current` is where one may begin, or -1 when none does.
The searches are for the delimiter's first character only, and that nothing is
skipped follows from what `find_first_of` leaves out. Hence `SplitFindsAll`, for
any characters, lines and delimiters. `TrimTakesBlanks` says what `trim` returns
for every line: what is between the first and the last character that is no
blank, and nothing of a line of blanks, where `npos + 1` has to come out as 0.
`NoLoopGoesOnForEver` gives a measure, `Left`: the texts that are left, the lines
of this one, what is left to do with the line, and the characters that `split` has
not passed. All are natural numbers, and each step makes the measure smaller in
the lexicographic order (`StepsGoOn`), for any texts and any delimiter that is not
empty. So no run of steps is endless; that the
tool also takes its steps, `Termination`, is a matter of fairness and of TLC.

**Only model-checked.** Liveness under fairness, ENABLED and induction over data
are out of the prover's reach, so `Termination`, `EveryLineIsRead`,
`QuietLeaverIsRemoved`, `TransfersEnd` and `UploadIsShared` stay with TLC, and so
does `PrintsAsExpected`, which compares the tool with definitions by recursion;
its two halves that can be stated without recursion, `SplitFindsAll` and
`TrimTakesBlanks`, are proved. Of the liveness properties these halves are proved:
`NoWakeUpIsLost`, `TransfersHaveTwoEnds`, `NoLoopGoesOnForEver` and `WaitIsTimed`
(a sender that waits has a timer). Every other invariant and action property that a
run expects to hold is also a theorem. The invariants are proved about `Spec`;
the models' bounds are constants of the theorems.

## 5. Not modelled, and why

* hw2: an input file that cannot be opened (the sender then sends name packets
  for ever), an output file that cannot be opened, 2^31 packets (`syn` overflow),
  several senders or transfers at one receiver, message contents.
* hw1: what clients display, the wording of replies, what `str(buffer)` reads
  beyond a full buffer, and a read that ends inside a segment. Words are members
  of a small set; the word two writes make together is the constant `Garbled`.
  `select_server` is used by no program of the repository (`server.cpp:17` names
  the epoll one): a model would describe code that never runs.
* hw3: `accept()`, `connect()` and `open()` that fail, files that do not exist, the
  duration of `/sleep`, and the progress bar but for its division. A read or a write
  ends between two units or commands, never inside one: `Fit` drops whole items. What
  `fstream` has buffered counts as written. That is so for `sync_peers`, which runs
  after the stream is closed; `sync_new_connection` and `/get` may find less of an
  upload under way on the disk than the model has, which is still a beginning of the
  file, and the size told no more than there is. A socket that is writable takes a
  whole chunk (`HasRoom`), as epoll's low-water mark has it. Users put files as they
  made them, not what a download has put in their place, type one blank between words,
  and give no file a name of the form `f(k)` that the server makes. Clients are not
  started again in the directory of an earlier one. The server is not started again
  after SIGPIPE.
* hw0: a delimiter that is empty, and an input file that does not exist. The
  first character of an empty delimiter is `'\0'` (`delim[0]` of a `const string`),
  so a line without a NUL byte comes out as one piece; one that has such a byte
  makes `split` find the empty delimiter at the same place again and again.
* The start-up of all programs beyond what their initial states are (argument
  parsing, socket creation failing).

## 6. What is left

1. **UdpSessions** – consecutive and concurrent senders at one receiver: a killed
   sender leaves the stream open and the next file is lost.
2. **hw3, users with a file name in common** – what a client of two such users may
   count on. `NamesAlwaysAgree`, `TransfersHaveTwoEnds`, `ClientsHearOfTheirOwn`
   and, with `~Slow`, `UploadsArrive` and `DescriptorsAreFresh` do not ask for
   `Apart`; nothing is stated of the contents of the files.
3. **A theorem** – that a chat name is refused only if it was once taken.
