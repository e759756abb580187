# ApexDC++ in TLA+

Specifications of the core of ApexDC++ (a Direct Connect file sharing client, `src/client/client`):
the hubs and who is online on them, how connections to other users are made and handed to the
managers that use them, the thread behind each connection, how a file is downloaded in segments from
several users, how upload slots are given out, and how shared files get their hashes. TLC checks the modules on small instances; TLAPS
proves the properties that matter most for every value of the constants.

All paths below are relative to `src/client/client/` unless they start with `src/`.

## 1. Inventory

### 1.1 What the repository holds

`src/client/client` (about 50,000 lines) is the client without a user interface; `src/dht/dht` (2,700
lines) is a Kademlia node for finding users and sources without a hub; `src/windows` (50,000 lines)
is the Windows user interface. `src/boost`, `src/res`, `src/misc` and `src/MakeDefs` are vendored
code, resources and build scripts. There are no tests.

### 1.2 Components

| component | state it keeps | operations | what makes it correct |
|---|---|---|---|
| `ConnectionManager` | one queue item per user and direction (`downloads`, `uploads`: state, error counter, time of the last attempt), the `UserConnection`s, the nicks it expects, `shuttingDown` | `getDownloadConnection`, `force`, the timer (`Second`, `Minute`), accept and connect, the handshake handlers, `addDownloadConnection`, `addUploadConnection`, `failed`, `disconnect`, `shutdown` | an item in use has exactly one connection and is released when that ends; a user we want is not forgotten; attempts end; shutdown ends |
| `UserConnection`, `BufferedSocket` | protocol state, flags, slot kind, current transfer; a task queue per socket thread, two write buffers, the mode of reading | `connect`, `write`, `transmitFile`, `disconnect`, `putSocket`; events for listeners (`Line`, `Data`, `Failed`, `Updated`) | tasks and bytes in order, none forgotten; the same lines and data however reads are cut; one `Failed`, and silence after `putSocket` |
| `DownloadManager` | `downloads`, `idlers` | `addConnection`, `checkDownloads`, `checkIdle`, data and failure handlers | an idle connection is woken when there is work; a failed download is given back |
| `QueueManager`, `QueueItem` | file queue, user queue, running users, segments, sources, the saved queue | add, remove, priorities, `getDownload`, `setFile`, `putDownload`, recheck, save and load | nobody downloads what another one does; finished segments are on the disk and never forgotten; all bytes make a finished item; the user queue mirrors the file queue; the saved queue survives a crash |
| `UploadManager` | `running`, `extra`, `extraPartial`, `uploads`, `delayUploads`, `uploadQueue`, `connectingUsers`, `reservedSlots` | `prepareFile` (on `GET`, `Get`), `Send`, `TransmitDone`, `Failed`, timer, reserve and unreserve | counters count holders; a free slot is promised once; limits are kept; who waits is called |
| `ClientManager` | hubs, users, online users | `putOnline`, `putOffline`, `getClient`, `putClient` | the list is the union of the hubs' lists, the online flag agrees with it |
| `Client`, `AdcHub`, `NmdcHub` | login state, users, hub counts, reconnect delay | hub commands, timer, user's commands | the state tells whether there is a connection; one connection at a time; counts are hubs that are up; reconnects; closing leaves nothing |
| `HashManager`, `FileReader` | queue of files, semaphore, pause counter, flags `stop` and `rebuild`; the index of files and trees | `getTTH`, `hashFile`, `pause`, `resume`, `stopHashing`, the hasher thread, `scheduleRebuild`, `shutdown` | pauses balance; no signal is lost and the hasher ends; what is served as the hash of a file is of what it holds; every queued file is hashed |
| `ShareManager` | shared paths, directories with their files, refresh flag, bloom filter, file list | `refresh`, `addDirectory`, `removeDirectory`, events of finished hashes and downloads, search, file list | a file without a hash is not forgotten; one refresh at a time |
| `SearchManager`, `SearchQueue` | queue of searches with owners | add, cancel, pop | intervals kept, cancelled searches do not run |
| `ThrottleManager` | tokens, conditions | read, write, per-second refill | rate kept, nobody waits for ever |
| `SharedFileStream` | handles with reference counts | open, close | one handle per file and mode, closed with the last user |
| `MappingManager`, `ConnectivityManager` | mapping thread, attempts | setup, mapping, close | one mapping run at a time |
| DHT (`src/dht/dht`) | routing table, searches, index, bootstrap queue | packets, timer tasks | bucket sizes, no duplicate ids, searches end |
| HTTP, updates, favorites, plugins, web server, detection, settings, files, text, XML | mostly tables and conversions | | |
| User interface | windows | | out of scope: an input of the models |

### 1.3 How they interact

* Threads: one timer thread (`TimerManager`) calls every `Second` and then every `Minute` listener;
  every hub and every user connection has a socket thread that delivers its events; the accept
  threads, the hasher, the file mover, the rechecker and the user interface are further threads.
* A manager guards its state with one recursive lock `cs`, and calls other managers sometimes inside
  and sometimes outside it. `Speaker::fire` calls listeners in the order they registered, so for a
  user connection `ConnectionManager` hears of a failure first, the manager that uses it second.
* `QueueManager` asks `ConnectionManager` for connections (`getDownloadConnection`); the timer of
  `ConnectionManager` asks `QueueManager` (`hasDownload`), `DownloadManager` (`startDownload`) and
  `ClientManager` (`connect`); a connection whose handshake ends is handed to `DownloadManager` or
  `UploadManager`, and returns through `ConnectionManager::failed`.
* `disconnect` is a task for the socket thread, not an immediate end. `putSocket` waits for a callback
  that runs, since `Speaker::fire` and `removeListeners` take the same lock.
* A hub (`Client`) owns a `BufferedSocket` and tells `ClientManager` of users who come and go, who tells
  `ConnectionManager`, `QueueManager` and `UploadManager` when a user comes online or goes offline.

### 1.4 What is hard

Handshakes of the same user that race; decisions made under a lock and acted on after it; two
listeners that hear of the same failure with time in between; retries against late answers; wake-ups
that come between "nothing to do" and "now idle"; counters changed without a lock; promises that must
lapse; a shutdown that races threads which are about to create connections; segments that finish, fail
and are taken over in any order; a recheck beside downloads; a saved queue that is older than the file
it describes; a flag set outside the section that counts; a window that clears a hub's users while the hub's thread adds
them; a file that is replaced while it is read without a lock; a timer that connects what is being closed;
two write buffers that are swapped while others write; reads that cut lines, data and compressed parts
anywhere. `PROJECT.json` lists each
of these hazards at its line, with the properties that would catch it.

## 2. Plan

Done, in this order:

1. **`Connections`**: `ConnectionManager`, the events of the socket threads, `DownloadManager` and the part of
   `QueueManager` that decides who connects; **`ConnectionsProofs`**.
2. **`UploadSlots`**: `UploadManager` with the end of a connection in both listeners; **`UploadSlotsProofs`**.
3. **`DownloadQueue`**: `QueueItem` and its segments, `getDownload`, `putDownload`, recheck, save and crash;
   **`DownloadQueueProofs`**.
4. **`SlotPromises`**, what `UploadManager` promises to those who wait, and that `UploadSlots` implements it.
5. **`Hubs`**: `ClientManager`'s list and the hubs of both protocols; **`HubsProofs`**.
6. **`Sockets`**: `BufferedSocket`; **`SocketCalls`**, what its owner may count on, implemented by `Sockets` and
   used by `Hubs`; **`SocketsProofs`**.
7. **`Hashing`**: the hasher thread with the refresh and the user's threads of `ShareManager`; **`HashingProofs`**.
8. **`Induction`** and what it makes provable: **`ReaderProofs`** (the reader of `BufferedSocket`), the queue of
   `UploadSlots`, the loop of `addSegment` and the blocks a recheck finds.

Next, if the project goes on: a queue of several files (`FILE_SLOTS` and the wake-up nobody sends); that
`DownloadQueue` justifies the "wanted" of `Connections`; the saved index of `HashManager`; `SearchQueue`; `ThrottleManager`; the order of the locks; for the DHT, the buckets and searches.

## 3. Modules

| module | stands for |
|---|---|
| `Connections.tla` | connection management (section 3.1) |
| `UploadSlots.tla` | upload slots (3.2) |
| `SlotPromises.tla` | abstract specification: waiting users, promises and slots in use |
| `DownloadQueue.tla` | one file of the download queue (3.3) |
| `Hubs.tla` | hubs and the users online (3.4) |
| `Sockets.tla` | one socket, its thread and its owner (3.5) |
| `SocketCalls.tla` | abstract specification: the life of a socket as its owner sees it |
| `Hashing.tla` | the hasher and the threads that build the shared tree (3.6) |
| `MC*.tla` | what TLC needs besides: symmetry, streams, guests of hubs, chunks of files, checks of `AddSegment` and of the streams |
| `*Proofs.tla` | theorems about the module of that name; `ReaderProofs` is the part of `SocketsProofs` about what is read |
| `Induction.tla` | induction and recursion over numbers and sequences, for the proofs |

In every module one action is one critical section (or one handler that takes no lock in between).
Definitions marked "Mutant" are mistakes that the specification does not use: each stands before the
definition it would replace, and the property listed with it in `PROJECT.json` fails when it does.
`Env` names, in every module, what may happen beside the normal case, so that a property can be checked
and proved with exactly the events it survives.

How they compose: `Hubs` instantiates `SocketCalls` for the sockets of its hubs (`Move` takes only steps of
`Socket!Moves`, and its fairness is that of `SocketCalls`), and `Sockets` is shown to implement `SocketCalls`.
`UploadSlots` is shown to implement `SlotPromises`. `Connections` and `UploadSlots` see a user come online and go
offline as `Hubs` lets it happen; `DownloadQueue` relies on one download connection per user, which is
`OneConnectionPerDirection` of `Connections`.

### 3.1 Connections

* `downloads[u]` is the `ConnectionQueueItem` of a user we want to download from. `errors` and `since` (ticks
  since `lastAttempt`) carry the code's conventions: -1 for a protocol error, `Never` for
  `lastAttempt == 0`, "never tried" and "forced" alike. `uploads` is the set of users with an upload item.
* `conn[c]` is a `UserConnection`: protocol state, user, flags, queued tasks, whether `DownloadManager`
  listens and whether it has a download, and `pc`, the place of its socket thread between two
  critical sections: `on(INF)` decides, then `addDownloadConnection` acts; `ConnectionManager` hands
  over, then `DownloadManager::addConnection` runs, then `checkDownloads`, then the connection is parked as
  idle; `ConnectionManager::failed` runs, then `DownloadManager::onFailed`.
* The two protocols share the actions from `SUPNICK` on: NMDC goes `MyNick`, `CLock`, `Direction`, `Key`; ADC goes
  `SUP`, `INF`. What the peer sends is an input. The contents of locks, keys, tokens and key prints are
  abstracted to the outcome of the code's test on them.
* The queue appears as `wanted[u]` (nothing, something that cannot be started now, something that can),
  `running` and `request[u]` (a thread is about to call `getDownloadConnection`); how much a user still has
  after a download ends is left open, since other users' downloads change it too.
* `Second` is the whole loop of the timer: all items in one step under the lock, each with the answers of
  `hasDownload` and `startDownload`. `startDownload` is an input (its answer is stale as soon as it is given).
* The timer's `Second` waits for a socket thread that stands between the two listeners of a failure unless
  `Env` contains "slow": in the code nothing orders them, but a whole second passes between ticks.
  Properties that hold with "slow" are checked with it.

`Env`: forced attempts ("force"), a peer that repeats its last handshake line ("repeat"), a slow thread as above
("slow"), and downloads of others that free a file slot or segment ("freed").

### 3.2 UploadSlots

* `conn[c].slot` is the kind of slot, `count` the three counters (bytes: arithmetic is modulo 256), `uploads`
  and `delayUploads` the two lists, by connection; `conn[c].upload` says that `getUpload()` is not null, which the
  two listeners of a failure depend on.
* `StartUpload` and `TurnAway` are `prepareFile` with its callers `on(GET)` and `on(Get)`; whether the file is
  small or partial is an input, finding and opening it is not modelled (a file that is not available
  changes nothing). `StartUpload` includes `clearUserFiles`, the end of the user's promise, the replaced
  delayed upload and the counters, which the code does under one lock.
* `Failed` is `ConnectionManager::failed` (with `putCQI` and `removeDelayUpload`), `UMFailed` the next listener,
  `SlotLost` is `removeConnection`. With "race" in `Env` its decrement is a read and a write
  (`SlotRead`, `SlotWritten`) between which everything else may happen.
* `connecting[u]` counts the minute ticks since the user was called; 90 seconds have possibly passed at the
  second tick and certainly at the third.
* `AutoSlot` may hold whenever the code's bound on the counter allows it: the measured speed and the 30
  seconds since the last grant are left open.

`SlotPromises` knows only who waits, who was called back and how many slots are in use. Its `Take` says who
may have a free slot (who was called; anybody, if nobody waits and nobody was called), `Call` that the first
of those who wait are called and never more than there are free slots, and its fairness that somebody is
called and promises end. The mapping is `waiting <- uploadQueue`, `promised <- Connecting`, `used <-` the
connections that hold a standard slot. Two details of the code show in `GiveUp`: a promise may outlast its
user (`on(UserDisconnected)` clears the queue and not `connectingUsers`), and a user who is given a slot of another
kind gives up the place in the queue.

### 3.3 DownloadQueue

* Positions are blocks of the hash tree (a multiple of the 64 KiB that `downloaded % blockSize` rounds to);
  of a block that is on its way only `part` is known: nothing of it, right bytes, wrong bytes. `disk` is the set
  of blocks that are right in the temporary file: bytes are written before they are checked, so wrong ones
  overwrite right ones (`Receive`), and a block is right again when it was received whole (`Complete`).
* `done` is `QueueItem::done`, `downloads` the item's list of downloads and `download[u]` the `Download` object of a
  connection; they differ when a source is dropped or the item removed while the peer still sends. `add` may make an item
  anew while the old one's downloads still end ("readd"): they find it by its name. The new item is of the same file; one of
  another content under the same name is outside the model, and so is that the pointers to the old item which a violated
  `UserQueueIsCache` leaves behind point to freed memory.
* `AddSegment` is the loop of `addSegment`, for the sets it leaves behind: `MCDownloadQueue` compares it with
  the loop word for word, for all such sets over four blocks, and `LoopIsAddSegment` proves it for any. It shrinks a segment that contains the
  new one and ends later (the merge takes the end of the later of the two): `NoDoubleWork` with "overlap" and
  "drop" is about what becomes of that.
* `NextSegment` is `getNextSegment`: a segment nobody has or, when there is none, the rest of a slow chunk. The
  size it asks for depends on speeds, so any size is possible. `Startable` and `GetDownload` are `getNext` and
  `getDownload`, with the test whether the temporary file is gone; `Start` is `setFile`.
* `EndData`, `TreeDone`, `BadTree`, `Fail` and `FileNotAvailable` are the ends of a download, each with
  `putDownload` and `removeSource`. `Aligned` is the credit a failed download is given: whole blocks of its own tree,
  which without a hash tree is one block of the size of the file.
* `Rechecker::run` locks three times: `RecheckTest` (nothing may be downloading), `RecheckClear` (the segments are
  forgotten) and `RecheckFind` (what is right is found again). Between them the tree is looked up (`RecheckTree`) and the
  file read, with nothing locked: `RecheckRead` compares one block after the other as it is at that moment, and
  `RecheckReadEnds` is the end of the file or an error. While the recheck has the file open (`Held`) a delete may fail or
  succeed (`DeleteTemp`: it depends on how the reader opened it); in the second case the reader still reads the old
  blocks, and there is no new file of the name before it has closed it. A ragged last block is added with the size of a
  full one (`AddBlocks`), as the code does. Moving a file that somebody still has open always succeeds here.
* `Save` is `saveQueue`, `Crash` the death of the program and `loadQueue`. `dirty` is set where the code calls
  `setDirty` and nowhere else: `moveStuckFile` and the reset in `getDownload` do not.

`Env`: chunks taken over ("overlap"), a source removed while it sends ("drop"), a temporary file deleted by
somebody else ("gone"), wrong data ("corrupt"), a last byte that comes before the end of its zlib stream and
the connection then fails ("late"), "recheck", "random" segments, an item that is removed and added again while a
download of it still goes on ("readd") or while it is still rechecked ("stale"), "crash".

### 3.4 Hubs

* `users[h]` is the hub's own table and `onlineUsers` that of `ClientManager`; `online` is the flag `User::ONLINE`.
  An entry is an `OnlineUser` object; its number `n` tells two objects of one user on one hub apart. `getUser` is three
  steps: the insert into the hub's table (`Add`), the section of `putOnline` under the other lock (`PutOnline`), and
  the flag with its event (`SetFlag`); `putOffline` is two (`PutOffline`, `SetFlag`). Other threads run between them.
  `putting[h]` and `arriving[h]` are where the hub's thread is.
* `Clear` and `ClearUser` are `clearUsers`: the table is emptied first, then each user is put offline, in the middle
  of `on(Failed)` (`failing`) or of the destructor (`client = "deleting"`).
* `RefreshUserList`, `RefreshUser` and `RefreshFlag` are `NmdcHub::refreshUserList(false)`, which the hub's window calls
  (`src/windows/HubFrame.h:223`): `clearUsers` on a thread of its own, at any moment of the hub's. What the server then sends is
  what it may send anyway. An `OnlineUser` that such a refresh leaves behind in `onlineUsers` stays there; that
  `clearUsers` has released it, so that it is freed memory, is not modelled. `ClientManager::getUser` and the
  repeated lookups of a name within one command are not split further.
* `life[h]` is the socket as `SocketCalls` knows it. `Second` and `Shutdown` wait until the hub's thread is not in a
  callback (`Idle`), as `putSocket` does.
* `Identify`, `Inf`, `Lock`, `Nick`, `Hello`, `OpList`, `Quit` and `Banned` are the commands that change users, state or
  counts. An ADC hub names users by `Sids`, an NMDC hub by nick; `makeCid` gives the same nick on two NMDC hubs two
  CIDs, which is the assumption `HubAssumption` on `Guests`.
* `counted[h]` is `countType`; only `NmdcHub::on(Failed)` calls `updateCounts(true)`. `AdcHub` does not, so an ADC hub that
  is down stays counted until it is closed, and `UploadManager::getSlots` gives its slots (with `HUB_SLOTS`) for it.
  `CountedIsUp` is therefore about NMDC hubs.

`Env`: "close", the timer runs between the two halves of closing a hub. `Refreshes` bounds how often a list is refreshed; the
proofs are for any bound.

### 3.5 Sockets

* Owner: `tasks`, `writeBuf` and the two calls that need no task (`putSocket` removes the listeners,
  a graceless `disconnect` sets `disconnecting`). Thread: `state` and `at`, the place between two looks at shared
  state: the task queue, waiting to connect, polling, sending, sending a file, in `threadRead`. `back` is
  where `threadRead` returns to, since both send loops read while they wait.
* What is sent are pieces with numbers (of writes) and 0 (of a file); `wire`, `asked` and `owed` are ghosts that
  only properties read.
* `ReadLine`, `Unzip`, `UnzippedLine`, `ReadData`, `ReadFlow` are the branches of `threadRead`, one callback at a time; the
  bytes of `stream` are symbols: a separator, the end of a compressed part, and letters that make the
  listener change the mode when a line contains them (`ModeFor`: a hub's compression, a transfer of known
  size, a transfer whose end only the listener knows).
* `Life` maps the thread to `SocketCalls`.

`Env`: calls between `getSocket` and `connect` ("early"); a write behind a file whose `SEND_FILE` is still pending
("pipelined"; `UploadManager` answers a further request that way).

### 3.6 Hashing

* `queue`, `signals`, `paused`, `stop`, `rebuild` are the fields of `Hasher`; `hasher` is its thread: waiting, woken, in a
  chunk, waiting in the middle of a file (`instantPause`), before `hashDone`, before its event. `Wake` to `TTHDone` are
  the sections of `run`. A file may fail to open (`Take`) or to be read (`ErrorHashing`): the exception is logged, the file
  dropped from the queue and remembered in `failed`, a ghost. While hashing is paused the counter holds what is owed: `paused - 1` signals.
* `After` is what `FileReader` does once the callback has returned. When the program ends, `readCached` stops; `readDirect`, the
  usual one on Windows, has begun to read the next block before it called back and passes that one on (`FileReader.cpp:159-194`), with the
  callback's `instantPause`. Both may happen (`readDirect` gives way to `readCached` when it cannot open the file).
  `readMapped`, which is for POSIX here, is not modelled.
* `index[f]` is the entry of the file index: the date the file had when it was opened, the versions of the file
  that were read and whether all of it was (the size of the tree, which `getTTH` compares). A version of a file has a
  date of its own, so a changed file is noticed; two files never have the same content. `disk` is the file itself,
  which `Change` writes to at any time, more than Windows allows: the hasher opens without sharing for writing, so
  that a writer is kept out or makes the opening fail.
* `job[t]` is where the thread of a refresh (`run`, and `main` at the start) or of the user (`main`) is:
  `HashPauser` and its destructor (`Pause`, `Unpause`), `buildTree` of one directory after the other (`Scan`), the
  section that replaces or extends the tree (`Merge`). A shared directory holds one file, so `shares` and `tree` are
  indexed by files; `Merged` is `Directory::merge`, when a refresh has listed a directory that the user has since removed and adds
  again. `removeDirectory` holds `ShareManager::cs` until its pauser is gone (`ShareIsLocked`).
* `GetTTH` is `HashManager::getTTH`: an entry that is not current is dropped and the file queued. `FileMoved` asks with the date
  0, so what is in the index is dropped whatever it is.
* `ScheduleRebuild` and `Shutdown` set the flag; `SignalPaused` and `Signal` are the two signals after it, the first
  after an unlocked look at `paused`.

`Env`: a download that arrives in a shared directory ("moved"), "rebuild", the user's pause button, which asks
`isHashingPaused` and then acts ("toggle"; also for what a refresh has paused: "resume"), "shutdown", a file that cannot be
opened or read ("error"). Without "resume" the guard of `AskPaused` keeps the button away while a thread is going to resume,
which the code does not do (section 6).

## 4. Runs that pass

| run | instance | question |
|---|---|---|
| `conn_safety` | 1 user, 2 connections; forced attempts, slow threads, freed slots (1.4 million states) | do items and connections stay in step when two connections of a user race? |
| `conn_live` | 1 user, 1 connection, forced attempts, fairness (50 thousand) | is a wanted user never forgotten, do attempts end, are idle connections used or dropped? |
| `upl_lists` | 2 users, 2 connections, one slot of each kind, reserved and automatic slots, operators (164 thousand) | do counters and delayed uploads stay right? |
| `upl_slots` | 2 users, 2 connections, one slot of each kind, split decrement, fairness (114 thousand) | promises, limits, no endless waiting; the refinement of `SlotPromises` with its fairness |
| `dq_base` | 3 blocks, 2 sources of whom one has the tree, 2 segments; wrong data, lost files, crashes, random segments, fairness (303 thousand) | is nothing finished forgotten, does every byte make a finished file, is the file finished in the end? |
| `dq_all` | 2 blocks, the last one short, 2 sources, 2 segments; overlapping, dropped sources, late ends, items added again, a recheck at any time (2.7 million) | is what is finished on the disk, what a recheck finds without a lock included, and nothing downloaded twice? |
| `hubs` | an ADC hub with us and a guest who compete for one name, and an NMDC hub with us, whose list its window has sent again once, fairness (580 thousand) | do lists, flags, states and counts agree beside a refresh; is a reconnect answered? |
| `sockets` | 3 pieces to send, a file of 1, data of 2, 3 tasks at once, 3 streams of 4 to 7 symbols, fairness (1.6 million) | is all sent in order, read as sent, and are the promises of `SocketCalls` kept? |
| `hashing` | 1 file of 2 chunks that changes once, added and removed, 2 signals; moved, rebuild, toggle, shutdown, errors, fairness (1.0 million) | do pauses balance, is a signal lost, a stale hash served, a file forgotten; is the queue emptied and the hasher ended? |

Bounds. One user is enough for `conn_safety` because items of different users only meet in the timer's quota
and in the error counters that `on(MyNick)` clears; two connections are the least that race. The proofs
remove the bound for the properties they cover. `RetryAfter = 2`, `ConnectTimeout = 1` keep the order of the code's 60
and 50 seconds; `MaxErrors = 1` stops the counter at one, where the code's goes on and only lengthens the back-off; `LongAgo` makes
older attempts alike. `upl_lists` also passes with three connections (2.5 million states); two users are the
least that compete for a promise. In `upl_slots` the split decrement cannot hurt because only one connection
holds a slot of a kind at a time. In `dq_base` three blocks are the least in which a segment can have a neighbour on both
sides; two sources are the least that share a file. In `dq_all` two blocks are enough for a chunk of more than one block to be
taken over, and for a recheck that has read one block when the other is written; downloads of the tree are in `dq_base`. With three blocks and both sources
with the tree the same properties pass with `Env = {"overlap", "recheck"}` (2.1 million states) and `{"overlap", "drop", "late", "readd"}`
(2.4 million). Two hubs are
the least on which one user's flag races; `MCGuests` gives both hubs ourselves in common, and `hubs_offline` another
user. One refresh is the least that races the hub's thread. On the NMDC hub of `hubs` there are only we,
who are on the other hub too, which is where two threads meet; with a guest of its own the safety properties pass as well (5.1 million states), and with two names on the ADC hub, so that a user may come under a second one, all of them (1.2 million). `MaxTasks = 3` leaves room for a send, a file and a disconnect at once; `DataSize = 2` lets a read end in the
middle of data; the streams have each mode, an empty line, a separator inside data and a compressed part that
ends within a line, and `Receive` cuts them anywhere. In `hashing`, two chunks are the least with a pause in the
middle of a file, and `MaxSignals = 2` lets a signal be given while another is not yet taken, as both of `shutdown` are; with three signals all passes as well (2.0 million states). One file
is enough for what two threads do to it, and the proofs cover any number (with a second file the safety properties pass with
two signals and `Env = {"toggle", "shutdown", "error"}`). The user ends the program once, and nothing happens after
the hasher has ended.

`CHECK_DEADLOCK FALSE` everywhere: after shutdown, with nobody online and nothing queued, with the file
finished, the hubs closed or the socket gone, these systems rightly have nothing to do.

Fairness. `conn_live`, `upl_slots`: weak fairness of the timer and of socket threads that
stand inside a handler, since those never wait for a peer there; strong fairness of a queued disconnect, since
`BufferedSocket::run` looks at its task queue between any two reads of the socket. Peers, hubs, the user and the
download queue owe nothing. `IdleConnectionIsUsed` uses that an idle connection shows no activity, so the minute timer
finds it. `dq_base`: a user who may download is asked again and again (the timer of `ConnectionManager`), and a
download goes on or fails (`DownloadManager::on(Second)` ends one that received nothing for three minutes);
`FileFinishes` therefore says "or downloads fail, sources are added or files vanish over and over". `hubs`: callbacks
return, the timer ticks, and the sockets keep the promises of `SocketCalls`; hubs owe nothing. `sockets`: the thread
runs on; it needs the other side only to send, which it stops when it is told to. `hashing`: the hasher runs when it is
not waiting for a signal, and a thread that has begun a refresh, an addition, a removal or its signals goes on; the user
owes nothing, so `QueueDrains` excepts hashing paused for good and rebuilds over and over (the hasher looks at the flag
before the queue).

## 5. Runs that show a disagreement

| run | the code says | the run shows |
|---|---|---|
| `dq_recheck` | `QueueManager.h:254`: the user queue is "a cache for the FileQueue" | after a recheck that finds the whole file, its users' lists hold an item that has left the queue |
| `hubs_offline` | `ClientManagerListener.h:43`: "User offline in all hubs" | a user put online on one hub between the two parts of `putOffline` for another is listed and offline |
| `hubs_close` | `Client.cpp:60`: `dcassert(!sock)` | the timer connects a hub between `shutdown` and the end of its destructor |

## 6. More that the code does not keep

Each of these was found with TLC: with the constants named, the property (it stays in its module, or is one of
those above) is violated. They are not among the runs, which are kept for distinct questions.

| property | with | the code says | what happens |
|---|---|---|---|
| `ActiveItemHasConnection` | `Env = {"repeat"}`, 1 connection | `ConnectionManager.h:45`: ACTIVE is "In one up/downmanager" | after a repeated `Key` or `INF` an item is ACTIVE with no connection: `putConnection` stops listening, so `failed` never releases it |
| `ConnectingIsRecent` | `Env = {"force"}` | `ConnectionManager.h:42`: CONNECTING is "Recently sent request to connect" | forced after a protocol error, an attempt is CONNECTING for good: lines 157-160 skip it, its timeout included |
| `BarredUntilForced` | 2 users | `ConnectionManager.cpp:158`: "don't reconnect except after a forced attempt" | the handshake of another user clears the mark (`ConnectionManager.cpp:508`) |
| `OneDownloadPerUser` | 2 connections | `QueueManager.cpp:313`: "Only one download per user..." | a second one starts while the failed first one is not yet taken back |
| `ShutdownEnds` | fairness | `ConnectionManager.cpp:833`: "Wait until all connections have died out..." | a connection created by a thread that saw `shuttingDown` unset is never told to end |
| `WantedUserHasItem` | `Env = {"freed"}` or `{"slow"}` | | nobody asks for a connection when a file slot or segment becomes free, or when the timer runs between the two listeners of a failure, until some later event does |
| `CountersMatch` | `Env = {"race"}`, 2 slots | `UploadManager.h:120`: "Number of free slots." | an unlocked decrement is lost, the number is wrong for good |
| `AutoSlotsLimited` | `Env = {"auto"}`, `AutoSlots = 1`, 3 users | `StringDefs.h:588`: "Maximum auto opened" | one slot more than the maximum is opened (and never more than one: `AutoSlotsOneTooMany`) |
| `ExactlyFinished` | `Env = {"recheck", "random"}`, `Ragged = TRUE`, 2 blocks, 1 user | `QueueManager.cpp:508` | the recheck adds a short last block with the size of a full one: when the rest is downloaded the finished segment ends behind the end of the file, and the item is never finished |
| `DoneIsGood` | `Env = {"corrupt", "late"}` | `Download.cpp:57`: "Use the root as tree to get some sort of validation at least..."; `QueueManager.cpp:1333`: "since download is not finished, it should never happen that downloaded size is same as segment size" | a file without a hash tree whose last byte came and whose zlib stream did not end is credited whole and unchecked |
| `UserQueueIsCache` | `Env = {"readd"}` | `QueueManager.h:254` | a download of an item that was removed ends, finds the item that was added since by its name and credits it; when then another one that fails is credited with the blocks that are left, the item is finished and stays in the queue and with its users, since only a download that ends well looks for that |
| `ProgressIsKept` | `Env = {"readd"}`, 3 blocks | | such a download works on the same blocks as those of the new item; `addSegment` merges its segment with a finished one that contains it, takes the end of the shorter and forgets the rest |
| `HasherEnds` without its exception | `Env = {"toggle", "shutdown"}` | | the program ends while hashing is paused in the middle of a file: `readDirect` passes on one more block, `instantPause` waits again and takes the second signal of `shutdown`, `run` waits for a third, and `join` never returns |
| `DoneIsGood` | `Env = {"recheck", "stale"}`, `Ragged = TRUE`, 2 blocks | `QueueManager.cpp:492`: "get q again in case it has been (re)moved" | the item is removed and added again while the recheck reads; what was read from the old file is credited to the new item, whose temporary file is new and empty |
| `PutOfflineFinds` | `Refreshes = 1`, 1 NMDC hub | `ClientManager.cpp:335`: `dcassert(op.first != op.second)` | a refresh of the user list puts offline whom the hub's thread has made and not yet put online; the entry that then comes is on no hub's table |
| `DoneIsGood` | `Env = {"crash"}` | | an item removed and added again before the queue is saved: after a crash the old segments are credited to the new temporary file |
| `WaitingIsScheduled`, `KeepsCalls` | `Env = {"early"}` | | a write or disconnect before `connect` is dropped in the STARTING state; nothing is written any more, nothing ends the connection |
| `SentInOrder` | `Env = {"pipelined"}` | | a write behind a file joins the buffer of an earlier write and goes out before the file |

Also noticed while modelling, without a property: a zero-byte request (`Segment(0, 0)`) never succeeds, and a file
completed by the credit of a failed download stays in the queue until it is rechecked; `Download` and `setFile` mark
the first download whose segment contains theirs, which with three users may be the wrong one;
`QueueManager.h:279` says an item is "always either here or in the userQueue", which no code does any more;
`Client::connect` leaves `sock` pointing at what it has put back until `getSocket` returns.

Of hubs: an `OnlineUser` whom a refresh of the user list leaves behind in `onlineUsers` (`PutOfflineFinds`) keeps the user's flag set
after the last hub, so that `OnlineIsListed` and the second half of `ListIsUnion` except users of a hub that was refreshed; a refresh can
also put a user offline between `PutOnline` and the flag, who is then online and listed nowhere.

Of hashing: `PauseIsBalanced` fails with `Env = {"toggle", "resume"}`, when the user resumes what a refresh has paused: the
refresh resumes again, the unsigned counter wraps and the semaphore is signalled until it is full (`Full`), after which the
hasher runs through as many empty rounds. A pause takes effect once: every signal given while the hasher
waits in `instantPause` lets it read one more chunk. A file whose hash is done between `Scan` and `Merge` of a refresh
is listed without it until the next refresh (`getFile` finds nothing; `ShareManager.cpp:1327` says "should never
happen"), which is why `MissingIsRemembered` speaks of the store and not of the tree. `runRefresh` works with the paths it
read first: a directory removed meanwhile is back in the tree, one that was added is gone from it. A file that is half read
when the program ends is filed with the tree of its half and rejected later by its size. A rebuild asked for while one
runs is lost with its flag.

## 7. Proofs

For all values of the constants that satisfy the named assumptions of the modules
(`TimerAssumption`: the attempt times out before it is repeated; `SlotAssumption`: settings are in range;
`ConnsAssumption`: finitely many connections exist at a time; `SizeAssumption`, `EnvAssumption`, `HubAssumption`,
`SocketAssumption`, `HashAssumption`: the constants are of their kinds).

`Connections`

* `TypeCorrect`. `TypeOK` alone is not inductive: a handler writes the item of the connection's user, so
  one must know it has a user. `OwnerKnown` adds that.
* `AssociatedHasItemAlways`, `OneConnectionPerDirectionAlways`, `ActiveItemHasConnectionAlways`, provided no peer repeats
  its last line (`"repeat" \notin Env`; with it TLC finds the third violated). The three are proved together
  (`ItemInv`): uniqueness needs that a connection's item is ACTIVE, and that an ACTIVE item keeps its connection
  needs uniqueness when another one ends. `ConnOK` says how far a connection has come from its own fields
  (nothing is associated before the handshake is over; only associated download connections reach
  `DownloadManager`), and `Listed` ties `userConnections` to that. `Steady` covers the many steps that
  change no role; the hand-over and the failure have lemmas of their own.
* `RunningHasDownloadAlways`, in every environment, from types alone: `DownloadOK` says that a connection
  with a download is known to `DownloadManager` and stays in `SND`, so each of its ends passes a `putDownload` (`Keeps`).
* `WantedUserHasItemAlways`, if nothing frees unannounced and the timer does not run between the two listeners of a failure
  (TLC breaks it without either), and, for `ItemInv`, no peer repeats. It needs both invariants above: `QueueAdd` asks for no
  connection to a running user, who has an item because a connection downloads (`RunningHasItem`); `FailureInv` adds that the
  item outlives the connection until `DownloadManager` has heard of its end.

`UploadSlots`

* `CountersMatchAlways`, provided no two threads are in `removeConnection` at once
  (`"race" \notin Env`). `Orderly` says that a slot is given back only if it was
  taken and that a connection object is reused only without one; `MovedMatch` is the arithmetic modulo 256
  of one connection that changes its slot.
* `DelayedUploadIsOwnedAlways`, in every environment. The property relies on `OneUpload` (a user has one
  upload connection that has not failed), because `removeDelayUpload` looks for the user, not for
  the connection.
* `PromisedSlotsExistAlways`, for finitely many users, if nobody may pass the queue (no favorites, reserved or
  automatic slots) and no decrement is lost. `SlotInv` states it of the connections that hold a standard slot
  instead of the counter: then they are at most 255, so the byte counts them exactly (`ExactCount`), and
  a grant finds a slot that is free and either promised to this user or to nobody. `NotifyPromise` counts how many
  users one round of the timer can call.
* `SlotLimitsAlways`, from the same invariant and `SmallSlotInv`, also without operators (for whom the code
  ignores the limit of extra slots) and with the limits in the range of a byte.
* `TypesAlways`, in every environment. `Without` is a recursive function: `WithoutSteps` unfolds it (see Induction below), from
  which follows what it keeps and in which order.
* `WaitsOnceAlways`, in every environment: nobody is twice in the queue. `WithoutOne` adds that for such a queue taking somebody
  out is what `clearUserFiles` does, erasing the first entry.
* `AutoSlotsOneTooMany`, without "race" and "reserve" and without favorites: at most `Slots + AutoSlots + 1` connections hold
  a standard slot. The code compares the counter before it adds to it, so the limit is passed by one and no more.
* `PromisesAreKept`: under the assumptions of `PromisedSlotsExistAlways`, `Spec => Promises!Spec`. Every action maps to
  `Take`, `TurnAway`, `Call`, `GiveUp`, `Release` or a stutter (`PromiseInv`).

`DownloadQueue`

* `NoDoubleWorkAlways`, in every environment. `Base` says of each download what its fields say about each other
  (`Shape`) and that the item's list holds real downloads; the property is inductive with it.
* `LoopIsAddSegment`: the loop of `addSegment` (`LoopStart`, `LoopStep`: one pass over the ordered set, its iterator kept over
  erase and insert) ends, and with the set of `AddSegment`, for any segments that are apart and any new one. `LoopInv` knows three
  phases: the iterator is not past the new segment, it is at the next one, or all is joined; `Ahead` shrinks in each step.
* `ExactlyFinishedAlways`, in every environment but a recheck of a ragged file (`Inside`; section 6 shows why), also with items added again: the finished
  segments are apart and inside the file (`Tidy`). `AddSegmentTidy` says that `addSegment` keeps that for whatever segment comes, also
  one that overlaps; `AddBlocksTidy` that the blocks found by a recheck do; and a tidy set that covers the file is one segment
  (`AllFinished`).
* `ProgressIsAlwaysKept`, when chunks are not taken over, running sources not dropped, nothing is
  rechecked, and no item added again beside its old downloads (`Alone`). `Sole` is the reason: no running download works on what is finished, so `addSegment` only ever
  joins segments that touch. The lemmas about `AddSegment` (it keeps what is covered, adds its
  segment) need just that; outside `Alone` it may shrink a neighbour.
* `UserQueueIsAlwaysCache`, `Alone` and without "late": `Listed` adds that an absent item has neither sources nor segments, in
  the queue and in what was saved. `dq_recheck` shows that a recheck breaks it.
* `TypesAlways`, in every environment: also the block a recheck adds behind the end of a ragged file, joined by `AddSegment` with
  whatever is there, ends no later than one block behind it.
* `DoneIsAlwaysGood` in the environments `Honest`: no crash; with a recheck neither a file that others delete nor an item added
  again before the recheck ends (section 6 shows why); items may be added again beside their old downloads; with wrong data also `Alone` and no late end. Right bytes of running
  downloads are on the disk up to `pos`, unless somebody else writes the same blocks (`Written`, also of an item that was removed and
  may be added again). What a recheck has found so far is on the disk (`Rechecked`), block by block as it reads
  with nothing locked: while its item is there nobody deletes the temporary file, and right blocks stay right. So what
  it adds (`AddBlocksCovers`) to what downloads have finished since it forgot the rest is there.

`Hubs`

* `TypesAlways`, `ListIsUnionAlways`, `OnlineIsListedAlways`, `StateIsTrueAlways` and `CountedIsUpAlways`, in every environment and
  with any number of refreshes of user lists. `ListInv` says of each hub that whoever its thread is putting online has an entry
  of the hub, on its own table if the table was never refreshed; `RefreshInv` says that what a refresh puts offline was made before
  that refresh, so that it is no longer an entry of the hub itself. What a refresh breaks is stated in the properties: `ListIsUnion` bounds the list of all from above only for hubs never
  refreshed, `OnlineIsListed` excepts users of a refreshed hub (`Refreshed`). `StateInv` is of state, socket, users and count of each
  hub; nothing is put online but on a connection that is up.
* `OneHubUsersAreUnlistedAlways`: whom only one hub can have (`OneHub`), and that was not refreshed (`Alone`), is not listed when
  offline, in every environment and with any number of hubs; `OfflineIsUnlistedOnOneHub` states it of everybody when there is one hub,
  under the same condition. With it the violation of `hubs_offline` is down to users of two hubs
  (`NmdcUsersAreOnOneHub`: ourselves apart, nobody of an NMDC hub, whose CIDs are made of nick and hub).
* `NoSocketLeftAlone`: if the timer does not run while a hub is closed, the assertion of `~Client` holds. With
  "close" the run `hubs_close` finds it violated.

`Sockets`

* `TypesAlways`, in every environment.
* `CallsAreKept`: without "early", `Spec => Calls!Spec`. `CallInv` says what the thread's place tells about its state, and that
  before the task of the connection nothing waits.
* `WaitingIsScheduledAlways`, without "early": `WaitInv` adds that the buffer which is swapped in is empty unless it is
  being sent.
* `SentInOrderAlways` and `PoliteIsAlwaysComplete`, also without "pipelined". `OrderInv` says that what was asked is what was sent, then
  the send buffer, the write buffer and the file; a file comes last because the send task of bytes that wait
  stands before it in the queue. `PoliteInv` counts what the thread will have sent when it comes to the first
  disconnect in the queue.
* `HeardAsSentAlways` (in `ReaderProofs`), in every environment, for any streams that are `WellFormed`: nothing begins within a
  compressed part, whose lines are all cut before the code looks at the mode again, and nothing follows data whose size only the
  listener knows. The protocols keep to that; `MCSockets` has TLC check it of its streams. The reference reader takes
  one symbol at a time, `threadRead` whole buffers: `ReaderInv` says that what has been handled of the bytes read leads the reader
  to the place where the thread is (mode, begun line, bytes of data to come), with a case of its own for the compressed buffer that is
  cut into lines under the mode it was read in (`Unzipping`).

`Hashing`

* `TypesAlways`, in every environment (no run checks it); `HasherInv` adds that what is read is on the disk and has chunks
  left.
* `PauseIsAlwaysBalanced`, without "resume". `JobInv` says which steps a thread's pauser belongs to; that two threads never both
  resume follows because who pauses second finds `paused > 0`.
* `NoSignalIsEverLost`, without "resume". `SignalInv` counts: the work there is (files in the queue, a wait inside a file, a
  rebuild and an end to see to) never exceeds the signals in supply (given, owed by a pause, promised by who has set a
  flag), but for the one the hasher has just taken.
* `HashIsAlwaysCurrent`, in every environment: dates only grow, and what was read is of a version not older than the date
  (`CurrentInv`), so an entry of the date the file has now was read from this version only.
* `MissingIsAlwaysRemembered`, in every environment, errors of opening and reading included: the files that were dropped for them are
  those in `failed`. `MissingInv` says the same of the tree a thread is about to merge; `HasherInv` also that what is queued was on the disk.

Induction. The library's induction theorems take an operator as a parameter, which the provers cannot instantiate. `Induction`
states them with a set instead: a set of numbers with 0 and with each n also n + 1 in it holds all (`SetInduction`, from the
library's well-foundedness of finite sets under inclusion), the same for sequences (`SeqInduction`), and that functions defined by
recursion exist (`RecursionExists`). What the models define by recursion (`ReadFrom`, `Without`, `AddBlocks`) are recursive
functions; a lemma for each unfolds it into its steps, and the set of lengths up to which a fact holds does the rest.

Only model-checked: liveness and the fairness half of the two refinements (`AttemptEnds`, `IdleConnectionIsUsed`,
`WaitingUserIsCalled`, `FileFinishes`, `ReconnectHappens`, `QueueDrains`, `HasherEnds`; `KeepsPromises` and `KeepsCalls` include it), which is out of the
prover's reach, and that the loop of `MCDownloadQueue`, over a sequence, is the one of the theorem. Every invariant and every safety action property of a passing run is a theorem, under the
hypotheses given above.

## 8. Not modelled

Within the modelled components: the accept loop and its flood protection, key prints and TLS, NAT traversal,
file access of uploads, slow-source disconnects beyond that a download may fail, auto-kick, `abortUpload`, status sent
to hubs, changes of settings at run time; several files at once, file lists, partial sources, renaming and
`KEEP_FINISHED_FILES` in the queue, and a crash between the renames of `saveQueue` (`loadQueue` does not look at the
backup); of hub commands, what does not change users, state or counts (chat, search, passwords, redirects, the
hub's own entry); of sockets, the separator found out by itself, the limit on a line, throttling,
`ZOF` inside a compressed part and the rollback, which no caller uses; of hashing and the share, the trees and their data file, the
saved index (a crash between the rename of the data file and the save of the index in `HashStore::rebuild` leaves the two
apart), several directories under one name, searches and the file list. Locks appear as the atomicity of actions, so a
cycle between the locks of two managers (`QueueManager.cpp:1518` against `ConnectionManager::on(Second)`) is outside
the models.

The other components are listed in `PROJECT.json` with the reason: the next ones in section 2; the user interface,
conversions and wrappers of the operating system stay out.
