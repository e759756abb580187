----------------------------- MODULE DownloadQueue -----------------------------
(***************************************************************************)
(* QueueManager and QueueItem: one file of the download queue, the users it   *)
(* can be had from, the segments of it that are done, the downloads that run,  *)
(* the temporary file, the recheck thread and the saved queue.                *)
(*                                                                         *)
(* Positions are counted in blocks of the hash tree: the file is the blocks    *)
(* 0..Size-1, and of a block that is on its way only "part" is known.  One     *)
(* action is one section under QueueManager::cs.  File lists, partial sources  *)
(* and KEEP_FINISHED_FILES are left out; a user has one download connection    *)
(* (Connections.OneConnectionPerDirection); connections are asked for in       *)
(* Connections, here whoever may download does so at any time.                *)
(***************************************************************************)
EXTENDS Integers, FiniteSets

CONSTANTS
    Users,        \* sources of the file
    Size,         \* of the file, in blocks
    Ragged,       \* the last block is shorter than the others
    MaxSegments,  \* QueueItem::maxSegments
    TreeUsers,    \* users whose client can send the hash tree (FLAG_SUPPORTS_TTHL)
    Env           \* what may happen beside the normal case, see Events

(* overlap:  OVERLAP_CHUNKS, a fast user takes over the rest of a slow chunk *)
(* drop:     a source is removed while it downloads                          *)
(* gone:     somebody deletes the temporary file                             *)
(* corrupt:  a peer sends wrong data                                         *)
(* late:     the last byte arrives and the end of its zlib stream does not   *)
(* recheck:  the user has the file rechecked                                 *)
(* random:   RANDOM_SEGMENTS                                                 *)
(* readd:    the user removes the file and adds it again while a download of  *)
(*           the item that was removed still goes on                         *)
(* stale:    the same while the item that was removed is still rechecked     *)
(* crash:    the program dies and starts again                               *)
Events == {"overlap", "drop", "gone", "corrupt", "late", "recheck", "random", "readd",
           "stale", "crash"}

ASSUME SizeAssumption == Size \in Nat \ {0} /\ Ragged \in BOOLEAN /\ MaxSegments \in Nat \ {0}
ASSUME EnvAssumption  == IsFiniteSet(Users) /\ TreeUsers \subseteq Users /\ Env \subseteq Events

VARIABLES
    present,    \* the item is in FileQueue
    paused,     \* its priority is PAUSED
    done,       \* its finished segments
    source,     \* what each user is to it
    queued,     \* users whose list in UserQueue holds the item
    downloads,  \* users whose Download is in QueueItem::downloads
    download,   \* the Download object of each user's connection
    tree,       \* HashManager has the hash tree of the file
    temp,       \* the temporary file exists
    disk,       \* blocks that are right of it, or of the one a recheck still has open
    recheck,    \* how far Rechecker::run is
    dirty,      \* QueueManager::dirty
    saved       \* what Queue.xml says

vars == <<present, paused, done, source, queued, downloads, download, tree, temp, disk,
          recheck, dirty, saved>>
item == <<present, paused, done, source, queued>>

------------------------------------------------------------------------------
(* Segment and the set of them that QueueItem keeps.                         *)
Blocks          == 0 .. Size - 1
Segment(a, b)   == [start |-> a, end |-> b]
Overlaps(s, t)  == s.start < t.end /\ t.start < s.end
Contains(s, t)  == s.start <= t.start /\ s.end = t.end
Length(s)       == s.end - s.start
Covered(D)      == UNION {s.start .. s.end - 1 : s \in D}
Segments        == [start : 0 .. Size, end : 0 .. Size + 1]

(* The order of the set.                                                     *)
Before(s, t)    == s.start < t.start \/ (s.start = t.start /\ s.end < t.end)

(* What addSegment keeps: finished segments do not even touch.                *)
Apart(s, t)     == s.end < t.start \/ t.end < s.start
Consolidated(D) == \A s, t \in D : s # t => Apart(s, t)

(* Mutants: neighbours are left alone, or the one on the right is dropped.   *)
NotConsolidated(D, s) == D \cup {s}
RightDropped(D, s) == {t \in D : t.end < s.start \/ t.start > s.end} \cup {s}

(* addSegment, for a D that is consolidated: the new segment is joined with   *)
(* its neighbours in the order of the set, and the end of the later one is    *)
(* taken for the end of both.                                                *)
AddSegment(D, s) ==
    LET left  == {t \in D : /\ Before(t, s) /\ t.end >= s.start
                            /\ \A r \in D : Before(r, s) => ~Before(t, r)}
        right == {t \in D : /\ Before(s, t) /\ s.end >= t.start
                            /\ \A r \in D : Before(s, r) => ~Before(r, t)}
        from  == IF left = {} THEN s.start ELSE (CHOOSE t \in left : TRUE).start
        to    == IF right = {} THEN s.end ELSE (CHOOSE t \in right : TRUE).end
    IN  (D \ (left \cup right \cup {s})) \cup {Segment(from, to)}

IsFinished(D) == D = {Segment(0, Size)}
Finished      == IsFinished(done)

(* part: what has arrived of the next block.  whole: its hash tree is only    *)
(* the root, so the block size is the size of the file and nothing is checked *)
(* before the end; wrong: a block of it was wrong.  overlapped: the flag of   *)
(* its segment, set while somebody else takes over the rest of it, or, before *)
(* the first byte, that it is to take over.  overlap: it took over.          *)
Download == [type : {"NONE", "FILE", "TREE"}, seg : Segments, whole : BOOLEAN, pos : 0 .. Size,
             part : {"none", "good", "bad"}, wrong : BOOLEAN, started : BOOLEAN,
             overlapped : BOOLEAN, overlap : BOOLEAN]

NewDownload(type, s, whole, over) ==
    [type |-> type, seg |-> s, whole |-> whole, pos |-> 0, part |-> "none", wrong |-> FALSE,
     started |-> FALSE, overlapped |-> over, overlap |-> over]

NoDownload == NewDownload("NONE", Segment(0, 0), FALSE, FALSE)

Saved == [present : BOOLEAN, paused : BOOLEAN, done : SUBSET Segments, sources : SUBSET Users]

(* Rechecker::run.  tested, with or without the tree: between its first two    *)
(* sections; reading: block pos of the temporary file is next, nothing is      *)
(* locked; read: it waits for the lock again.  found: what it read and is      *)
(* right.                                                                    *)
Recheck == [at : {"idle", "tested", "tree", "notree", "reading", "read"}, pos : 0 .. Size,
            found : SUBSET Blocks]
NoRecheck == [at |-> "idle", pos |-> 0, found |-> {}]

(* notree: a source with FLAG_NO_TREE; bad, badnotree: these among badSources. *)
TypeOK ==
    /\ present \in BOOLEAN /\ paused \in BOOLEAN /\ done \subseteq Segments
    /\ source \in [Users -> {"none", "good", "notree", "bad", "badnotree"}]
    /\ queued \subseteq Users /\ downloads \subseteq Users
    /\ download \in [Users -> Download]
    /\ tree \in BOOLEAN /\ temp \in BOOLEAN /\ disk \subseteq Blocks
    /\ recheck \in Recheck
    /\ dirty \in BOOLEAN /\ saved \in Saved

Init ==
    /\ present = FALSE /\ paused = FALSE /\ done = {}
    /\ source = [u \in Users |-> "none"] /\ queued = {} /\ downloads = {}
    /\ download = [u \in Users |-> NoDownload]
    /\ tree \in BOOLEAN /\ temp = FALSE /\ disk = {}
    /\ recheck = NoRecheck /\ dirty = TRUE
    /\ saved = [present |-> FALSE, paused |-> FALSE, done |-> {}, sources |-> {}]

Sources    == {u \in Users : source[u] \in {"good", "notree"}}
Idle       == \A u \in Users : download[u].type = "NONE"
Open       == \E u \in Users : download[u].type = "FILE" /\ download[u].started
Held       == recheck.at = "reading" /\ recheck.pos > 0      \* the recheck has it open
Downloaded == done # {} \/ \E u \in downloads : download[u].pos > 0 \/ download[u].part # "none"

------------------------------------------------------------------------------
(* Mutant: what others are downloading is not looked at.                     *)
FreeOfDone(D, s) ==
    \A t \in D : IF s.end = s.start + 1 THEN ~(t.start <= s.start /\ s.end <= t.end)
                                        ELSE ~Overlaps(s, t)

(* getNextSegment: is s needed?  A single block is, unless one segment has    *)
(* all of it.                                                                *)
Free(D, s) ==
    /\ \A u \in downloads : ~Overlaps(s, download[u].seg)
    /\ \A t \in D : IF s.end = s.start + 1 THEN ~(t.start <= s.start /\ s.end <= t.end)
                                           ELSE ~Overlaps(s, t)

Needed(D, whole) ==
    IF whole THEN {s \in {Segment(0, Size)} : Free(D, s)}
    ELSE {s \in {Segment(a, b) : a \in Blocks, b \in 1 .. Size} : s.start < s.end /\ Free(D, s)}

(* The segments it may return: the first one needed, of any size that may be *)
(* wanted, or at random any block.                                           *)
Wanted(C) ==
    IF "random" \in Env THEN {s \in C : s.end = s.start + 1 \/ s = Segment(0, Size)}
    ELSE {s \in C : \A t \in C : s.start <= t.start}

(* If none is needed: the rest of a chunk that is slow.                      *)
Slow == {u \in downloads : LET d == download[u] IN
            /\ d.type = "FILE" /\ d.started /\ ~d.overlapped /\ d.pos < Length(d.seg)}
TakeOver == IF "overlap" \notin Env THEN {}
            ELSE {Segment(download[u].seg.start + download[u].pos, download[u].seg.end) : u \in Slow}

(* Segments that nobody has, and what could be taken over, up to the number of   *)
(* segments of the item.                                                     *)
NextSegment(D, whole) ==
    LET C == Wanted(Needed(D, whole)) IN
    IF Cardinality(downloads) >= MaxSegments THEN [fresh |-> {}, slow |-> {}]
    ELSE [fresh |-> C, slow |-> IF C = {} THEN TakeOver ELSE {}]

(* UserQueue::getNext: may u download from this item?  If it waits, in any    *)
(* case; next to a download of the tree it may not.                          *)
Startable ==
    \/ downloads = {}
    \/ /\ \E u \in downloads : download[u].type = "FILE"
       /\ LET next == NextSegment(done, ~tree) IN next.fresh \cup next.slow # {}

(* Download::Download: the tree, a segment, the whole file, or nothing at all. *)
NewDownloads(u, D) ==
    LET next == NextSegment(D, ~tree)
        slow == IF tree THEN next.slow ELSE {}
    IN  IF ~tree /\ u \in TreeUsers /\ source[u] = "good"
        THEN {NewDownload("TREE", Segment(0, 0), FALSE, FALSE)}
        ELSE {NewDownload("FILE", s, ~tree, FALSE) : s \in next.fresh}
             \cup {NewDownload("FILE", s, ~tree, TRUE) : s \in slow}
             \cup (IF next.fresh \cup slow = {}
                   THEN {NewDownload("FILE", Segment(0, 0), ~tree, FALSE)} ELSE {})

(* The other downloads of the item whose segment contains s: the first of     *)
(* them is marked and unmarked.                                              *)
Holding(u, s) == {v \in downloads \ {u} : Contains(download[v].seg, s)}

(* getDownload.  Segments whose file is gone are forgotten first.            *)
GetDownload(u) ==
    /\ download[u].type = "NONE" /\ present /\ u \in queued /\ ~paused /\ Startable
    /\ LET D == IF Downloaded /\ ~temp THEN {} ELSE done IN
       /\ done' = D
       /\ \E d \in NewDownloads(u, D) :
             \/ /\ d.overlap => Holding(u, d.seg) = {}
                /\ download' = [download EXCEPT ![u] = d]
             \/ /\ d.overlap
                /\ \E v \in Holding(u, d.seg) :
                      download' = [download EXCEPT ![u] = d, ![v].overlapped = TRUE]
    /\ downloads' = downloads \cup {u}
    /\ UNCHANGED <<present, paused, source, queued, tree, temp, disk, recheck, dirty, saved>>

(* setFile, when the peer is about to send.  Who takes over does so only if   *)
(* the slow one is still there.  The stream of a file that others have open    *)
(* is shared with them (SharedFileStream), even if it was deleted meanwhile;   *)
(* of its name there is no new one before it is closed.                       *)
Start(u) ==
    LET d == download[u] IN
    /\ d.type # "NONE" /\ ~d.started
    /\ d.type = "FILE" =>
          /\ present /\ (Downloaded => temp) /\ (Held => temp \/ Open)
          /\ d.overlapped => Holding(u, d.seg) # {}
    /\ download' = [download EXCEPT ![u].started = TRUE, ![u].overlapped = FALSE]
    /\ \/ /\ d.type = "FILE" /\ ~temp /\ ~Open
          /\ temp' = TRUE /\ disk' = {}
       \/ (d.type = "FILE" => temp \/ Open) /\ UNCHANGED <<temp, disk>>
    /\ UNCHANGED <<item, downloads, tree, recheck, dirty, saved>>

(* Mutant: more is taken than was asked for.                                  *)
ReceiveMore(u, quality) ==
    LET d == download[u] IN
    /\ d.type = "FILE" /\ d.started /\ d.part = "none"
    /\ download' = [download EXCEPT ![u].part = quality]
    /\ UNCHANGED <<item, downloads, tree, temp, disk, recheck, dirty, saved>>

(* on(Data): the first bytes of a block, which go to the file before they     *)
(* can be checked, and its last, after which it is known to be right.         *)
Receive(u, quality) ==
    LET d == download[u] IN
    /\ d.type = "FILE" /\ d.started /\ d.part = "none" /\ d.pos < Length(d.seg)
    /\ download' = [download EXCEPT ![u].part = quality]
    /\ disk' = IF quality = "bad" THEN disk \ {d.seg.start + d.pos} ELSE disk
    /\ UNCHANGED <<item, downloads, tree, temp, recheck, dirty, saved>>

Complete(u) ==
    LET d == download[u] IN
    /\ d.part = "good" \/ (d.part = "bad" /\ d.whole)
    /\ download' = [download EXCEPT ![u].part = "none", ![u].pos = @ + 1,
                                    ![u].wrong = @ \/ d.part = "bad"]
    /\ disk' = IF (temp \/ Held) /\ d.part = "good" THEN disk \cup {d.seg.start + d.pos} ELSE disk
    /\ UNCHANGED <<item, downloads, tree, temp, recheck, dirty, saved>>

(* The download object of u is deleted.                                      *)
Gone(u) == download' = [download EXCEPT ![u] = NoDownload]

(* The item leaves the queue; with it go its segments and sources.            *)
ItemLeaves ==
    /\ present' = FALSE /\ done' = {} /\ source' = [u \in Users |-> "none"]
    /\ downloads' = {}
    /\ UNCHANGED paused

(* The temporary file goes; the recheck, if it has it open, still reads it.    *)
NoTempFile == temp' = FALSE /\ disk' = IF Held THEN disk ELSE {}

(* File::deleteFile, which tells nobody when it fails: the recheck may have    *)
(* opened the file for itself alone.                                         *)
DeleteTemp == NoTempFile \/ (Held /\ UNCHANGED <<temp, disk>>)

(* Mutant: the download stays in the list of the item.                        *)
StaysListed(u) ==
    LET d == download[u] IN
    /\ d.type = "FILE" /\ d.started /\ d.pos = Length(d.seg) /\ d.pos > 0 /\ ~d.wrong
    /\ present /\ done' = AddSegment(done, d.seg) /\ Gone(u) /\ dirty' = TRUE
    /\ UNCHANGED <<present, paused, source, queued, downloads, tree, temp, disk, recheck, saved>>

(* endData and putDownload of a segment that is complete and right: the       *)
(* segment is done, and when it was the last the file is moved and the item    *)
(* leaves the queue.                                                         *)
EndData(u) ==
    LET d == download[u]
        D == AddSegment(done, d.seg)
    IN
    /\ d.type = "FILE" /\ d.started /\ d.pos = Length(d.seg) /\ d.pos > 0 /\ ~d.wrong
    /\ \/ /\ ~present /\ DeleteTemp /\ Gone(u)
          /\ UNCHANGED <<item, downloads, dirty>>
       \/ /\ present /\ IsFinished(D)
          /\ ItemLeaves /\ queued' = queued \ Sources
          /\ NoTempFile /\ Gone(u) /\ dirty' = TRUE
       \/ /\ present /\ ~IsFinished(D)
          /\ done' = D /\ downloads' = downloads \ {u} /\ Gone(u) /\ dirty' = TRUE
          /\ UNCHANGED <<present, paused, source, queued, temp, disk>>
    /\ UNCHANGED <<tree, recheck, saved>>

(* The same for the hash tree.                                               *)
TreeDone(u) ==
    /\ download[u].type = "TREE" /\ download[u].started
    /\ tree' = (tree \/ present) /\ downloads' = downloads \ {u} /\ Gone(u)
    /\ UNCHANGED <<item, temp, disk, recheck, dirty, saved>>

(* Mutant: the block that is on its way counts.                               *)
RoundedUp(d) == IF d.whole THEN 0 ELSE IF d.part = "none" THEN d.pos ELSE d.pos + 1

(* The position of a download that failed, down to a multiple of its block    *)
(* size.                                                                     *)
Aligned(d) ==
    IF d.whole THEN IF d.pos = Length(d.seg) THEN d.pos ELSE 0
    ELSE IF d.pos = Length(d.seg) /\ d.pos > 0 /\ d.seg.end = Size /\ Ragged THEN d.pos - 1
    ELSE d.pos

(* endData's flush finds that the last block is wrong, or, as nothing can be   *)
(* checked of a download of no bytes, that this one is.                      *)
FlushFails(d) ==
    /\ d.type = "FILE" /\ d.started
    /\ \/ d.pos = Length(d.seg) /\ (d.wrong \/ d.pos = 0)
       \/ d.pos + 1 = Length(d.seg) /\ d.part = "bad" /\ ~d.whole /\ d.seg.end = Size /\ Ragged

(* The connection is lost, the user disconnects it, the source is slow, its    *)
(* data is wrong, ...                                                        *)
Breaks(d) == d.type = "TREE" \/ ~d.started \/ d.pos < Length(d.seg) \/ "late" \in Env

(* How many blocks of it are finished; resetPos after a flush that failed.    *)
Credits(d) == {b \in {Aligned(d)} : Breaks(d)} \cup {b \in {0} : FlushFails(d)}

(* A download goes, and does not take over any more.                          *)
GivesUp(u) ==
    LET rest == {v \in Holding(u, download[u].seg) : download[u].overlap} IN
    IF rest = {} THEN Gone(u)
    ELSE \E v \in rest : download' = [download EXCEPT ![u] = NoDownload, ![v].overlapped = FALSE]

(* putDownload of a download that failed.                                    *)
Fail(u) ==
    LET d == download[u] IN
    /\ d.type # "NONE"
    /\ \E credit \in Credits(d) :
          \/ /\ d.type = "FILE" /\ ~present
             /\ DeleteTemp /\ UNCHANGED <<done, dirty>>
          \/ /\ d.type = "FILE" /\ present /\ credit > 0
             /\ done' = AddSegment(done, Segment(d.seg.start, d.seg.start + credit))
             /\ dirty' = TRUE /\ UNCHANGED <<temp, disk>>
          \/ /\ d.type = "TREE" \/ (present /\ credit = 0)
             /\ UNCHANGED <<done, dirty, temp, disk>>
    /\ downloads' = downloads \ {u} /\ GivesUp(u)
    /\ UNCHANGED <<present, paused, source, queued, tree, recheck, saved>>

------------------------------------------------------------------------------
(* Mutant: the item stays in the list of the user.                            *)
StillQueued(u) ==
    /\ source' = [source EXCEPT ![u] = IF @ = "notree" THEN "badnotree" ELSE "bad"]
    /\ dirty' = TRUE /\ UNCHANGED queued

(* removeSource for a user who is one: it is kept as a bad source, with its    *)
(* flags.                                                                    *)
MakeBad(u) ==
    /\ source' = [source EXCEPT ![u] = IF @ = "notree" THEN "badnotree" ELSE "bad"]
    /\ queued' = IF Finished THEN queued ELSE queued \ {u}
    /\ dirty' = TRUE

(* fileNotAvailable, before the peer sends anything: without a tree the file   *)
(* may still be had.                                                         *)
FileNotAvailable(u) ==
    /\ download[u].type # "NONE" /\ ~download[u].started
    /\ \/ /\ present /\ u \in Sources /\ download[u].type = "TREE"
          /\ source' = [source EXCEPT ![u] = "notree"]
          /\ UNCHANGED <<queued, dirty>>
       \/ /\ present /\ u \in Sources /\ download[u].type = "FILE" /\ MakeBad(u)
       \/ /\ ~(present /\ u \in Sources) /\ UNCHANGED <<source, queued, dirty>>
    /\ IF download[u].type = "FILE" /\ ~present THEN DeleteTemp ELSE UNCHANGED <<temp, disk>>
    /\ downloads' = downloads \ {u} /\ GivesUp(u)
    /\ UNCHANGED <<present, paused, done, tree, recheck, saved>>

(* endData of a tree that is not that of the file.                            *)
BadTree(u) ==
    /\ "corrupt" \in Env /\ download[u].type = "TREE" /\ download[u].started
    /\ IF present /\ u \in Sources THEN MakeBad(u) ELSE UNCHANGED <<source, queued, dirty>>
    /\ downloads' = downloads \ {u} /\ Gone(u)
    /\ UNCHANGED <<present, paused, done, tree, temp, disk, recheck, saved>>

(* The user removes a source, while it downloads or not; its download is       *)
(* disconnected later.                                                       *)
RemoveSource(u) ==
    /\ present /\ u \in Sources /\ (u \in downloads => "drop" \in Env)
    /\ MakeBad(u) /\ downloads' = downloads \ {u}
    /\ UNCHANGED <<present, paused, done, download, tree, temp, disk, recheck, saved>>

(* add and readd.  What is left of an older item of the name, a download or    *)
(* the recheck, finds the new one.  (Users whose list still holds the older    *)
(* one, see UserQueueIsCache, hold a pointer to freed memory: the new item may  *)
(* be what is there.)                                                        *)
AddSource(u) ==
    /\ \/ /\ ~present /\ ("readd" \in Env \/ Idle) /\ ("stale" \in Env \/ recheck.at = "idle")
          /\ source' = [source EXCEPT ![u] = "good"] /\ queued' = queued \cup {u}
          /\ paused' = FALSE
       \/ /\ present /\ u \notin Sources /\ (Finished => source[u] # "none")
          /\ source' = [source EXCEPT ![u] = IF @ = "badnotree" THEN "notree" ELSE "good"]
          /\ queued' = IF Finished THEN queued ELSE queued \cup {u}
          /\ UNCHANGED paused
    /\ present' = TRUE /\ dirty' = TRUE
    /\ UNCHANGED <<done, downloads, download, tree, temp, disk, recheck, saved>>

(* setPriority, to or from PAUSED: the lists of the users are made anew.       *)
SetPriority ==
    /\ present /\ ~Finished
    /\ paused' = ~paused /\ queued' = queued \cup Sources /\ dirty' = TRUE
    /\ UNCHANGED <<present, done, source, downloads, download, tree, temp, disk, recheck, saved>>

(* remove.  The temporary file of an item that is running is deleted when its  *)
(* downloads end.                                                            *)
Remove ==
    /\ present
    /\ IF downloads = {} THEN DeleteTemp ELSE UNCHANGED <<temp, disk>>
    /\ queued' = IF Finished THEN queued ELSE queued \ Sources
    /\ ItemLeaves /\ dirty' = TRUE
    /\ UNCHANGED <<download, tree, recheck, saved>>

(* Somebody else deletes the temporary file.                                 *)
TempGone ==
    /\ "gone" \in Env /\ temp /\ \A u \in Users : download[u].type # "FILE" \/ ~download[u].started
    /\ NoTempFile
    /\ UNCHANGED <<item, downloads, download, tree, recheck, dirty, saved>>

------------------------------------------------------------------------------
(* Rechecker::run: nothing may be downloading; the tree is looked up; the      *)
(* segments are forgotten; the file is read; what is right is found again.    *)
(* Only the first, the third and the last of these hold the lock.             *)
RecheckTest ==
    /\ "recheck" \in Env /\ recheck.at = "idle" /\ present /\ temp /\ downloads = {}
    /\ recheck' = [recheck EXCEPT !.at = "tested"]
    /\ UNCHANGED <<item, downloads, download, tree, temp, disk, dirty, saved>>

RecheckTree ==
    /\ recheck.at = "tested"
    /\ recheck' = [recheck EXCEPT !.at = IF tree THEN "tree" ELSE "notree"]
    /\ UNCHANGED <<item, downloads, download, tree, temp, disk, dirty, saved>>

(* If there is no temporary file the finished one is read, which is not there  *)
(* either.                                                                   *)
RecheckClear ==
    /\ \/ /\ recheck.at = "tree" /\ present
          /\ done' = {} /\ recheck' = [recheck EXCEPT !.at = IF temp THEN "reading" ELSE "read"]
       \/ /\ recheck.at = "notree" \/ (recheck.at = "tree" /\ ~present)
          /\ recheck' = NoRecheck /\ UNCHANGED done
    /\ UNCHANGED <<present, paused, source, queued, downloads, download, tree, temp, disk,
                   dirty, saved>>

(* Mutant: the leaves are not compared.                                       *)
RecheckReadAll ==
    /\ recheck.at = "reading" /\ recheck.pos < Size
    /\ recheck' = [recheck EXCEPT !.pos = @ + 1, !.found = @ \cup {recheck.pos}]
    /\ UNCHANGED <<item, downloads, download, tree, temp, disk, dirty, saved>>

(* FileReader::read opens the file and reads it, a block at a time, also when it *)
(* is deleted after it was opened.                                           *)
RecheckRead ==
    /\ recheck.at = "reading" /\ recheck.pos < Size /\ (temp \/ Held)
    /\ recheck' = [recheck EXCEPT !.pos = @ + 1, !.found = @ \cup ({recheck.pos} \cap disk)]
    /\ UNCHANGED <<item, downloads, download, tree, temp, disk, dirty, saved>>

(* The end of the file, or a FileException.                                   *)
RecheckReadEnds ==
    /\ recheck.at = "reading"
    /\ recheck' = [recheck EXCEPT !.at = "read", !.pos = 0]
    /\ UNCHANGED <<item, downloads, download, tree, temp, disk, dirty, saved>>

(* The segments of M, blocks each, added to D.                                *)
AddBlocks(D, M) ==
    LET add[b \in 0 .. Size] ==
            IF b = 0 THEN D
            ELSE IF b - 1 \in M THEN AddSegment(add[b - 1], Segment(b - 1,
                                         IF b = Size /\ Ragged THEN Size + 1 ELSE b))
            ELSE add[b - 1]
    IN  add[Size]

(* If all of it is right it is moved (moveStuckFile), and as the segments were *)
(* forgotten the item is not taken from the lists of its users.               *)
RecheckFind ==
    /\ recheck.at = "read" /\ recheck' = NoRecheck
    /\ \/ /\ ~present
          /\ UNCHANGED <<item, downloads, temp, disk, dirty>>
       \/ /\ present /\ recheck.found = Blocks
          /\ queued' = (IF Finished THEN queued \ Sources ELSE queued)
          /\ ItemLeaves /\ NoTempFile /\ UNCHANGED dirty
       \/ /\ present /\ recheck.found # Blocks
          /\ done' = AddBlocks(done, recheck.found) /\ dirty' = TRUE
          /\ UNCHANGED <<present, paused, source, queued, downloads, temp, disk>>
    /\ UNCHANGED <<download, tree, saved>>

------------------------------------------------------------------------------
(* saveQueue; nobody reads the file before the program starts again.          *)
Save ==
    /\ "crash" \in Env /\ dirty /\ dirty' = FALSE
    /\ saved' = [present |-> present, paused |-> paused, done |-> done, sources |-> Sources]
    /\ UNCHANGED <<item, downloads, download, tree, temp, disk, recheck>>

(* The program dies and starts again: loadQueue.                              *)
Crash ==
    LET D == {s \in saved.done : s.end <= Size} IN
    /\ "crash" \in Env
    /\ present' = saved.present /\ paused' = saved.paused /\ done' = D
    /\ source' = [u \in Users |-> IF u \in saved.sources THEN "good" ELSE "none"]
    /\ queued' = (IF IsFinished(D) THEN {} ELSE saved.sources)
    /\ downloads' = {} /\ download' = [u \in Users |-> NoDownload]
    /\ recheck' = NoRecheck /\ dirty' = FALSE
    /\ UNCHANGED <<tree, temp, disk, saved>>

Wrong(u) == "corrupt" \in Env /\ Receive(u, "bad")

(* A connection goes on or fails: a source that sends nothing is dropped after *)
(* three minutes.                                                            *)
Transfer(u) ==
    \/ Receive(u, "good") \/ Wrong(u) \/ Complete(u) \/ EndData(u) \/ TreeDone(u)
    \/ BadTree(u) \/ Fail(u)

Next ==
    \/ \E u \in Users : \/ GetDownload(u) \/ Start(u) \/ Transfer(u) \/ FileNotAvailable(u)
                        \/ AddSource(u) \/ RemoveSource(u)
    \/ SetPriority \/ Remove \/ TempGone
    \/ RecheckTest \/ RecheckTree \/ RecheckClear \/ RecheckRead \/ RecheckReadEnds \/ RecheckFind
    \/ Save \/ Crash

Spec == Init /\ [][Next]_vars

(* A user who may download is asked for the file again and again               *)
(* (ConnectionManager's timer), and what was asked for starts or fails.       *)
Fairness == \A u \in Users : WF_vars(GetDownload(u)) /\ WF_vars(Start(u) \/ Transfer(u))
FairSpec == Spec /\ Fairness

------------------------------------------------------------------------------
(* Finished segments are on the disk: what getNextSegment leaves out, what     *)
(* partial sharing uploads and what makes the item finished is right.         *)
DoneIsGood == present /\ temp => Covered(done) \cap Blocks \subseteq disk

(* UserQueue is a cache of FileQueue: it lists the item for its sources, and   *)
(* not when it has left the queue or is finished.                             *)
UserQueueIsCache == queued = IF present /\ ~Finished THEN Sources ELSE {}

(* A file all of which was had is one finished segment: consolidation forgets  *)
(* nothing and joins everything, in whatever order the segments came.          *)
ExactlyFinished == present /\ Blocks \subseteq Covered(done) => Finished

(* What is finished stays so until the item leaves, its file is found gone, or *)
(* the program dies, and then what was saved is.                              *)
ProgressIsKept ==
    [][\/ Covered(done) \subseteq Covered(done') \/ ~present'
       \/ (~temp /\ done' = {}) \/ (Crash /\ done' = saved.done)]_vars

(* Two downloads have blocks in common only when one takes over the rest of    *)
(* the other.                                                                *)
NoDoubleWork ==
    \A u, v \in downloads : u # v /\ Overlaps(download[u].seg, download[v].seg) =>
        \/ download[u].overlap /\ download[u].seg.end = download[v].seg.end
        \/ download[v].overlap /\ download[u].seg.end = download[v].seg.end

(* A file that has a source and is not paused is finished, unless downloads    *)
(* fail, sources are added or the temporary file is deleted over and over, or  *)
(* the program keeps dying.                                                  *)
Wanting == present /\ ~paused /\ Sources # {}
Disturbed == TempGone \/ Crash \/ \E u \in Users : Fail(u) \/ AddSource(u)
FileFinishes == []<>~Wanting \/ []<><<Disturbed>>_vars
================================================================================
