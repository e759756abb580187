-------------------------------- MODULE Hashing --------------------------------
(***************************************************************************)
(* HashManager and the part of ShareManager that feeds it: the hasher thread  *)
(* with its queue, its semaphore and its pauses, the file index of the hash    *)
(* store, and the threads that build the tree of shared directories (the       *)
(* refresh thread, and the user's thread that adds and removes directories).   *)
(*                                                                         *)
(* A shared directory holds one file, so a file stands for its directory too.  *)
(* One action is one section under HashManager::cs, Hasher::cs or               *)
(* ShareManager::cs, or one call of the semaphore.                            *)
(***************************************************************************)
EXTENDS Integers, FiniteSets

CONSTANTS
    Files,       \* numbered in the order of their names
    Chunks,      \* how often the hasher reads from each file
    Written,     \* files that somebody writes to
    Offered,     \* directories the user adds and removes; the others are shared
    Versions,    \* bound on the versions of a file, each of a date of its own
    MaxSignals,  \* bound on signals: nothing is added above it
    Env          \* what may happen beside scanning and hashing, see Events

(* moved:    a download is moved into a shared directory                      *)
(* rebuild:  the user has the hash data rebuilt                               *)
(* toggle:   the user pauses, and resumes what was paused so                   *)
(* resume:   the user also resumes what a refresh has paused                  *)
(* shutdown: the program ends                                                *)
(* error:    a file cannot be opened or read                                  *)
Events == {"moved", "rebuild", "toggle", "resume", "shutdown", "error"}

ASSUME HashAssumption ==
    /\ Files \subseteq Nat /\ IsFiniteSet(Files) /\ Chunks \in [Files -> Nat]
    /\ Written \subseteq Files /\ Offered \subseteq Files
    /\ Versions \in Nat \ {0} /\ MaxSignals \in Nat /\ Env \subseteq Events

VARIABLES
    queue,    \* Hasher::w, files to hash
    signals,  \* of the semaphore Hasher::s
    paused,   \* Hasher::paused
    stop, rebuild,
    hasher,   \* the hasher thread: where it is and what it reads
    index,    \* what HashStore knows of each file
    used,     \* files whose entry has the flag used
    failed,   \* files the hasher gave up with ERROR_HASHING since they were queued
    disk,     \* version of each file on the disk, 0: there is none
    shares,   \* ShareManager::shares
    tree,     \* ShareManager::directories
    job       \* what each thread of the share is doing

hashVars  == <<queue, signals, paused, stop, rebuild>>
storeVars == <<index, used, failed>>
shareVars == <<shares, tree>>
vars      == <<hashVars, hasher, storeVars, disk, shareVars, job>>

(* main: of the program and the user, who refreshes once at the start; run:    *)
(* ShareManager::run.                                                        *)
Threads == {"main", "run"}

(* time: the date of the file when it was hashed; read: the versions of which  *)
(* something was read; whole: all of it was read (TreeInfo::size).            *)
Entry   == [time : 0 .. Versions, read : SUBSET (1 .. Versions), whole : BOOLEAN]
NoEntry == [time |-> 0, read |-> {}, whole |-> FALSE]

(* A directory is not in the tree, or its file is not, or has no hash yet.     *)
Listing == {"nodir", "nofile", "unhashed", "hashed"}
Nothing == [f \in Files |-> "nodir"]

(* go: of FileReader, what the callback said last.                            *)
Hasher == [pc : {"wait", "woken", "rebuilt", "chunk", "paused", "done", "fire", "ended"},
           file : Files \cup {-1}, left : Nat, time : 0 .. Versions,
           read : SUBSET (1 .. Versions), go : BOOLEAN]
Resting == [pc |-> "wait", file |-> -1, left |-> 0, time |-> 0, read |-> {}, go |-> TRUE]

(* resume: the HashPauser of the thread will resume.                          *)
Job == [op : {"none", "refresh", "add", "remove", "rebuild", "toggle", "shutdown"},
        at : {"start", "pause", "scan", "merge", "resume", "ask", "signal"},
        todo : SUBSET Files, new : [Files -> Listing], resume : BOOLEAN]
NewJob(op, at, todo) ==
    [op |-> op, at |-> at, todo |-> todo, new |-> Nothing, resume |-> FALSE]
Idle    == NewJob("none", "start", {})

TypeOK ==
    /\ queue \subseteq Files /\ signals \in Nat /\ paused \in Nat
    /\ stop \in BOOLEAN /\ rebuild \in BOOLEAN
    /\ hasher \in Hasher /\ index \in [Files -> Entry] /\ used \subseteq Files
    /\ failed \subseteq Files
    /\ disk \in [Files -> 0 .. Versions]
    /\ shares \subseteq Files /\ tree \in [Files -> Listing]
    /\ job \in [Threads -> Job]

(* An earlier run left an index; the share is refreshed first.                *)
Init ==
    /\ queue = {} /\ signals = 0 /\ paused = 0 /\ stop = FALSE /\ rebuild = FALSE
    /\ hasher = Resting
    /\ disk \in [Files -> 0 .. 1]
    /\ index \in [Files -> {NoEntry, [time |-> 1, read |-> {1}, whole |-> TRUE]}]
    /\ used = {} /\ failed = {}
    /\ shares \in {Files \ S : S \in SUBSET Offered} /\ tree = Nothing
    /\ job = [t \in Threads |-> IF t = "main" THEN NewJob("refresh", "start", {}) ELSE Idle]

------------------------------------------------------------------------------
(* Pausing.  While hashing is paused, paused - 1 signals are owed.            *)

Full == 2147483647

(* Mutant: only the first of the signals is given.                            *)
ResumeOne == IF paused = 0 THEN Full ELSE IF paused = 1 THEN signals ELSE signals + 1

(* resume: while(--paused > 0) signal.  If nothing was paused the unsigned     *)
(* counter wraps, and the loop runs until the semaphore is full.              *)
Resume == IF paused = 0 THEN Full ELSE signals + paused - 1

(* Mutant: every pauser resumes.                                             *)
PausedByAnyone(t, j) ==
    /\ paused' = paused + 1
    /\ job' = [job EXCEPT ![t] = [j EXCEPT !.resume = TRUE]]

(* HashPauser::HashPauser: only who finds it running will resume.             *)
Paused(t, j) ==
    /\ paused' = paused + 1
    /\ job' = [job EXCEPT ![t] = [j EXCEPT !.resume = (paused = 0)]]

Busy(t, op, at) == job[t].op \in op /\ job[t].at = at

(* removeDirectory is still under ShareManager::cs.                            *)
ShareIsLocked == Busy("main", {"remove"}, "resume")

------------------------------------------------------------------------------
(* The hasher thread.                                                        *)

Wake ==
    /\ hasher.pc = "wait" /\ signals > 0
    /\ signals' = signals - 1 /\ hasher' = [hasher EXCEPT !.pc = "woken"]
    /\ UNCHANGED <<queue, paused, stop, rebuild, storeVars, disk, shareVars, job>>

End ==
    /\ hasher.pc = "woken" /\ stop
    /\ hasher' = [hasher EXCEPT !.pc = "ended"]
    /\ UNCHANGED <<hashVars, storeVars, disk, shareVars, job>>

(* doRebuild: entries that are not used are dropped.                          *)
DoRebuild ==
    /\ hasher.pc = "woken" /\ ~stop /\ rebuild
    /\ index' = [f \in Files |-> IF f \in used THEN index[f] ELSE NoEntry]
    /\ hasher' = [hasher EXCEPT !.pc = "rebuilt"]
    /\ UNCHANGED <<hashVars, used, failed, disk, shareVars, job>>

Rebuilt ==
    /\ hasher.pc = "rebuilt"
    /\ rebuild' = FALSE /\ hasher' = [hasher EXCEPT !.pc = "wait"]
    /\ UNCHANGED <<queue, signals, paused, stop, storeVars, disk, shareVars, job>>

IsFirst(f, S) == f \in S /\ \A g \in S : f <= g

(* The first file of the queue is taken and opened, if there is one.          *)
Take ==
    /\ hasher.pc = "woken" /\ ~stop /\ ~rebuild
    /\ \/ /\ queue = {}
          /\ hasher' = Resting /\ UNCHANGED <<queue, failed>>
       \/ \E f \in queue :
             /\ IsFirst(f, queue) /\ queue' = queue \ {f}
             /\ \/ /\ hasher' = [pc |-> IF Chunks[f] = 0 THEN "done" ELSE "chunk", file |-> f,
                                 left |-> Chunks[f], time |-> disk[f], read |-> {}, go |-> TRUE]
                   /\ UNCHANGED failed
                \/ /\ "error" \in Env
                   /\ hasher' = Resting /\ failed' = failed \cup {f}
    /\ UNCHANGED <<signals, paused, stop, rebuild, index, used, disk, shareVars, job>>

(* A FileException, of the reader: it is logged, and the file is dropped.       *)
ErrorHashing ==
    /\ "error" \in Env /\ hasher.pc = "chunk"
    /\ hasher' = Resting /\ failed' = failed \cup {hasher.file}
    /\ UNCHANGED <<hashVars, index, used, disk, shareVars, job>>

(* What comes after the callback: the rest of the file, if there is any.  When    *)
(* the program ends readCached stops, while readDirect has begun to read the next  *)
(* block and still passes that one on.                                        *)
After(h) ==
    IF h.left = 0 \/ ~h.go THEN {[h EXCEPT !.pc = "done"]}
    ELSE IF stop THEN {[h EXCEPT !.pc = "done"], [h EXCEPT !.pc = "chunk", !.go = FALSE]}
    ELSE {[h EXCEPT !.pc = "chunk"]}
Read == [hasher EXCEPT !.left = @ - 1, !.read = @ \cup ({disk[hasher.file]} \ {0})]

(* Mutant: it waits without being counted.                                    *)
WaitUncounted ==
    /\ hasher.pc = "chunk"
    /\ hasher' \in IF paused > 0 THEN {[Read EXCEPT !.pc = "paused"]} ELSE After(Read)
    /\ UNCHANGED <<hashVars, storeVars, disk, shareVars, job>>

(* The callback of the reader: a chunk, then instantPause.                    *)
ReadChunk ==
    /\ hasher.pc = "chunk"
    /\ \/ /\ paused > 0 /\ paused' = paused + 1
          /\ hasher' = [Read EXCEPT !.pc = "paused"]
       \/ /\ paused = 0 /\ UNCHANGED paused
          /\ hasher' \in After(Read)
    /\ UNCHANGED <<queue, signals, stop, rebuild, storeVars, disk, shareVars, job>>

(* Any signal ends the wait of instantPause.                                  *)
GoOn ==
    /\ hasher.pc = "paused" /\ signals > 0
    /\ signals' = signals - 1 /\ hasher' \in After(hasher)
    /\ UNCHANGED <<queue, paused, stop, rebuild, storeVars, disk, shareVars, job>>

(* Mutant: the date is read after the file.                                   *)
DatedLate ==
    /\ hasher.pc = "done"
    /\ index' = [index EXCEPT ![hasher.file] =
                    [time |-> disk[hasher.file], read |-> hasher.read, whole |-> hasher.left = 0]]
    /\ used' = used \cup {hasher.file} /\ hasher' = [hasher EXCEPT !.pc = "fire"]
    /\ UNCHANGED <<hashVars, failed, disk, shareVars, job>>

(* hashDone, also of a file that was not read to its end.                     *)
HashDone ==
    /\ hasher.pc = "done"
    /\ index' = [index EXCEPT ![hasher.file] =
                    [time |-> hasher.time, read |-> hasher.read, whole |-> hasher.left = 0]]
    /\ used' = used \cup {hasher.file} /\ hasher' = [hasher EXCEPT !.pc = "fire"]
    /\ UNCHANGED <<hashVars, failed, disk, shareVars, job>>

(* on(TTHDone): the file gets its hash if it is in the tree.                  *)
TTHDone ==
    LET f == hasher.file IN
    /\ hasher.pc = "fire" /\ ~ShareIsLocked
    /\ tree' = IF f \in shares /\ tree[f] = "unhashed" THEN [tree EXCEPT ![f] = "hashed"] ELSE tree
    /\ hasher' = Resting
    /\ UNCHANGED <<hashVars, storeVars, disk, shares, job>>

HasherNext ==
    \/ Wake \/ End \/ DoRebuild \/ Rebuilt \/ Take \/ ErrorHashing
    \/ ReadChunk \/ GoOn \/ HashDone \/ TTHDone

------------------------------------------------------------------------------
(* The store and the queue, for those who build the tree.                     *)

(* Is the entry of f that of the file on the disk, by its date and size?       *)
Known(f) == disk[f] # 0 /\ index[f].whole /\ index[f].time = disk[f]

(* hashFile.                                                                 *)
HashFile(f) ==
    /\ queue' = queue \cup {f} /\ failed' = failed \ {f}
    /\ paused' = IF f \notin queue /\ paused > 0 THEN paused + 1 ELSE paused
    /\ signals' = IF f \notin queue /\ paused = 0 THEN signals + 1 ELSE signals

(* Mutant: while hashing is paused nothing is queued.                         *)
RehashLater(f) ==
    /\ index' = [index EXCEPT ![f] = NoEntry] /\ UNCHANGED used
    /\ \/ paused = 0 /\ HashFile(f)
       \/ paused > 0 /\ UNCHANGED <<queue, failed, paused, signals>>

(* getTTH of a file whose entry is not current: the entry is dropped.         *)
Rehash(f) ==
    /\ index' = [index EXCEPT ![f] = NoEntry] /\ HashFile(f) /\ UNCHANGED used

(* getTTH.                                                                   *)
GetTTH(f) ==
    \/ Known(f) /\ used' = used \cup {f} /\ UNCHANGED <<index, failed, queue, paused, signals>>
    \/ ~Known(f) /\ Rehash(f)

------------------------------------------------------------------------------
(* The threads that build the tree.                                          *)

(* Bounds: signals, and what happens after the hasher has ended is left out.   *)
Room == signals + paused < MaxSignals /\ hasher.pc # "ended"
MainIsFree == job["main"] = Idle

(* refresh, of the user or the timer: one at a time (refreshing).             *)
Refresh ==
    /\ Room /\ \A t \in Threads : job[t].op # "refresh"
    /\ job' = [job EXCEPT !["run"] = NewJob("refresh", "start", {})]
    /\ UNCHANGED <<hashVars, hasher, storeVars, disk, shareVars>>

(* runRefresh: the directories as they are now, if there are any.             *)
GetDirectories(t) ==
    /\ Busy(t, {"refresh"}, "start") /\ ~ShareIsLocked
    /\ job' = [job EXCEPT ![t] = IF shares = {} THEN Idle ELSE NewJob("refresh", "pause", shares)]
    /\ UNCHANGED <<hashVars, hasher, storeVars, disk, shareVars>>

Pause(t) ==
    /\ Busy(t, {"refresh", "add"}, "pause")
    /\ Paused(t, [job[t] EXCEPT !.at = "scan"])
    /\ UNCHANGED <<queue, signals, stop, rebuild, hasher, storeVars, disk, shareVars>>

(* buildTree: a directory, in the order of shares.                            *)
Scan(t, f) ==
    /\ Busy(t, {"refresh", "add"}, "scan") /\ IsFirst(f, job[t].todo)
    /\ \/ disk[f] = 0 /\ UNCHANGED <<queue, paused, signals, storeVars>>
       \/ disk[f] # 0 /\ GetTTH(f)
    /\ job' = [job EXCEPT ![t].todo = @ \ {f},
                          ![t].new = [@ EXCEPT ![f] = IF disk[f] = 0 THEN "nofile"
                                           ELSE IF Known(f) THEN "hashed" ELSE "unhashed"]]
    /\ UNCHANGED <<stop, rebuild, hasher, disk, shareVars>>

(* Directory::merge: what is in the tree stays.  Of two entries of one file,      *)
(* which a refresh can bring about that lists a directory just removed, tree has    *)
(* the one getFile finds, the new one.                                        *)
Merged(old, new) == IF new = "nofile" /\ old # "nodir" THEN old ELSE new

(* A refresh replaces all of the tree, a new directory is merged into it.       *)
Merge(t) ==
    /\ Busy(t, {"refresh", "add"}, "scan") /\ job[t].todo = {} /\ ~ShareIsLocked
    /\ LET new == {f \in Files : job[t].new[f] # "nodir"} IN
       \/ job[t].op = "refresh" /\ tree' = job[t].new /\ UNCHANGED shares
       \/ /\ job[t].op = "add" /\ shares' = shares \cup new
          /\ tree' = [f \in Files |-> IF f \in new THEN Merged(tree[f], job[t].new[f]) ELSE tree[f]]
    /\ job' = [job EXCEPT ![t].at = "resume", ![t].new = Nothing]
    /\ UNCHANGED <<hashVars, hasher, storeVars, disk>>

(* HashPauser::~HashPauser.                                                  *)
Unpause(t) ==
    /\ Busy(t, {"refresh", "add", "remove"}, "resume")
    /\ \/ job[t].resume /\ signals' = Resume /\ paused' = 0
       \/ ~job[t].resume /\ UNCHANGED <<signals, paused>>
    /\ job' = [job EXCEPT ![t] = Idle]
    /\ UNCHANGED <<queue, stop, rebuild, hasher, storeVars, disk, shareVars>>

(* addDirectory.                                                             *)
AddDirectory(f) ==
    /\ f \in Offered /\ MainIsFree /\ Room /\ f \notin shares
    /\ job' = [job EXCEPT !["main"] = NewJob("add", "pause", {f})]
    /\ UNCHANGED <<hashVars, hasher, storeVars, disk, shareVars>>

(* removeDirectory: stopHashing, then under the lock the directory goes, and   *)
(* hashing pauses while others of its name are added again (there are none).  *)
StopHashing(f) ==
    /\ f \in Offered /\ MainIsFree /\ Room /\ f \in shares
    /\ queue' = queue \ {f} /\ job' = [job EXCEPT !["main"] = NewJob("remove", "merge", {f})]
    /\ UNCHANGED <<signals, paused, stop, rebuild, hasher, storeVars, disk, shareVars>>

RemoveDirectory ==
    LET gone == job["main"].todo IN
    /\ Busy("main", {"remove"}, "merge")
    /\ shares' = shares \ gone
    /\ tree' = [f \in Files |-> IF f \in gone THEN "nodir" ELSE tree[f]]
    /\ Paused("main", [job["main"] EXCEPT !.at = "resume"])
    /\ UNCHANGED <<queue, signals, stop, rebuild, hasher, storeVars, disk>>

(* on(FileMoved): a download arrives in a shared directory; asked for with no  *)
(* date, its entry is never current.                                          *)
FileMoved(f) ==
    /\ "moved" \in Env /\ disk[f] = 0 /\ Room /\ ~ShareIsLocked
    /\ disk' = [disk EXCEPT ![f] = 1]
    /\ \/ /\ f \in shares /\ tree[f] # "nodir"
          /\ Rehash(f)
          /\ tree' = IF tree[f] = "nofile" THEN [tree EXCEPT ![f] = "unhashed"] ELSE tree
       \/ ~(f \in shares /\ tree[f] # "nodir") /\ UNCHANGED <<queue, paused, signals, storeVars, tree>>
    /\ UNCHANGED <<stop, rebuild, hasher, shares, job>>

(* Somebody writes to a file.                                                *)
Change(f) ==
    /\ f \in Written /\ disk[f] < Versions /\ hasher.pc # "ended"
    /\ disk' = [disk EXCEPT ![f] = @ + 1]
    /\ UNCHANGED <<hashVars, hasher, storeVars, shareVars, job>>

------------------------------------------------------------------------------
(* The user rebuilds, pauses or resumes, and ends the program.                *)

(* scheduleRebuild and shutdown: first the flag, then the signals.            *)
ScheduleRebuild ==
    /\ "rebuild" \in Env /\ MainIsFree /\ Room
    /\ rebuild' = TRUE /\ job' = [job EXCEPT !["main"] = NewJob("rebuild", "ask", {})]
    /\ UNCHANGED <<queue, signals, paused, stop, hasher, storeVars, disk, shareVars>>

Shutdown ==
    /\ "shutdown" \in Env /\ MainIsFree /\ ~stop
    /\ stop' = TRUE /\ job' = [job EXCEPT !["main"] = NewJob("shutdown", "ask", {})]
    /\ UNCHANGED <<queue, signals, paused, rebuild, hasher, storeVars, disk, shareVars>>

(* Mutant: one signal, which a pause may swallow.                             *)
SignalOnce ==
    /\ Busy("main", {"rebuild", "shutdown"}, "ask")
    /\ job' = [job EXCEPT !["main"].at = "signal"]
    /\ UNCHANGED <<hashVars, hasher, storeVars, disk, shareVars>>

(* if(paused) signal, for the wait of instantPause; paused is read unlocked.   *)
SignalPaused ==
    /\ Busy("main", {"rebuild", "shutdown"}, "ask")
    /\ signals' = IF paused > 0 THEN signals + 1 ELSE signals
    /\ job' = [job EXCEPT !["main"].at = "signal"]
    /\ UNCHANGED <<queue, paused, stop, rebuild, hasher, storeVars, disk, shareVars>>

(* One for the wait of run.  After shutdown the thread joins the hasher.       *)
Signal ==
    /\ Busy("main", {"rebuild", "shutdown"}, "signal") /\ signals' = signals + 1
    /\ job' = [job EXCEPT !["main"] = IF @.op = "rebuild" THEN Idle ELSE [@ EXCEPT !.at = "merge"]]
    /\ UNCHANGED <<queue, paused, stop, rebuild, hasher, storeVars, disk, shareVars>>

(* onPause: isHashingPaused, then resumeHashing or pauseHashing.              *)
AskPaused ==
    /\ "toggle" \in Env /\ MainIsFree /\ Room
    /\ "resume" \in Env \/ \A t \in Threads : ~job[t].resume
    /\ job' = [job EXCEPT !["main"] =
                  NewJob("toggle", IF paused > 0 THEN "resume" ELSE "pause", {})]
    /\ UNCHANGED <<hashVars, hasher, storeVars, disk, shareVars>>

Toggle ==
    /\ \/ Busy("main", {"toggle"}, "resume") /\ signals' = Resume /\ paused' = 0
       \/ Busy("main", {"toggle"}, "pause") /\ paused' = paused + 1 /\ UNCHANGED signals
    /\ job' = [job EXCEPT !["main"] = Idle]
    /\ UNCHANGED <<queue, stop, rebuild, hasher, storeVars, disk, shareVars>>

ThreadNext(t) ==
    \/ GetDirectories(t) \/ Pause(t) \/ Merge(t) \/ Unpause(t)
    \/ \E f \in Files : Scan(t, f)

Goes(t) == \/ ThreadNext(t)
           \/ t = "main" /\ (RemoveDirectory \/ SignalPaused \/ Signal \/ Toggle)

Next ==
    \/ HasherNext
    \/ \E t \in Threads : ThreadNext(t)
    \/ RemoveDirectory \/ SignalPaused \/ Signal \/ Toggle
    \/ Refresh \/ ScheduleRebuild \/ Shutdown \/ AskPaused
    \/ \E f \in Files : AddDirectory(f) \/ StopHashing(f) \/ FileMoved(f) \/ Change(f)

Spec == Init /\ [][Next]_vars

(* Threads do not stop on their way, and the hasher not while it may go on.    *)
FairSpec == Spec /\ WF_vars(HasherNext) /\ \A t \in Threads : WF_vars(Goes(t))

------------------------------------------------------------------------------
Resumes(t) == job[t].resume \/ Busy(t, {"toggle"}, "resume")

(* Who is going to resume hashing finds it paused, and is the only one: the     *)
(* unsigned counter of while(--paused > 0) never wraps.  Without the user, what *)
(* is paused is going to be resumed.                                          *)
PauseIsBalanced ==
    /\ \A t \in Threads : Resumes(t) => paused > 0 /\ \A s \in Threads \ {t} : ~Resumes(s)
    /\ paused > 0 => "toggle" \in Env \/ \E t \in Threads : Resumes(t)

(* The hasher never sleeps over work: if it waits for a signal, in a file or    *)
(* with a file, a rebuild or the end to see to, then there is one, or one is    *)
(* owed to it, by who pauses or by who just set a flag.                        *)
NoSignalIsLost ==
    hasher.pc = "paused" \/ (hasher.pc = "wait" /\ (queue # {} \/ stop \/ rebuild))
        => signals > 0 \/ paused > 1 \/ job["main"].at \in {"ask", "signal"}

(* "Get the TTH root associated with the filename if its tree is current"       *)
(* (HashManager.h): an entry that passes the tests of getTTH is of what the      *)
(* file holds, although files change while they are read and the hasher files   *)
(* half read ones when the program ends.                                      *)
HashIsCurrent == \A f \in Files : Known(f) => index[f].read \subseteq {disk[f]}

(* A file that is listed without its hash is not forgotten: it is in the queue, *)
(* being hashed, or the store knows it, so that it is shared after the next     *)
(* refresh; unless it is being removed from the share, or the hasher could not    *)
(* read it, in which case the next refresh queues it again.                     *)
MissingIsRemembered ==
    \A f \in shares :
        tree[f] = "unhashed" => \/ f \in queue \/ hasher.file = f \/ index[f] # NoEntry
                                \/ f \in failed
                                \/ Busy("main", {"remove"}, "merge") /\ f \in job["main"].todo

(* What is in the queue is hashed some day, unless hashing was stopped, the     *)
(* user has the data rebuilt over and over, or paused hashing for good.         *)
QueueDrains ==
    \/ \A f \in Files : f \in queue ~> f \notin queue \/ stop
    \/ []<>rebuild
    \/ <>[](paused > 0 /\ \A t \in Threads : ~job[t].resume)

(* shutdown's join comes to an end, also when hashing is paused; unless it is      *)
(* paused in the middle of a file: then the reader may pass on one more block, and   *)
(* instantPause waits a second time, for the signal that run needs.              *)
HasherEnds ==
    (stop ~> hasher.pc = "ended") \/ <>(stop /\ hasher.pc = "paused" /\ hasher.left > 0)
================================================================================
