----------------------------- MODULE HashingProofs -----------------------------
(***************************************************************************)
(* Proofs about Hashing, for any number of files and chunks.                 *)
(***************************************************************************)
EXTENDS Hashing, FiniteSetTheorems, TLAPS

Reading == hasher.pc \in {"chunk", "paused", "done", "fire"}

(* What is queued or being read is on the disk, and no file is finished before    *)
(* its chunks.                                                               *)
HasherInv ==
    /\ \A f \in queue : disk[f] # 0
    /\ hasher.pc = "chunk" => hasher.left > 0
    /\ Reading => /\ hasher.file \in Files
                  /\ 0 < hasher.time /\ hasher.time <= disk[hasher.file]

TypeInv == TypeOK /\ HasherInv

LEMMA Types ==
    /\ NoEntry \in Entry /\ Resting \in Hasher /\ Idle \in Job
    /\ \A op \in {"none", "refresh", "add", "remove", "rebuild", "toggle", "shutdown"},
          at \in {"start", "pause", "scan", "merge", "resume", "ask", "signal"},
          todo \in SUBSET Files : NewJob(op, at, todo) \in Job
BY HashAssumption DEF NoEntry, Entry, Resting, Hasher, Idle, NewJob, Job, Nothing, Listing

LEMMA AfterType ==
    ASSUME NEW h \in Hasher, NEW k \in After(h)
    PROVE  /\ k \in Hasher /\ k.pc \in {"chunk", "done"} /\ (k.pc = "chunk" => h.left # 0)
           /\ k.left = h.left /\ k.file = h.file /\ k.time = h.time /\ k.read = h.read
<1> DEFINE done  == [h EXCEPT !.pc = "done"]
           chunk == [h EXCEPT !.pc = "chunk"]
           last  == [h EXCEPT !.pc = "chunk", !.go = FALSE]
<1>1. k = done \/ (h.left # 0 /\ (k = chunk \/ k = last))
  BY DEF After
<1>2. /\ done \in Hasher /\ chunk \in Hasher /\ last \in Hasher
      /\ done.pc = "done" /\ chunk.pc = "chunk" /\ last.pc = "chunk"
      /\ \A m \in {done, chunk, last} : /\ m.left = h.left /\ m.file = h.file
                                      /\ m.time = h.time /\ m.read = h.read
  BY DEF Hasher
<1> HIDE DEF done, chunk, last
<1> QED BY <1>1, <1>2

LEMMA ReadType ==
    ASSUME TypeInv, hasher.pc = "chunk"
    PROVE  /\ Read \in Hasher /\ Read.left = hasher.left - 1 /\ hasher.left - 1 \in Nat
           /\ Read.file = hasher.file /\ Read.time = hasher.time
           /\ Read.read = hasher.read \cup ({disk[hasher.file]} \ {0})
<1>1. /\ hasher \in Hasher /\ disk \in [Files -> 0 .. Versions] /\ Versions \in Nat
      /\ hasher.left > 0 /\ hasher.file \in Files
  BY HashAssumption DEF TypeInv, TypeOK, HasherInv, Reading
<1>2. hasher.left - 1 \in Nat /\ hasher.read \cup ({disk[hasher.file]} \ {0}) \in SUBSET (1 .. Versions)
  BY <1>1 DEF Hasher
<1>3. Read = [hasher EXCEPT !.left = hasher.left - 1,
                           !.read = hasher.read \cup ({disk[hasher.file]} \ {0})]
  BY <1>1 DEF Read, Hasher
<1> QED BY <1>1, <1>2, <1>3 DEF Hasher

LEMMA TypeInit == Init => TypeInv
<1> SUFFICES ASSUME Init PROVE TypeInv
  OBVIOUS
<1>1. [time |-> 1, read |-> {1}, whole |-> TRUE] \in Entry /\ 0 .. 1 \subseteq 0 .. Versions
  BY HashAssumption DEF Entry
<1>2. index \in [Files -> Entry]
  BY <1>1, Types DEF Init
<1>0. disk \in [Files -> 0 .. Versions]
  BY <1>1 DEF Init
<1>3. job \in [Threads -> Job]
  BY Types DEF Init
<1>4. shares \subseteq Files /\ tree \in [Files -> Listing]
  BY DEF Init, Nothing, Listing
<1>5. hasher \in Hasher
  BY Types DEF Init
<1>6. TypeOK
  BY <1>0, <1>2, <1>3, <1>4, <1>5 DEF Init, TypeOK
<1>7. HasherInv
  BY DEF Init, HasherInv, Reading, Resting
<1> QED BY <1>6, <1>7 DEF TypeInv

LEMMA TypeHasher == TypeInv /\ HasherNext => TypeInv'
<1> SUFFICES ASSUME TypeInv, HasherNext PROVE TypeInv'
  OBVIOUS
<1> USE HashAssumption
<1>a. /\ hasher \in Hasher /\ disk \in [Files -> 0 .. Versions]
      /\ \A f \in queue : disk[f] # 0
  BY DEF TypeInv, TypeOK, HasherInv
<1>1. CASE Wake
  <2>1. hasher' \in Hasher
    BY <1>a, <1>1 DEF Wake, Hasher
  <2>2. signals' \in Nat
    BY <1>1 DEF Wake, TypeInv, TypeOK
  <2>3. HasherInv'
    BY <1>a, <1>1 DEF Wake, HasherInv, Reading, Hasher
  <2> QED BY <1>1, <2>1, <2>2, <2>3 DEF Wake, TypeInv, TypeOK, storeVars, shareVars
<1>2. CASE End
  <2>1. hasher' \in Hasher /\ HasherInv'
    BY <1>a, <1>2 DEF End, Hasher, HasherInv, Reading, hashVars
  <2> QED BY <1>2, <2>1 DEF End, TypeInv, TypeOK, hashVars, storeVars, shareVars
<1>3. CASE DoRebuild
  <2>1. hasher' \in Hasher /\ HasherInv'
    BY <1>a, <1>3 DEF DoRebuild, Hasher, HasherInv, Reading, hashVars
  <2>2. index' \in [Files -> Entry]
    BY <1>3, Types DEF DoRebuild, TypeInv, TypeOK
  <2> QED BY <1>3, <2>1, <2>2 DEF DoRebuild, TypeInv, TypeOK, hashVars, shareVars
<1>4. CASE Rebuilt
  <2>1. hasher' \in Hasher /\ HasherInv'
    BY <1>a, <1>4 DEF Rebuilt, Hasher, HasherInv, Reading
  <2> QED BY <1>4, <2>1 DEF Rebuilt, TypeInv, TypeOK, storeVars, shareVars
<1>5. CASE Take
  <2>1. /\ hasher' \in Hasher /\ HasherInv' /\ queue' \subseteq Files /\ failed' \subseteq Files
    <3>1. CASE queue = {} /\ hasher' = Resting /\ UNCHANGED <<queue, failed>>
      BY <3>1, Types DEF HasherInv, Reading, Resting, TypeInv, TypeOK
    <3>2. ASSUME NEW f \in queue, queue' = queue \ {f},
                 \/ /\ hasher' = [pc |-> IF Chunks[f] = 0 THEN "done" ELSE "chunk", file |-> f,
                                  left |-> Chunks[f], time |-> disk[f], read |-> {}, go |-> TRUE]
                    /\ UNCHANGED failed
                 \/ hasher' = Resting /\ failed' = failed \cup {f}
          PROVE  hasher' \in Hasher /\ HasherInv' /\ queue' \subseteq Files /\ failed' \subseteq Files
      <4>1. /\ f \in Files /\ Chunks[f] \in Nat /\ disk[f] \in 1 .. Versions /\ disk' = disk
            /\ queue \subseteq Files /\ failed \subseteq Files /\ \A g \in queue : disk[g] # 0
        BY <1>a, <1>5 DEF Take, TypeInv, TypeOK, HasherInv
      <4>2. CASE hasher' = Resting /\ failed' = failed \cup {f}
        BY <3>2, <4>1, <4>2, Types DEF HasherInv, Reading, Resting
      <4>3. CASE /\ hasher' = [pc |-> IF Chunks[f] = 0 THEN "done" ELSE "chunk", file |-> f,
                               left |-> Chunks[f], time |-> disk[f], read |-> {}, go |-> TRUE]
                 /\ UNCHANGED failed
        <5>1. hasher' \in Hasher
          BY <4>1, <4>3 DEF Hasher
        <5>2. HasherInv'
          BY <3>2, <4>1, <4>3 DEF HasherInv, Reading
        <5> QED BY <3>2, <4>1, <4>3, <5>1, <5>2
      <4> QED BY <3>2, <4>2, <4>3
    <3> QED BY <1>5, <3>1, <3>2 DEF Take
  <2> QED BY <1>5, <2>1 DEF Take, TypeInv, TypeOK, shareVars
<1>e. CASE ErrorHashing
  <2>1. hasher' \in Hasher /\ HasherInv' /\ failed' \subseteq Files
    BY <1>e, Types DEF ErrorHashing, Resting, TypeInv, TypeOK, HasherInv, Reading, hashVars
  <2> QED BY <1>e, <2>1 DEF ErrorHashing, TypeInv, TypeOK, hashVars, shareVars
<1>6. CASE ReadChunk
  <2>1. /\ Read \in Hasher /\ Read.left \in Nat /\ Read.file = hasher.file
        /\ Read.time = hasher.time
    BY <1>6, ReadType DEF ReadChunk
  <2>2. /\ hasher.file \in Files /\ 0 < hasher.time /\ hasher.time <= disk[hasher.file]
        /\ UNCHANGED <<queue, disk>> /\ \A f \in queue : disk[f] # 0
    BY <1>6 DEF ReadChunk, TypeInv, HasherInv, Reading
  <2>3. CASE paused > 0 /\ paused' = paused + 1 /\ hasher' = [Read EXCEPT !.pc = "paused"]
    <3>1. /\ hasher' \in Hasher /\ hasher'.pc = "paused" /\ hasher'.file = hasher.file
          /\ hasher'.time = hasher.time
      BY <2>1, <2>3 DEF Hasher
    <3>2. HasherInv'
      BY <2>2, <3>1 DEF HasherInv, Reading
    <3> QED BY <1>6, <2>3, <3>1, <3>2 DEF ReadChunk, TypeInv, TypeOK, storeVars, shareVars
  <2>4. CASE paused = 0 /\ UNCHANGED paused /\ hasher' \in After(Read)
    <3>1. /\ hasher' \in Hasher /\ hasher'.file = hasher.file /\ hasher'.time = hasher.time
          /\ hasher'.left \in Nat /\ (hasher'.pc = "chunk" => hasher'.left # 0)
      BY <2>1, <2>4, AfterType
    <3>2. HasherInv'
      BY <2>2, <3>1 DEF HasherInv, Reading
    <3> QED BY <1>6, <2>4, <3>1, <3>2 DEF ReadChunk, TypeInv, TypeOK, storeVars, shareVars
  <2> QED BY <1>6, <2>3, <2>4 DEF ReadChunk
<1>7. CASE GoOn
  <2>1. hasher' \in Hasher /\ HasherInv'
    <3>1. /\ hasher' \in Hasher /\ hasher'.file = hasher.file /\ hasher'.time = hasher.time
          /\ hasher'.left \in Nat /\ (hasher'.pc = "chunk" => hasher'.left # 0)
      <4>1. hasher' \in After(hasher) /\ hasher.left \in Nat
        BY <1>a, <1>7 DEF GoOn, Hasher
      <4> QED BY <1>a, <4>1, AfterType
    <3>2. /\ hasher.file \in Files /\ 0 < hasher.time /\ hasher.time <= disk[hasher.file]
          /\ UNCHANGED <<queue, disk>> /\ \A f \in queue : disk[f] # 0
      BY <1>7 DEF GoOn, TypeInv, HasherInv, Reading
    <3> QED BY <3>1, <3>2 DEF HasherInv, Reading
  <2>2. signals' \in Nat
    BY <1>7 DEF GoOn, TypeInv, TypeOK
  <2> QED BY <1>7, <2>1, <2>2 DEF GoOn, TypeInv, TypeOK, storeVars, shareVars
<1>8. CASE HashDone
  <2>1. hasher' \in Hasher /\ HasherInv' /\ hasher.file \in Files
    BY <1>a, <1>8 DEF HashDone, Hasher, TypeInv, HasherInv, Reading, hashVars
  <2>2. index' \in [Files -> Entry]
    <3>1. [time |-> hasher.time, read |-> hasher.read, whole |-> hasher.left = 0] \in Entry
      BY <1>a DEF Hasher, Entry
    <3> QED BY <1>8, <3>1 DEF HashDone, TypeInv, TypeOK
  <2> QED BY <1>8, <2>1, <2>2 DEF HashDone, TypeInv, TypeOK, hashVars, shareVars
<1>9. CASE TTHDone
  <2>1. hasher' \in Hasher /\ HasherInv'
    BY <1>a, <1>9, Types DEF TTHDone, Resting, HasherInv, Reading, hashVars
  <2>2. tree' \in [Files -> Listing]
    BY <1>9 DEF TTHDone, TypeInv, TypeOK, Listing
  <2> QED BY <1>9, <2>1, <2>2 DEF TTHDone, TypeInv, TypeOK, hashVars, storeVars
<1> QED BY <1>1, <1>2, <1>3, <1>4, <1>5, <1>e, <1>6, <1>7, <1>8, <1>9 DEF HasherNext

LEMMA QueueTypes ==
    ASSUME TypeOK, NEW f \in Files, HashFile(f) \/ Rehash(f) \/ GetTTH(f)
    PROVE  /\ queue' \subseteq queue \cup {f} /\ failed' \subseteq Files
           /\ paused' \in Nat /\ signals' \in Nat
<1>1. ASSUME HashFile(f)
      PROVE  /\ queue' \subseteq queue \cup {f} /\ failed' \subseteq Files
             /\ paused' \in Nat /\ signals' \in Nat
  BY <1>1 DEF HashFile, TypeOK
<1>2. ASSUME Rehash(f) PROVE HashFile(f)
  BY <1>2 DEF Rehash
<1> QED BY <1>1, <1>2 DEF GetTTH, TypeOK

LEMMA StoreTypes ==
    ASSUME TypeOK, NEW f \in Files, Rehash(f) \/ GetTTH(f)
    PROVE  index' \in [Files -> Entry] /\ used' \subseteq Files
BY Types DEF Rehash, GetTTH, TypeOK

(* Nothing but the hasher's own steps moves the hasher.                       *)
LEMMA HasherStays ==
    ASSUME TypeInv, UNCHANGED hasher, \A f \in Files : disk'[f] >= disk[f] /\ disk'[f] \in Nat,
           \A f \in queue' : disk'[f] # 0
    PROVE  hasher' \in Hasher /\ HasherInv'
<1>1. hasher \in Hasher /\ disk \in [Files -> 0 .. Versions]
  BY DEF TypeInv, TypeOK
<1>2. ASSUME Reading PROVE hasher.time <= disk'[hasher.file]
  <2>1. hasher.file \in Files /\ hasher.time <= disk[hasher.file]
    BY <1>2 DEF TypeInv, HasherInv
  <2>2. hasher.time \in Nat /\ disk[hasher.file] \in Nat
    BY <1>1, <2>1 DEF Hasher
  <2> QED BY <2>1, <2>2
<1> QED BY <1>1, <1>2 DEF TypeInv, HasherInv, Reading

LEMMA JobFields ==
    ASSUME TypeOK, NEW t \in Threads
    PROVE  job[t] \in Job
BY DEF TypeOK

LEMMA ScannedType ==
    ASSUME NEW j \in Job, NEW f \in Files, NEW l \in Listing
    PROVE  [[j EXCEPT !.todo = @ \ {f}] EXCEPT !.new = [@ EXCEPT ![f] = l]] \in Job
<1> DEFINE k == [j EXCEPT !.todo = @ \ {f}]
<1>1. k \in Job
  BY DEF Job
<1>2. [k.new EXCEPT ![f] = l] \in [Files -> Listing]
  BY <1>1 DEF Job
<1> HIDE DEF k
<1> QED BY <1>1, <1>2 DEF Job

LEMMA NewJobType ==
    ASSUME TypeOK, NEW t \in Threads, NEW j \in Job, job' = [job EXCEPT ![t] = j]
    PROVE  job' \in [Threads -> Job]
BY DEF TypeOK

LEMMA TypeThread ==
    ASSUME TypeInv, NEW t \in Threads, ThreadNext(t)
    PROVE  TypeInv'
<1>a. TypeOK /\ job[t] \in Job /\ signals \in Nat /\ paused \in Nat
  BY JobFields DEF TypeInv, TypeOK
<1>b. ASSUME UNCHANGED <<hasher, disk>>, queue' \subseteq queue PROVE HasherInv'
  BY <1>b DEF TypeInv, HasherInv, Reading
<1>1. CASE GetDirectories(t)
  <2>1. (IF shares = {} THEN Idle ELSE NewJob("refresh", "pause", shares)) \in Job
    BY Types, <1>a DEF TypeOK
  <2>2. job' \in [Threads -> Job]
    BY <1>1, <1>a, <2>1, NewJobType DEF GetDirectories
  <2> QED BY <1>1, <1>b, <2>2 DEF GetDirectories, TypeInv, TypeOK, hashVars, storeVars, shareVars
<1>2. CASE Pause(t)
  <2> DEFINE j == [job[t] EXCEPT !.at = "scan"]
  <2>1. [j EXCEPT !.resume = (paused = 0)] \in Job
    <3>1. j \in Job
      BY <1>a DEF Job
    <3> HIDE DEF j
    <3> QED BY <3>1 DEF Job
  <2>2. job' \in [Threads -> Job] /\ paused' \in Nat
    <3>1. paused' = paused + 1 /\ job' = [job EXCEPT ![t] = [j EXCEPT !.resume = (paused = 0)]]
      BY <1>2, Zenon DEF Pause, Paused
    <3> HIDE DEF j
    <3>2. job' \in [Threads -> Job]
      BY <1>a, <2>1, <3>1, NewJobType, Zenon
    <3> QED BY <1>a, <3>1, <3>2
  <2> QED BY <1>2, <1>b, <2>2 DEF Pause, TypeInv, TypeOK, storeVars, shareVars
<1>3. CASE Merge(t)
  <2>1. job' \in [Threads -> Job]
    <3>1. job' = [job EXCEPT ![t] = [[job[t] EXCEPT !.at = "resume"] EXCEPT !.new = Nothing]]
      BY <1>3, <1>a DEF Merge, TypeOK
    <3>2. [[job[t] EXCEPT !.at = "resume"] EXCEPT !.new = Nothing] \in Job
      <4>1. [job[t] EXCEPT !.at = "resume"] \in Job /\ Nothing \in [Files -> Listing]
        BY <1>a DEF Job, Nothing, Listing
      <4> QED BY <4>1 DEF Job
    <3> QED BY <1>a, <3>1, <3>2, NewJobType
  <2>2. shares' \subseteq Files /\ tree' \in [Files -> Listing]
    BY <1>3, <1>a DEF Merge, Merged, TypeOK, Job
  <2> QED BY <1>3, <1>b, <2>1, <2>2 DEF Merge, TypeInv, TypeOK, hashVars, storeVars
<1>4. CASE Unpause(t)
  <2>1. job' \in [Threads -> Job]
    BY <1>4, <1>a, Types, NewJobType, Zenon DEF Unpause
  <2>2. signals' \in Nat /\ paused' \in Nat
    BY <1>4, <1>a DEF Unpause, Resume, Full
  <2> QED BY <1>4, <1>b, <2>1, <2>2 DEF Unpause, TypeInv, TypeOK, storeVars, shareVars
<1>5. ASSUME NEW f \in Files, Scan(t, f) PROVE TypeInv'
  <2> DEFINE l == IF disk[f] = 0 THEN "nofile" ELSE IF Known(f) THEN "hashed" ELSE "unhashed"
  <2>1. job' \in [Threads -> Job]
    <3>1. l \in Listing
      BY DEF Listing
    <3>2. job' = [job EXCEPT ![t] = [[job[t] EXCEPT !.todo = @ \ {f}]
                                        EXCEPT !.new = [@ EXCEPT ![f] = l]]]
      <4>1. job' = [job EXCEPT ![t] = [[job[t] EXCEPT !.todo = @ \ {f}]
                                        EXCEPT !.new = [job[t].new EXCEPT ![f] = l]]]
        BY <1>5, <1>a DEF Scan, TypeOK
      <4>2. [job[t] EXCEPT !.todo = @ \ {f}].new = job[t].new
        BY <1>a DEF Job
      <4> HIDE DEF l
      <4> QED BY <4>1, <4>2
    <3> HIDE DEF l
    <3>3. [[job[t] EXCEPT !.todo = @ \ {f}] EXCEPT !.new = [@ EXCEPT ![f] = l]] \in Job
      BY <1>a, <3>1, ScannedType
    <3> QED BY <1>a, <3>2, <3>3, NewJobType
  <2>2. /\ queue' \subseteq queue \cup {f} /\ paused' \in Nat /\ signals' \in Nat
        /\ index' \in [Files -> Entry] /\ used' \subseteq Files /\ failed' \subseteq Files
    BY <1>5, <1>a, QueueTypes, StoreTypes DEF Scan, TypeOK, storeVars
  <2>3. queue' \subseteq Files
    BY <1>a, <2>2 DEF TypeOK
  <2>4. HasherInv'
    <3>1. disk[f] = 0 => UNCHANGED queue
      BY <1>5 DEF Scan
    <3>2. UNCHANGED <<hasher, disk>>
      BY <1>5 DEF Scan
    <3> QED BY <2>2, <3>1, <3>2 DEF TypeInv, HasherInv, Reading
  <2> QED BY <1>5, <2>1, <2>2, <2>3, <2>4 DEF Scan, TypeInv, TypeOK, shareVars
<1> QED BY <1>1, <1>2, <1>3, <1>4, <1>5 DEF ThreadNext

LEMMA TypeUser ==
    ASSUME TypeInv,
           \/ RemoveDirectory \/ SignalPaused \/ Signal \/ Toggle
           \/ Refresh \/ ScheduleRebuild \/ Shutdown \/ AskPaused
    PROVE  TypeInv'
<1>a. /\ TypeOK /\ "main" \in Threads /\ "run" \in Threads /\ job["main"] \in Job
      /\ signals \in Nat /\ paused \in Nat
  BY JobFields DEF TypeInv, TypeOK, Threads
<1>b. ASSUME UNCHANGED <<hasher, disk>>, queue' \subseteq queue PROVE HasherInv'
  BY <1>b DEF TypeInv, HasherInv, Reading
<1>c. /\ NewJob("refresh", "start", {}) \in Job /\ NewJob("rebuild", "ask", {}) \in Job
      /\ NewJob("shutdown", "ask", {}) \in Job /\ NewJob("toggle", "resume", {}) \in Job
      /\ NewJob("toggle", "pause", {}) \in Job
  BY Types
<1>1. CASE RemoveDirectory
  <2> DEFINE j == [job["main"] EXCEPT !.at = "resume"]
  <2>1. j \in Job
    BY <1>a DEF Job
  <2>2. paused' = paused + 1 /\ job' = [job EXCEPT !["main"] = [j EXCEPT !.resume = (paused = 0)]]
    BY <1>1, Zenon DEF RemoveDirectory, Paused
  <2> HIDE DEF j
  <2>3. [j EXCEPT !.resume = (paused = 0)] \in Job
    BY <2>1 DEF Job
  <2>4. job' \in [Threads -> Job]
    BY <1>a, <2>2, <2>3, NewJobType, Zenon
  <2>5. shares' \subseteq Files /\ tree' \in [Files -> Listing] /\ paused' \in Nat
    BY <1>1, <1>a, <2>2 DEF RemoveDirectory, TypeOK, Listing
  <2> QED BY <1>1, <1>b, <2>4, <2>5 DEF RemoveDirectory, TypeInv, TypeOK, storeVars
<1>2. CASE Signal
  <2>1. job' \in [Threads -> Job]
    <3>1. [job["main"] EXCEPT !.at = "merge"] \in Job
      BY <1>a DEF Job
    <3> QED BY <1>2, <1>a, <3>1, Types DEF Signal, TypeOK
  <2>2. signals' \in Nat
    BY <1>2, <1>a DEF Signal
  <2> QED BY <1>2, <1>b, <2>1, <2>2 DEF Signal, TypeInv, TypeOK, storeVars, shareVars
<1>3. CASE Toggle
  <2>1. job' \in [Threads -> Job]
    BY <1>3, <1>a, Types, NewJobType DEF Toggle
  <2>2. signals' \in Nat /\ paused' \in Nat
    BY <1>3, <1>a DEF Toggle, Resume, Full
  <2> QED BY <1>3, <1>b, <2>1, <2>2 DEF Toggle, TypeInv, TypeOK, storeVars, shareVars
<1>4. CASE Refresh
  <2>1. job' \in [Threads -> Job]
    BY <1>4, <1>a, <1>c, NewJobType DEF Refresh
  <2> QED BY <1>4, <1>b, <2>1 DEF Refresh, TypeInv, TypeOK, hashVars, storeVars, shareVars
<1>5. CASE ScheduleRebuild
  <2>1. job' \in [Threads -> Job]
    BY <1>5, <1>a, <1>c, NewJobType DEF ScheduleRebuild
  <2> QED BY <1>5, <1>b, <2>1 DEF ScheduleRebuild, TypeInv, TypeOK, storeVars, shareVars
<1>6. CASE Shutdown
  <2>1. job' \in [Threads -> Job]
    BY <1>6, <1>a, <1>c, NewJobType DEF Shutdown
  <2> QED BY <1>6, <1>b, <2>1 DEF Shutdown, TypeInv, TypeOK, storeVars, shareVars
<1>7. CASE AskPaused
  <2>1. job' \in [Threads -> Job]
    BY <1>7, <1>a, <1>c, NewJobType DEF AskPaused
  <2> QED BY <1>7, <1>b, <2>1 DEF AskPaused, TypeInv, TypeOK, hashVars, storeVars, shareVars
<1>8. CASE SignalPaused
  <2>1. job' \in [Threads -> Job]
    <3>1. [job["main"] EXCEPT !.at = "signal"] \in Job
      BY <1>a DEF Job
    <3> QED BY <1>8, <1>a, <3>1 DEF SignalPaused, TypeOK
  <2>2. signals' \in Nat
    BY <1>8, <1>a DEF SignalPaused
  <2> QED BY <1>8, <1>b, <2>1, <2>2 DEF SignalPaused, TypeInv, TypeOK, storeVars, shareVars
<1> QED BY <1>1, <1>2, <1>3, <1>4, <1>5, <1>6, <1>7, <1>8

LEMMA TypeFile ==
    ASSUME TypeInv, NEW f \in Files,
           AddDirectory(f) \/ StopHashing(f) \/ FileMoved(f) \/ Change(f)
    PROVE  TypeInv'
<1>a. /\ TypeOK /\ "main" \in Threads /\ disk \in [Files -> 0 .. Versions]
  BY DEF TypeInv, TypeOK, Threads
<1>b. ASSUME UNCHANGED <<hasher, disk>>, queue' \subseteq queue PROVE HasherInv'
  BY <1>b DEF TypeInv, HasherInv, Reading
<1>c. NewJob("add", "pause", {f}) \in Job /\ NewJob("remove", "merge", {f}) \in Job
  BY Types
<1>1. CASE AddDirectory(f)
  <2>1. job' \in [Threads -> Job]
    BY <1>1, <1>a, <1>c, NewJobType DEF AddDirectory
  <2> QED BY <1>1, <1>b, <2>1 DEF AddDirectory, TypeInv, TypeOK, hashVars, storeVars, shareVars
<1>2. CASE StopHashing(f)
  <2>1. job' \in [Threads -> Job]
    BY <1>2, <1>a, <1>c, NewJobType DEF StopHashing
  <2> QED BY <1>2, <1>b, <2>1 DEF StopHashing, TypeInv, TypeOK, storeVars, shareVars
<1>3. CASE FileMoved(f)
  <2>1. /\ disk' \in [Files -> 0 .. Versions] /\ UNCHANGED hasher
        /\ \A g \in Files : disk'[g] >= disk[g] /\ disk'[g] \in Nat
    BY <1>3, <1>a, HashAssumption DEF FileMoved
  <2>3. /\ queue' \subseteq queue \cup {f} /\ paused' \in Nat /\ signals' \in Nat
        /\ index' \in [Files -> Entry] /\ used' \subseteq Files /\ failed' \subseteq Files
    BY <1>3, <1>a, QueueTypes, StoreTypes DEF FileMoved, TypeOK, storeVars
  <2>5. queue' \subseteq Files
    BY <1>a, <2>3 DEF TypeOK
  <2>6. \A g \in queue' : disk'[g] # 0
    BY <1>3, <1>a, <2>3, <2>5 DEF FileMoved, TypeInv, HasherInv
  <2>2. hasher' \in Hasher /\ HasherInv'
    BY <2>1, <2>6, HasherStays
  <2>4. tree' \in [Files -> Listing]
    BY <1>3, <1>a DEF FileMoved, TypeOK, Listing
  <2> QED BY <1>3, <2>1, <2>2, <2>3, <2>4, <2>5 DEF FileMoved, TypeInv, TypeOK
<1>4. CASE Change(f)
  <2>1. /\ disk' \in [Files -> 0 .. Versions] /\ UNCHANGED hasher
        /\ \A g \in Files : disk'[g] >= disk[g] /\ disk'[g] \in Nat
    BY <1>4, <1>a, HashAssumption DEF Change
  <2>3. \A g \in queue' : disk'[g] # 0
    BY <1>4, <1>a DEF Change, TypeInv, TypeOK, HasherInv, hashVars
  <2>2. hasher' \in Hasher /\ HasherInv'
    BY <2>1, <2>3, HasherStays
  <2> QED BY <1>4, <2>1, <2>2 DEF Change, TypeInv, TypeOK, hashVars, storeVars, shareVars
<1> QED BY <1>1, <1>2, <1>3, <1>4

LEMMA TypeStutter == TypeInv /\ UNCHANGED vars => TypeInv'
BY DEF TypeInv, TypeOK, HasherInv, Reading, vars, hashVars, storeVars, shareVars

(* Every variable of Hashing keeps its type.                                 *)
THEOREM TypesAlways == Spec => []TypeOK
<1>1. TypeInv /\ [Next]_vars => TypeInv'
  BY TypeHasher, TypeThread, TypeUser, TypeFile, TypeStutter DEF Next
<1>2. TypeInv => TypeOK
  BY DEF TypeInv
<1> QED BY TypeInit, <1>1, <1>2, PTL DEF Spec

------------------------------------------------------------------------------
(* Pauses.  Only who scans, or is about to resume, has paused hashing.        *)
JobInv ==
    /\ \A t \in Threads :
          job[t].resume => job[t].at \in {"scan", "resume"} /\ job[t].op # "toggle"
    /\ job["run"].op \in {"none", "refresh"} /\ (job["run"].resume => job["run"].op = "refresh")
    /\ job["main"].op = "toggle" => "toggle" \in Env

PauseInv == JobInv /\ PauseIsBalanced

(* A step that leaves the pauses alone, but for what it counts of them.       *)
LEMMA SamePauses ==
    ASSUME PauseInv, paused' > 0 <=> paused > 0,
           \A t \in Threads : /\ job'[t].op = job[t].op /\ job'[t].at = job[t].at
                              /\ job'[t].resume = job[t].resume
    PROVE  PauseInv'
<1>1. \A t \in Threads : Resumes(t)' <=> Resumes(t)
  BY DEF Resumes, Busy
<1>2. "main" \in Threads /\ "run" \in Threads
  BY DEF Threads
<1> QED BY <1>1, <1>2 DEF PauseInv, JobInv, PauseIsBalanced

(* A thread that has not paused hashing goes on to something else.            *)
LEMMA OtherJob ==
    ASSUME TypeOK, PauseInv, NEW t \in Threads, NEW j, job' = [job EXCEPT ![t] = j],
           UNCHANGED paused, ~Resumes(t), ~j.resume, j.op # "toggle",
           t = "run" => j.op \in {"none", "refresh"}
    PROVE  PauseInv'
<1>1. /\ job'[t] = j /\ \A s \in Threads \ {t} : job'[s] = job[s]
      /\ "main" \in Threads /\ "run" \in Threads
  BY DEF TypeOK, Threads
<1>2. ~Resumes(t)' /\ \A s \in Threads \ {t} : Resumes(s)' <=> Resumes(s)
  BY <1>1 DEF Resumes, Busy
<1>3. JobInv'
  BY <1>1 DEF PauseInv, JobInv
<1>4. PauseIsBalanced'
  BY <1>2 DEF PauseInv, PauseIsBalanced
<1> QED BY <1>3, <1>4 DEF PauseInv

(* HashPauser.                                                               *)
LEMMA PauserJob ==
    ASSUME TypeOK, PauseInv, NEW t \in Threads, NEW j \in Job, Paused(t, j),
           ~Resumes(t), j.op # "toggle", j.at \in {"scan", "resume"},
           t = "run" => j.op = "refresh"
    PROVE  PauseInv'
<1> DEFINE k == [j EXCEPT !.resume = (paused = 0)]
<1>1. /\ k.op = j.op /\ k.at = j.at /\ (k.resume <=> paused = 0)
      /\ paused' = paused + 1 /\ job' = [job EXCEPT ![t] = k]
  BY Zenon DEF Paused, Job
<1> HIDE DEF k
<1>2. /\ job'[t] = k /\ \A s \in Threads \ {t} : job'[s] = job[s]
      /\ "main" \in Threads /\ "run" \in Threads /\ paused \in Nat
  BY <1>1 DEF TypeOK, Threads
<1>3. /\ Resumes(t)' <=> paused = 0
      /\ \A s \in Threads \ {t} : Resumes(s)' <=> Resumes(s)
  BY <1>1, <1>2 DEF Resumes, Busy
<1>4. JobInv'
  BY <1>1, <1>2 DEF PauseInv, JobInv
<1>5. PauseIsBalanced'
  BY <1>1, <1>2, <1>3 DEF PauseInv, PauseIsBalanced
<1> QED BY <1>4, <1>5 DEF PauseInv

(* ~HashPauser, and the user's resume.                                       *)
LEMMA ResumedJob ==
    ASSUME TypeOK, PauseInv, NEW t \in Threads, Resumes(t), paused' = 0,
           job' = [job EXCEPT ![t] = Idle]
    PROVE  PauseInv'
<1>1. /\ job'[t] = Idle /\ \A s \in Threads \ {t} : job'[s] = job[s]
      /\ "main" \in Threads /\ "run" \in Threads
      /\ Idle.op = "none" /\ Idle.at = "start" /\ Idle.resume = FALSE
  BY DEF TypeOK, Threads, Idle, NewJob
<1>2. \A s \in Threads : ~Resumes(s)'
  BY <1>1 DEF Resumes, Busy, PauseInv, PauseIsBalanced
<1>3. JobInv'
  BY <1>1 DEF PauseInv, JobInv
<1> QED BY <1>2, <1>3 DEF PauseInv, PauseIsBalanced

(* hashFile counts a pause only while hashing is paused.                      *)
LEMMA CountedPause ==
    ASSUME TypeOK, NEW f \in Files, HashFile(f) \/ Rehash(f) \/ GetTTH(f)
    PROVE  paused' > 0 <=> paused > 0
BY DEF HashFile, Rehash, GetTTH, TypeOK

LEMMA PauseHasher ==
    ASSUME TypeInv, PauseInv, HasherNext
    PROVE  PauseInv'
<1>1. job' = job
  BY DEF HasherNext, Wake, End, DoRebuild, Rebuilt, Take, ErrorHashing, ReadChunk, GoOn, HashDone, TTHDone
<1>2. paused' > 0 <=> paused > 0
  BY DEF HasherNext, Wake, End, DoRebuild, Rebuilt, Take, ErrorHashing, ReadChunk, GoOn, HashDone, TTHDone,
     hashVars, TypeInv, TypeOK
<1> QED BY <1>1, <1>2, SamePauses

LEMMA PauseThread ==
    ASSUME TypeInv, PauseInv, NEW t \in Threads, ThreadNext(t)
    PROVE  PauseInv'
<1>a. TypeOK /\ job[t] \in Job
  BY JobFields DEF TypeInv
<1>1. CASE GetDirectories(t)
  <2> DEFINE j == IF shares = {} THEN Idle ELSE NewJob("refresh", "pause", shares)
  <2>1. /\ ~Resumes(t) /\ UNCHANGED paused /\ job' = [job EXCEPT ![t] = j]
    BY <1>1 DEF GetDirectories, Resumes, Busy, PauseInv, JobInv, hashVars
  <2>2. ~j.resume /\ j.op \in {"none", "refresh"}
    BY DEF Idle, NewJob
  <2> HIDE DEF j
  <2> QED BY <1>a, <2>1, <2>2, OtherJob
<1>2. CASE Pause(t)
  <2> DEFINE j == [job[t] EXCEPT !.at = "scan"]
  <2>1. j \in Job /\ j.op = job[t].op /\ j.at = "scan"
    BY <1>a DEF Job
  <2>2. /\ Paused(t, j) /\ ~Resumes(t) /\ job[t].op # "toggle"
        /\ t = "run" => job[t].op = "refresh"
    BY <1>2 DEF Pause, Resumes, Busy, PauseInv, JobInv
  <2> HIDE DEF j
  <2> QED BY <1>a, <2>1, <2>2, PauserJob
<1>3. CASE Merge(t)
  <2>1. /\ UNCHANGED paused /\ job[t].op # "toggle" /\ job[t].at = "scan"
        /\ job' = [job EXCEPT ![t].at = "resume", ![t].new = Nothing]
    BY <1>3 DEF Merge, Busy, hashVars
  <2>2. /\ job'[t].op = job[t].op /\ job'[t].at = "resume" /\ job'[t].resume = job[t].resume
        /\ \A s \in Threads \ {t} : job'[s] = job[s]
        /\ "main" \in Threads /\ "run" \in Threads
    BY <1>a, <2>1 DEF TypeOK, Threads, Job
  <2>3. \A s \in Threads : Resumes(s)' <=> Resumes(s)
    BY <2>1, <2>2 DEF Resumes, Busy
  <2>4. JobInv'
    BY <2>1, <2>2 DEF PauseInv, JobInv
  <2> QED BY <2>1, <2>3, <2>4 DEF PauseInv, PauseIsBalanced
<1>4. CASE Unpause(t)
  <2>1. CASE job[t].resume
    <3>1. paused' = 0 /\ Resumes(t) /\ job' = [job EXCEPT ![t] = Idle]
      BY <1>4, <2>1, Zenon DEF Unpause, Resumes
    <3> QED BY <1>a, <3>1, ResumedJob
  <2>2. CASE ~job[t].resume
    <3>1. UNCHANGED paused /\ ~Resumes(t) /\ job' = [job EXCEPT ![t] = Idle]
      BY <1>4, <2>2 DEF Unpause, Resumes, Busy
    <3>2. ~Idle.resume /\ Idle.op = "none"
      BY DEF Idle, NewJob
    <3> QED BY <1>a, <3>1, <3>2, OtherJob
  <2> QED BY <2>1, <2>2
<1>5. ASSUME NEW f \in Files, Scan(t, f) PROVE PauseInv'
  <2>1. paused' > 0 <=> paused > 0
    BY <1>5, <1>a, CountedPause DEF Scan
  <2>2. \A s \in Threads : /\ job'[s].op = job[s].op /\ job'[s].at = job[s].at
                           /\ job'[s].resume = job[s].resume
    <3> DEFINE k == IF disk[f] = 0 THEN "nofile" ELSE IF Known(f) THEN "hashed" ELSE "unhashed"
    <3>1. job' = [job EXCEPT ![t].todo = @ \ {f}, ![t].new = [@ EXCEPT ![f] = k]]
      BY <1>5 DEF Scan
    <3> HIDE DEF k
    <3> QED BY <1>a, <3>1 DEF TypeOK, Job
  <2> QED BY <2>1, <2>2, SamePauses
<1> QED BY <1>1, <1>2, <1>3, <1>4, <1>5 DEF ThreadNext

LEMMA PauseUser ==
    ASSUME TypeInv, PauseInv, "resume" \notin Env,
           \/ RemoveDirectory \/ SignalPaused \/ Signal \/ Toggle
           \/ Refresh \/ ScheduleRebuild \/ Shutdown \/ AskPaused
    PROVE  PauseInv'
<1>a. /\ TypeOK /\ "main" \in Threads /\ "run" \in Threads
      /\ job["main"] \in Job /\ job["run"] \in Job
  BY JobFields DEF TypeInv, Threads
<1>b. ASSUME MainIsFree PROVE ~Resumes("main")
  BY <1>b DEF MainIsFree, Idle, NewJob, Resumes, Busy
<1>1. CASE RemoveDirectory
  <2> DEFINE j == [job["main"] EXCEPT !.at = "resume"]
  <2>1. j \in Job /\ j.op = job["main"].op /\ j.at = "resume"
    BY <1>a DEF Job
  <2>2. Paused("main", j) /\ ~Resumes("main") /\ job["main"].op = "remove"
    BY <1>1, <1>a DEF RemoveDirectory, Resumes, Busy, PauseInv, JobInv
  <2> HIDE DEF j
  <2> QED BY <1>a, <2>1, <2>2, PauserJob
<1>2. CASE Signal
  <2> DEFINE j == IF job["main"].op = "rebuild" THEN Idle ELSE [job["main"] EXCEPT !.at = "merge"]
  <2>1. /\ UNCHANGED paused /\ job' = [job EXCEPT !["main"] = j] /\ ~Resumes("main")
        /\ ~job["main"].resume /\ job["main"].op # "toggle"
    BY <1>2, <1>a DEF Signal, Resumes, Busy, PauseInv, JobInv, TypeOK
  <2>2. ~j.resume /\ j.op # "toggle"
    BY <1>a, <2>1 DEF Job, Idle, NewJob
  <2> HIDE DEF j
  <2> QED BY <1>a, <2>1, <2>2, OtherJob
<1>3. CASE Toggle
  <2>1. CASE Busy("main", {"toggle"}, "resume") /\ paused' = 0
    <3>1. Resumes("main") /\ job' = [job EXCEPT !["main"] = Idle]
      BY <1>3, <2>1 DEF Toggle, Resumes
    <3> QED BY <1>a, <2>1, <3>1, ResumedJob
  <2>2. CASE Busy("main", {"toggle"}, "pause") /\ paused' = paused + 1
    <3>1. /\ job'["main"] = Idle /\ \A s \in Threads \ {"main"} : job'[s] = job[s]
          /\ Idle.op = "none" /\ Idle.at = "start" /\ Idle.resume = FALSE
      BY <1>3, <1>a DEF Toggle, TypeOK, Idle, NewJob
    <3>2. /\ ~Resumes("main")' /\ \A s \in Threads \ {"main"} : Resumes(s)' <=> Resumes(s)
          /\ ~Resumes("main") /\ "toggle" \in Env /\ paused \in Nat
      BY <1>a, <2>2, <3>1 DEF Resumes, Busy, PauseInv, JobInv, TypeOK
    <3>3. JobInv'
      BY <1>a, <3>1 DEF PauseInv, JobInv
    <3> QED BY <2>2, <3>2, <3>3 DEF PauseInv, PauseIsBalanced
  <2> QED BY <1>3, <2>1, <2>2 DEF Toggle
<1>4. CASE Refresh
  <2>1. UNCHANGED paused /\ job' = [job EXCEPT !["run"] = NewJob("refresh", "start", {})]
    BY <1>4 DEF Refresh, hashVars
  <2>2. ~Resumes("run")
    <3>1. job["run"].op # "refresh" /\ job["run"].op # "toggle"
      BY <1>4, <1>a DEF Refresh, PauseInv, JobInv
    <3> QED BY <1>a, <3>1 DEF Resumes, Busy, PauseInv, JobInv
  <2>3. ~NewJob("refresh", "start", {}).resume /\ NewJob("refresh", "start", {}).op = "refresh"
    BY DEF NewJob
  <2> QED BY <1>a, <2>1, <2>2, <2>3, OtherJob
<1>5. CASE ScheduleRebuild
  <2>1. /\ UNCHANGED paused /\ ~Resumes("main")
        /\ job' = [job EXCEPT !["main"] = NewJob("rebuild", "ask", {})]
    BY <1>5, <1>b DEF ScheduleRebuild
  <2>2. ~NewJob("rebuild", "ask", {}).resume /\ NewJob("rebuild", "ask", {}).op # "toggle"
    BY DEF NewJob
  <2> QED BY <1>a, <2>1, <2>2, OtherJob
<1>6. CASE Shutdown
  <2>1. /\ UNCHANGED paused /\ ~Resumes("main")
        /\ job' = [job EXCEPT !["main"] = NewJob("shutdown", "ask", {})]
    BY <1>6, <1>b DEF Shutdown
  <2>2. ~NewJob("shutdown", "ask", {}).resume /\ NewJob("shutdown", "ask", {}).op # "toggle"
    BY DEF NewJob
  <2> QED BY <1>a, <2>1, <2>2, OtherJob
<1>7. CASE AskPaused
  <2>1. /\ UNCHANGED paused /\ "toggle" \in Env /\ MainIsFree
        /\ \A t \in Threads : ~job[t].resume
        /\ job' = [job EXCEPT !["main"] =
                      NewJob("toggle", IF paused > 0 THEN "resume" ELSE "pause", {})]
    BY <1>7 DEF AskPaused, hashVars
  <2> DEFINE at == IF paused > 0 THEN "resume" ELSE "pause"
             j == NewJob("toggle", at, {})
  <2>2. /\ j.op = "toggle" /\ j.at = at /\ j.resume = FALSE
        /\ at = "resume" => paused > 0
    BY DEF NewJob
  <2>3. /\ job'["main"] = j /\ \A s \in Threads \ {"main"} : job'[s] = job[s]
    BY <1>a, <2>1 DEF TypeOK
  <2> HIDE DEF j, at
  <2>4. \A s \in Threads \ {"main"} : ~Resumes(s)'
    BY <2>1, <2>3 DEF Resumes, Busy, PauseInv, JobInv, Threads
  <2>5. Resumes("main")' => paused > 0
    BY <2>2, <2>3 DEF Resumes, Busy
  <2>6. JobInv'
    BY <1>a, <2>1, <2>2, <2>3 DEF PauseInv, JobInv
  <2> QED BY <1>a, <2>1, <2>4, <2>5, <2>6 DEF PauseInv, PauseIsBalanced
<1>8. CASE SignalPaused
  <2> DEFINE j == [job["main"] EXCEPT !.at = "signal"]
  <2>1. /\ UNCHANGED paused /\ job' = [job EXCEPT !["main"] = j] /\ ~Resumes("main")
        /\ ~job["main"].resume /\ job["main"].op # "toggle"
    BY <1>8, <1>a DEF SignalPaused, Resumes, Busy, PauseInv, JobInv, TypeOK
  <2>2. ~j.resume /\ j.op # "toggle"
    BY <1>a, <2>1 DEF Job
  <2> HIDE DEF j
  <2> QED BY <1>a, <2>1, <2>2, OtherJob
<1> QED BY <1>1, <1>2, <1>3, <1>4, <1>5, <1>6, <1>7, <1>8

LEMMA PauseFile ==
    ASSUME TypeInv, PauseInv, NEW f \in Files,
           AddDirectory(f) \/ StopHashing(f) \/ FileMoved(f) \/ Change(f)
    PROVE  PauseInv'
<1>a. TypeOK /\ "main" \in Threads
  BY DEF TypeInv, Threads
<1>b. ASSUME MainIsFree PROVE ~Resumes("main")
  BY <1>b DEF MainIsFree, Idle, NewJob, Resumes, Busy
<1>1. CASE AddDirectory(f)
  <2>1. /\ UNCHANGED paused /\ ~Resumes("main")
        /\ job' = [job EXCEPT !["main"] = NewJob("add", "pause", {f})]
    BY <1>1, <1>b DEF AddDirectory, hashVars
  <2>2. ~NewJob("add", "pause", {f}).resume /\ NewJob("add", "pause", {f}).op # "toggle"
    BY DEF NewJob
  <2> QED BY <1>a, <2>1, <2>2, OtherJob
<1>2. CASE StopHashing(f)
  <2>1. /\ UNCHANGED paused /\ ~Resumes("main")
        /\ job' = [job EXCEPT !["main"] = NewJob("remove", "merge", {f})]
    BY <1>2, <1>b DEF StopHashing
  <2>2. ~NewJob("remove", "merge", {f}).resume /\ NewJob("remove", "merge", {f}).op # "toggle"
    BY DEF NewJob
  <2> QED BY <1>a, <2>1, <2>2, OtherJob
<1>3. CASE FileMoved(f)
  <2>1. (paused' > 0 <=> paused > 0) /\ job' = job
    BY <1>3, <1>a, CountedPause DEF FileMoved
  <2> QED BY <2>1, SamePauses
<1>4. CASE Change(f)
  <2>1. paused' = paused /\ job' = job
    BY <1>4 DEF Change, hashVars
  <2> QED BY <2>1, SamePauses
<1> QED BY <1>1, <1>2, <1>3, <1>4

LEMMA PauseInit == Init => PauseInv
BY DEF Init, PauseInv, JobInv, PauseIsBalanced, Resumes, Busy, Idle, NewJob, Threads

LEMMA InvNext ==
    ASSUME "resume" \notin Env, TypeInv, PauseInv, [Next]_vars
    PROVE  TypeInv' /\ PauseInv'
<1>1. CASE UNCHANGED vars
  <2>1. PauseInv'
    BY <1>1, SamePauses DEF vars, hashVars
  <2> QED BY <1>1, <2>1, TypeStutter
<1>2. CASE Next
  <2>1. TypeInv'
    BY <1>2, TypeHasher, TypeThread, TypeUser, TypeFile DEF Next
  <2> QED BY <1>2, <2>1, PauseHasher, PauseThread, PauseUser, PauseFile DEF Next
<1> QED BY <1>1, <1>2

(* Unless the user resumes what a refresh has paused, who resumes hashing is   *)
(* the only one to, and finds it paused.                                      *)
THEOREM PauseIsAlwaysBalanced ==
    ASSUME "resume" \notin Env
    PROVE  Spec => []PauseIsBalanced
<1>1. TypeInv /\ PauseInv /\ [Next]_vars => (TypeInv /\ PauseInv)'
  BY InvNext
<1>2. PauseInv => PauseIsBalanced
  BY DEF PauseInv
<1> QED BY TypeInit, PauseInit, <1>1, <1>2, PTL DEF Spec

------------------------------------------------------------------------------
(* Signals.  Each file of the queue, each flag and the wait in a file is worth *)
(* a signal, which is given, owed by a pause, or about to be given.           *)
One(b)  == IF b THEN 1 ELSE 0
Owed    == IF paused = 0 THEN 0 ELSE paused - 1
Supply  == signals + Owed + One(job["main"].at \in {"ask", "signal"})
Work    == Cardinality(queue) + One(hasher.pc = "paused")
              + One(rebuild /\ hasher.pc # "rebuilt") + One(stop /\ hasher.pc # "ended")
SignalInv == Work <= Supply + One(hasher.pc = "woken")

LEMMA OneType == \A b \in BOOLEAN : One(b) \in 0 .. 1 /\ (One(b) = 1 <=> b)
BY DEF One

LEMMA SizeType ==
    ASSUME NEW S, S \subseteq Files
    PROVE  IsFiniteSet(S) /\ Cardinality(S) \in Nat
BY FS_Subset, FS_CardinalityType, HashAssumption

LEMMA OwedType ==
    ASSUME paused \in Nat
    PROVE  Owed \in Nat
BY DEF Owed

LEMMA OwedLater ==
    ASSUME paused' \in Nat
    PROVE  Owed' \in Nat
<1>1. \A n \in Nat : (IF n = 0 THEN 0 ELSE n - 1) \in Nat
  OBVIOUS
<1>2. Owed' = IF paused' = 0 THEN 0 ELSE paused' - 1
  BY DEF Owed
<1> QED BY <1>1, <1>2, Zenon

LEMMA QueueSize ==
    ASSUME TypeOK
    PROVE  /\ IsFiniteSet(queue) /\ Cardinality(queue) \in Nat
           /\ queue # {} => Cardinality(queue) > 0
           /\ Owed \in Nat
           /\ \A f \in Files :
                 /\ Cardinality(queue \cup {f})
                       = Cardinality(queue) + (IF f \in queue THEN 0 ELSE 1)
                 /\ Cardinality(queue \ {f})
                       = Cardinality(queue) - (IF f \in queue THEN 1 ELSE 0)
<1>1. IsFiniteSet(queue) /\ Cardinality(queue) \in Nat
  BY SizeType DEF TypeOK
<1>2. queue # {} => Cardinality(queue) > 0
  BY <1>1, FS_EmptySet
<1>3. ASSUME NEW f \in Files
      PROVE  /\ Cardinality(queue \cup {f})
                   = Cardinality(queue) + (IF f \in queue THEN 0 ELSE 1)
             /\ Cardinality(queue \ {f})
                   = Cardinality(queue) - (IF f \in queue THEN 1 ELSE 0)
  <2>1. /\ Cardinality(queue \cup {f})
              = IF f \in queue THEN Cardinality(queue) ELSE Cardinality(queue) + 1
        /\ Cardinality(queue \ {f})
              = IF f \in queue THEN Cardinality(queue) - 1 ELSE Cardinality(queue)
    BY <1>1, FS_AddElement, FS_RemoveElement
  <2> QED BY <1>1, <2>1
<1> QED BY <1>1, <1>2, <1>3, OwedType DEF TypeOK

(* hashFile gives, or owes, a signal for each file it queues.                 *)
LEMMA SignalPerFile ==
    ASSUME TypeOK, NEW f \in Files, HashFile(f) \/ Rehash(f) \/ GetTTH(f)
    PROVE  Cardinality(queue') + (signals + Owed) <= Cardinality(queue) + (signals' + Owed')
<1>1. ASSUME HashFile(f)
      PROVE  Cardinality(queue') + (signals + Owed) <= Cardinality(queue) + (signals' + Owed')
  <2>1. CASE f \in queue
    <3>1. queue' = queue /\ signals' = signals /\ Owed' = Owed
      BY <1>1, <2>1 DEF HashFile, Owed
    <3> QED BY <3>1, QueueSize DEF TypeOK
  <2>2. CASE f \notin queue
    <3>1. Cardinality(queue') = Cardinality(queue) + 1 /\ Cardinality(queue) \in Nat
      BY <1>1, <2>2, QueueSize DEF HashFile
    <3>2. signals' + Owed' = (signals + Owed) + 1 /\ signals + Owed \in Nat
      BY <1>1, <2>2 DEF HashFile, Owed, TypeOK
    <3> QED BY <3>1, <3>2
  <2> QED BY <2>1, <2>2
<1>2. ASSUME Rehash(f) PROVE HashFile(f)
  BY <1>2 DEF Rehash
<1>3. ASSUME UNCHANGED <<queue, signals, paused>>
      PROVE  Cardinality(queue') + (signals + Owed) <= Cardinality(queue) + (signals' + Owed')
  BY <1>3, QueueSize DEF Owed, TypeOK
<1> QED BY <1>1, <1>2, <1>3 DEF GetTTH

(* A step that takes no more from the supply than it takes from the work.     *)
LEMMA Balance ==
    ASSUME TypeOK, TypeOK', SignalInv,
           Work' + Supply + One(hasher.pc = "woken")
               <= Work + Supply' + One(hasher'.pc = "woken")
    PROVE  SignalInv'
<1>1. /\ Work \in Nat /\ Supply \in Nat /\ Work' \in Nat /\ Supply' \in Nat
      /\ One(hasher.pc = "woken") \in Nat /\ One(hasher'.pc = "woken") \in Nat
  <2>1. /\ Cardinality(queue) \in Nat /\ Owed \in Nat
        /\ Cardinality(queue') \in Nat /\ Owed' \in Nat
    <3>1. queue \subseteq Files /\ queue' \subseteq Files /\ paused \in Nat /\ paused' \in Nat
      BY DEF TypeOK
    <3>2. Cardinality(queue) \in Nat /\ Cardinality(queue') \in Nat
      BY <3>1, SizeType
    <3>3. Owed \in Nat
      BY <3>1, OwedType
    <3>4. Owed' \in Nat
      BY <3>1, OwedLater
    <3> QED BY <3>2, <3>3, <3>4
  <2>2. /\ One(hasher.pc = "paused") \in Nat /\ One(hasher'.pc = "paused") \in Nat
        /\ One(rebuild /\ hasher.pc # "rebuilt") \in Nat
        /\ One(rebuild' /\ hasher'.pc # "rebuilt") \in Nat
        /\ One(stop /\ hasher.pc # "ended") \in Nat /\ One(stop' /\ hasher'.pc # "ended") \in Nat
        /\ One(job["main"].at \in {"ask", "signal"}) \in Nat /\ One(job'["main"].at \in {"ask", "signal"}) \in Nat
        /\ One(hasher.pc = "woken") \in Nat /\ One(hasher'.pc = "woken") \in Nat
    BY DEF One
  <2>3. Work \in Nat /\ Work' \in Nat
    BY <2>1, <2>2 DEF Work
  <2>4. Supply \in Nat /\ Supply' \in Nat
    BY <2>1, <2>2 DEF Supply, TypeOK
  <2> QED BY <2>2, <2>3, <2>4
<1> QED BY <1>1 DEF SignalInv

(* A step of a thread that leaves the hasher and the flags alone.              *)
LEMMA SameWork ==
    ASSUME TypeOK, TypeOK', SignalInv, UNCHANGED <<hasher, rebuild, stop>>,
           (job["main"].at \in {"ask", "signal"}) <=> (job'["main"].at \in {"ask", "signal"}),
           Cardinality(queue') + (signals + Owed) <= Cardinality(queue) + (signals' + Owed')
    PROVE  SignalInv'
<1>1. /\ Cardinality(queue) \in Nat /\ signals + Owed \in Nat
      /\ Cardinality(queue') \in Nat /\ signals' + Owed' \in Nat
  <2>1. queue \subseteq Files /\ queue' \subseteq Files /\ paused \in Nat /\ paused' \in Nat
        /\ signals \in Nat /\ signals' \in Nat
    BY DEF TypeOK
  <2>2. Cardinality(queue) \in Nat /\ Cardinality(queue') \in Nat
    BY <2>1, SizeType
  <2>3. Owed \in Nat
    BY <2>1, OwedType
  <2>4. Owed' \in Nat
    BY <2>1, OwedLater
  <2>5. \A m, n \in Nat : m + n \in Nat
    OBVIOUS
  <2> QED BY <2>1, <2>2, <2>3, <2>4, <2>5, Zenon
<1>2. One(job["main"].at \in {"ask", "signal"}) = One(job'["main"].at \in {"ask", "signal"})
  BY DEF One
<1> DEFINE a == One(hasher.pc = "paused")
           b == One(rebuild /\ hasher.pc # "rebuilt")
           d == One(stop /\ hasher.pc # "ended")
           e == One(job["main"].at \in {"ask", "signal"})
           w == One(hasher.pc = "woken")
<1>3. a \in Nat /\ b \in Nat /\ d \in Nat /\ e \in Nat /\ w \in Nat
  BY DEF One
<1>4. /\ Work = Cardinality(queue) + a + b + d /\ Work' = Cardinality(queue') + a + b + d
      /\ Supply = signals + Owed + e /\ Supply' = signals' + Owed' + e
      /\ One(hasher'.pc = "woken") = w
  BY <1>2 DEF Work, Supply
<1> HIDE DEF a, b, d, e, w
<1>5. Work' + Supply + w <= Work + Supply' + w
  BY <1>1, <1>3, <1>4
<1> QED BY <1>4, <1>5, Balance DEF w

LEMMA SignalThread ==
    ASSUME TypeInv, TypeInv', PauseInv, SignalInv, NEW t \in Threads, ThreadNext(t)
    PROVE  SignalInv'
<1>a. /\ TypeOK /\ TypeOK' /\ job[t] \in Job /\ signals \in Nat /\ paused \in Nat
      /\ Cardinality(queue) \in Nat /\ "main" \in Threads
  BY JobFields, QueueSize DEF TypeInv, TypeOK, Threads
<1>b. UNCHANGED <<hasher, rebuild, stop>>
  BY DEF ThreadNext, GetDirectories, Pause, Merge, Unpause, Scan, hashVars
<1>c. (job["main"].at \in {"ask", "signal"}) <=> (job'["main"].at \in {"ask", "signal"})
  <2>1. /\ \A s \in Threads \ {t} : job'[s] = job[s]
        /\ job[t].at \notin {"ask", "signal"} /\ job'[t].at \notin {"ask", "signal"}
    <3>1. CASE GetDirectories(t)
      BY <3>1, <1>a DEF GetDirectories, Busy, Idle, NewJob, TypeOK
    <3>2. CASE Pause(t)
      <4> DEFINE j == [job[t] EXCEPT !.at = "scan"]
      <4>1. job' = [job EXCEPT ![t] = [j EXCEPT !.resume = (paused = 0)]] /\ job[t].at = "pause"
        BY <3>2, Zenon DEF Pause, Paused, Busy
      <4>2. [j EXCEPT !.resume = (paused = 0)].at = "scan"
        BY <1>a DEF Job
      <4> HIDE DEF j
      <4> QED BY <1>a, <4>1, <4>2 DEF TypeOK
    <3>3. CASE Merge(t)
      BY <3>3, <1>a DEF Merge, Busy, Job, TypeOK
    <3>4. CASE Unpause(t)
      <4>1. job' = [job EXCEPT ![t] = Idle] /\ job[t].at = "resume"
        BY <3>4 DEF Unpause, Busy
      <4> QED BY <1>a, <4>1 DEF TypeOK, Idle, NewJob
    <3>5. ASSUME NEW f \in Files, Scan(t, f)
          PROVE  /\ \A s \in Threads \ {t} : job'[s] = job[s]
                 /\ job[t].at \notin {"ask", "signal"} /\ job'[t].at \notin {"ask", "signal"}
      <4> DEFINE k == IF disk[f] = 0 THEN "nofile" ELSE IF Known(f) THEN "hashed" ELSE "unhashed"
      <4>1. /\ job' = [job EXCEPT ![t].todo = @ \ {f}, ![t].new = [@ EXCEPT ![f] = k]]
            /\ job[t].at = "scan"
        BY <3>5 DEF Scan, Busy
      <4> HIDE DEF k
      <4> QED BY <4>1, <1>a DEF TypeOK, Job
    <3> QED BY <3>1, <3>2, <3>3, <3>4, <3>5 DEF ThreadNext
  <2> QED BY <1>a, <2>1
<1>1. CASE GetDirectories(t) \/ Merge(t)
  <2>1. UNCHANGED <<queue, signals, paused>>
    BY <1>1 DEF GetDirectories, Merge, hashVars
  <2>2. Cardinality(queue') + (signals + Owed) <= Cardinality(queue) + (signals' + Owed')
    BY <1>a, <2>1, QueueSize DEF Owed
  <2> QED BY <1>a, <1>b, <1>c, <2>2, SameWork
<1>2. CASE Pause(t)
  <2>1. UNCHANGED <<queue, signals>> /\ paused' = paused + 1
    BY <1>2, Zenon DEF Pause, Paused
  <2>2. Cardinality(queue') + (signals + Owed) <= Cardinality(queue) + (signals' + Owed')
    BY <1>a, <2>1 DEF Owed
  <2> QED BY <1>a, <1>b, <1>c, <2>2, SameWork
<1>3. CASE Unpause(t)
  <2>1. CASE job[t].resume
    <3>1. paused > 0
      BY <2>1 DEF PauseInv, PauseIsBalanced, Resumes
    <3>2. UNCHANGED queue /\ signals' = signals + paused - 1 /\ paused' = 0
      BY <1>3, <2>1, <3>1, <1>a DEF Unpause, Resume
    <3>3. Cardinality(queue') + (signals + Owed) <= Cardinality(queue) + (signals' + Owed')
      BY <1>a, <3>1, <3>2 DEF Owed
    <3> QED BY <1>a, <1>b, <1>c, <3>3, SameWork
  <2>2. CASE ~job[t].resume
    <3>1. UNCHANGED <<queue, signals, paused>>
      BY <1>3, <2>2 DEF Unpause
    <3>2. Cardinality(queue') + (signals + Owed) <= Cardinality(queue) + (signals' + Owed')
      BY <1>a, <3>1, QueueSize DEF Owed
    <3> QED BY <1>a, <1>b, <1>c, <3>2, SameWork
  <2> QED BY <2>1, <2>2
<1>4. ASSUME NEW f \in Files, Scan(t, f) PROVE SignalInv'
  <2>1. CASE GetTTH(f)
    BY <1>a, <1>b, <1>c, <2>1, SignalPerFile, SameWork
  <2>2. CASE UNCHANGED <<queue, paused, signals>>
    <3>1. Cardinality(queue') + (signals + Owed) <= Cardinality(queue) + (signals' + Owed')
      BY <1>a, <2>2, QueueSize DEF Owed
    <3> QED BY <1>a, <1>b, <1>c, <3>1, SameWork
  <2> QED BY <1>4, <2>1, <2>2 DEF Scan
<1> QED BY <1>1, <1>2, <1>3, <1>4 DEF ThreadNext

(* The hasher takes a signal for what it then sees to.                        *)
LEMMA SignalHasher ==
    ASSUME TypeInv, TypeInv', SignalInv, HasherNext
    PROVE  SignalInv'
<1>a. /\ TypeOK /\ TypeOK' /\ signals \in Nat /\ paused \in Nat /\ Cardinality(queue) \in Nat
      /\ Owed \in Nat /\ hasher \in Hasher /\ rebuild \in BOOLEAN /\ stop \in BOOLEAN
  BY QueueSize DEF TypeInv, TypeOK
<1>b. job' = job /\ One(job["main"].at \in {"ask", "signal"}) \in Nat
  BY DEF HasherNext, Wake, End, DoRebuild, Rebuilt, Take, ErrorHashing, ReadChunk, GoOn, HashDone, TTHDone, One
<1>t. CASE Take /\ queue = {}
  <2>1. queue' = {} /\ rebuild' = FALSE /\ stop' = FALSE /\ hasher'.pc = "wait"
    BY <1>t, <1>a DEF Take, Resting
  <2>2. Work' = 0
    BY <2>1, FS_EmptySet DEF Work, One
  <2>3. Supply' \in Nat /\ One(hasher'.pc = "woken") = 0
    <3>1. Owed' \in Nat /\ signals' \in Nat
      BY <1>a, OwedLater DEF TypeOK
    <3>2. Supply' = signals' + Owed' + One(job["main"].at \in {"ask", "signal"})
      BY <1>b DEF Supply
    <3>3. \A l, m, n \in Nat : l + m + n \in Nat
      OBVIOUS
    <3>4. Supply' \in Nat
      BY <1>b, <3>1, <3>2, <3>3, Zenon
    <3> QED BY <2>1, <3>4 DEF One
  <2> QED BY <2>2, <2>3 DEF SignalInv
<1> SUFFICES ASSUME ~(Take /\ queue = {})
             PROVE  Work' + Supply + One(hasher.pc = "woken")
                        <= Work + Supply' + One(hasher'.pc = "woken")
  BY <1>a, <1>t, Balance
<1> DEFINE q == Cardinality(queue)
           g == signals + Owed
           e == One(job["main"].at \in {"ask", "signal"})
<1>c. g \in Nat /\ q \in Nat /\ e \in Nat
  BY <1>a, <1>b
<1>d. UNCHANGED paused => Owed' = Owed
  BY DEF Owed
<1>1. CASE Wake
  <2>1. /\ queue' = queue /\ rebuild' = rebuild /\ stop' = stop /\ signals' = signals - 1
        /\ hasher.pc = "wait" /\ hasher'.pc = "woken" /\ Owed' = Owed
    BY <1>1, <1>a, <1>d DEF Wake, Hasher
  <2> QED BY <2>1, <1>a, <1>b DEF Work, Supply, One
<1>2. CASE End
  <2>1. /\ queue' = queue /\ rebuild' = rebuild /\ stop' = stop /\ signals' = signals
        /\ hasher.pc = "woken" /\ hasher'.pc = "ended" /\ Owed' = Owed /\ stop
    BY <1>2, <1>a, <1>d DEF End, Hasher, hashVars
  <2> QED BY <2>1, <1>a, <1>b DEF Work, Supply, One
<1>3. CASE DoRebuild
  <2>1. /\ queue' = queue /\ rebuild' = rebuild /\ stop' = stop /\ signals' = signals
        /\ hasher.pc = "woken" /\ hasher'.pc = "rebuilt" /\ Owed' = Owed /\ rebuild
    BY <1>3, <1>a, <1>d DEF DoRebuild, Hasher, hashVars
  <2> QED BY <2>1, <1>a, <1>b DEF Work, Supply, One
<1>4. CASE Rebuilt
  <2>1. /\ queue' = queue /\ rebuild' = FALSE /\ stop' = stop /\ signals' = signals
        /\ hasher.pc = "rebuilt" /\ hasher'.pc = "wait" /\ Owed' = Owed
    BY <1>4, <1>a, <1>d DEF Rebuilt, Hasher
  <2> QED BY <2>1, <1>a, <1>b DEF Work, Supply, One
<1>5. CASE Take
  <2>1. /\ rebuild' = rebuild /\ stop' = stop /\ signals' = signals /\ ~stop /\ ~rebuild
        /\ hasher.pc = "woken" /\ Owed' = Owed
    BY <1>5, <1>d DEF Take
  <2>2. hasher'.pc \in {"wait", "done", "chunk"}
    BY <1>5 DEF Take, Resting
  <2>3. Cardinality(queue') = Cardinality(queue) - 1
    <3>1. PICK f \in queue : queue' = queue \ {f}
      BY <1>5 DEF Take
    <3>2. f \in Files
      BY <1>a DEF TypeOK
    <3> QED BY <3>1, <3>2, <1>a, QueueSize
  <2> QED BY <2>1, <2>2, <2>3, <1>a, <1>b DEF Work, Supply, One
<1>e. CASE ErrorHashing
  <2>1. /\ queue' = queue /\ rebuild' = rebuild /\ stop' = stop /\ signals' = signals
        /\ hasher.pc = "chunk" /\ hasher'.pc = "wait" /\ Owed' = Owed
    BY <1>e, <1>d DEF ErrorHashing, Resting, hashVars
  <2> QED BY <2>1, <1>a, <1>b DEF Work, Supply, One
<1>6. CASE ReadChunk
  <2>1. /\ queue' = queue /\ rebuild' = rebuild /\ stop' = stop /\ signals' = signals
        /\ hasher.pc = "chunk"
        /\ \/ paused > 0 /\ paused' = paused + 1 /\ hasher' = [Read EXCEPT !.pc = "paused"]
           \/ paused' = paused /\ hasher' \in After(Read)
    BY <1>6 DEF ReadChunk
  <2>2. CASE paused > 0 /\ paused' = paused + 1 /\ hasher' = [Read EXCEPT !.pc = "paused"]
    <3>1. hasher'.pc = "paused" /\ Owed' = Owed + 1
      BY <2>2, <1>a DEF Read, Hasher, Owed
    <3> QED BY <2>1, <3>1, <1>a, <1>b DEF Work, Supply, One
  <2>3. CASE paused' = paused /\ hasher' \in After(Read)
    <3>1. hasher'.pc \in {"chunk", "done"} /\ Owed' = Owed
      BY <2>1, <2>3, <1>d, ReadType, AfterType
    <3> QED BY <2>1, <3>1, <1>a, <1>b DEF Work, Supply, One
  <2> QED BY <2>1, <2>2, <2>3
<1>7. CASE GoOn
  <2>1. /\ queue' = queue /\ rebuild' = rebuild /\ stop' = stop /\ signals' = signals - 1
        /\ hasher.pc = "paused" /\ Owed' = Owed
    BY <1>7, <1>d DEF GoOn
  <2>2. hasher'.pc \in {"chunk", "done"}
    BY <1>7, <1>a, AfterType DEF GoOn
  <2> QED BY <2>1, <2>2, <1>a, <1>b DEF Work, Supply, One
<1>8. CASE HashDone
  <2>1. /\ queue' = queue /\ rebuild' = rebuild /\ stop' = stop /\ signals' = signals
        /\ hasher.pc = "done" /\ hasher'.pc = "fire" /\ Owed' = Owed
    BY <1>8, <1>a, <1>d DEF HashDone, Hasher, hashVars
  <2> QED BY <2>1, <1>a, <1>b DEF Work, Supply, One
<1>9. CASE TTHDone
  <2>1. /\ queue' = queue /\ rebuild' = rebuild /\ stop' = stop /\ signals' = signals
        /\ hasher.pc = "fire" /\ hasher'.pc = "wait" /\ Owed' = Owed
    BY <1>9, <1>d DEF TTHDone, Resting, hashVars
  <2> QED BY <2>1, <1>a, <1>b DEF Work, Supply, One
<1> QED BY <1>1, <1>2, <1>3, <1>4, <1>5, <1>e, <1>6, <1>7, <1>8, <1>9 DEF HasherNext

(* A flag is set together with the promise of its signals.                    *)
LEMMA SignalUser ==
    ASSUME TypeInv, TypeInv', PauseInv, SignalInv,
           \/ RemoveDirectory \/ SignalPaused \/ Signal \/ Toggle
           \/ Refresh \/ ScheduleRebuild \/ Shutdown \/ AskPaused
    PROVE  SignalInv'
<1>a. /\ TypeOK /\ TypeOK' /\ "main" \in Threads /\ "run" \in Threads /\ job["main"] \in Job
      /\ signals \in Nat /\ paused \in Nat /\ Cardinality(queue) \in Nat /\ Owed \in Nat
      /\ job \in [Threads -> Job]
  BY JobFields, QueueSize DEF TypeInv, TypeOK, Threads
<1>b. ASSUME MainIsFree PROVE job["main"].at = "start"
  BY <1>b DEF MainIsFree, Idle, NewJob
<1>c. ASSUME UNCHANGED <<queue, signals, paused>>
      PROVE  Cardinality(queue') + (signals + Owed) <= Cardinality(queue) + (signals' + Owed')
  BY <1>c, <1>a DEF Owed
<1>d. UNCHANGED paused => Owed' = Owed
  BY DEF Owed
<1>1. CASE RemoveDirectory
  <2> DEFINE j == [job["main"] EXCEPT !.at = "resume"]
  <2>1. /\ paused' = paused + 1 /\ job["main"].at = "merge" /\ UNCHANGED <<queue, signals>>
        /\ job' = [job EXCEPT !["main"] = [j EXCEPT !.resume = (paused = 0)]]
        /\ UNCHANGED <<hasher, rebuild, stop>>
    BY <1>1, Zenon DEF RemoveDirectory, Paused, Busy
  <2>2. [j EXCEPT !.resume = (paused = 0)].at = "resume"
    BY <1>a DEF Job
  <2> HIDE DEF j
  <2>3. job'["main"].at = "resume"
    BY <1>a, <2>1, <2>2
  <2>4. Cardinality(queue') + (signals + Owed) <= Cardinality(queue) + (signals' + Owed')
    BY <1>a, <2>1 DEF Owed
  <2> QED BY <1>a, <2>1, <2>3, <2>4, SameWork
<1>2. CASE Signal
  <2>1. /\ UNCHANGED <<queue, paused, stop, rebuild, hasher>> /\ job["main"].at \in {"ask", "signal"}
        /\ signals' = signals + 1
    BY <1>2 DEF Signal, Busy
  <2>2. job'["main"].at \notin {"ask", "signal"}
    BY <1>2, <1>a DEF Signal, Job, Idle, NewJob
  <2>3. /\ Work' = Work /\ One(hasher'.pc = "woken") = One(hasher.pc = "woken")
    BY <2>1 DEF Work
  <2>4. Supply <= Supply' /\ Supply \in Nat /\ Supply' \in Nat
    BY <1>a, <1>d, <2>1, <2>2 DEF Supply, One
  <2>5. Work \in Nat /\ One(hasher.pc = "woken") \in Nat
    BY <1>a DEF Work, One
  <2>6. Work' + Supply + One(hasher.pc = "woken") <= Work + Supply' + One(hasher'.pc = "woken")
    BY <2>3, <2>4, <2>5
  <2> QED BY <1>a, <2>6, Balance
<1>3. CASE Toggle
  <2>1. /\ UNCHANGED <<queue, hasher, rebuild, stop>> /\ job["main"].at \notin {"ask", "signal"}
        /\ job' = [job EXCEPT !["main"] = Idle]
    BY <1>3 DEF Toggle, Busy
  <2>2. job'["main"].at \notin {"ask", "signal"}
    BY <1>a, <2>1 DEF Idle, NewJob
  <2>3. Cardinality(queue') + (signals + Owed) <= Cardinality(queue) + (signals' + Owed')
    <3>1. CASE Busy("main", {"toggle"}, "resume") /\ signals' = Resume /\ paused' = 0
      <4>1. paused > 0
        BY <1>a, <3>1 DEF PauseInv, PauseIsBalanced, Resumes
      <4> QED BY <1>a, <2>1, <3>1, <4>1 DEF Resume, Owed
    <3>2. CASE paused' = paused + 1 /\ UNCHANGED signals
      BY <1>a, <2>1, <3>2 DEF Owed
    <3> QED BY <1>3, <3>1, <3>2 DEF Toggle
  <2> QED BY <1>a, <2>1, <2>2, <2>3, SameWork
<1>4. CASE Refresh
  <2>1. /\ UNCHANGED <<queue, signals, paused>> /\ UNCHANGED <<hasher, rebuild, stop>>
        /\ job'["main"] = job["main"]
    BY <1>4, <1>a DEF Refresh, hashVars
  <2> QED BY <1>a, <1>c, <2>1, SameWork
<1>5. CASE ScheduleRebuild
  <2>1. /\ UNCHANGED <<queue, signals, paused, stop, hasher>> /\ rebuild' = TRUE
        /\ job["main"].at = "start" /\ job' = [job EXCEPT !["main"] = NewJob("rebuild", "ask", {})]
    BY <1>5, <1>b DEF ScheduleRebuild
  <2>2. job'["main"].at \in {"ask", "signal"}
    BY <1>a, <2>1 DEF NewJob
  <2>3. Supply' = Supply + 1 /\ Supply \in Nat
    BY <1>a, <1>d, <2>1, <2>2 DEF Supply, One
  <2>4. Work' <= Work + 1 /\ Work \in Nat /\ Work' \in Nat
    BY <1>a, <2>1 DEF Work, One
  <2>5. One(hasher'.pc = "woken") = One(hasher.pc = "woken") /\ One(hasher.pc = "woken") \in Nat
    BY <2>1 DEF One
  <2>6. Work' + Supply + One(hasher.pc = "woken") <= Work + Supply' + One(hasher'.pc = "woken")
    BY <2>3, <2>4, <2>5
  <2> QED BY <1>a, <2>6, Balance
<1>6. CASE Shutdown
  <2>1. /\ UNCHANGED <<queue, signals, paused, rebuild, hasher>> /\ stop' = TRUE
        /\ job["main"].at = "start" /\ job' = [job EXCEPT !["main"] = NewJob("shutdown", "ask", {})]
    BY <1>6, <1>b DEF Shutdown
  <2>2. job'["main"].at \in {"ask", "signal"}
    BY <1>a, <2>1 DEF NewJob
  <2>3. Supply' = Supply + 1 /\ Supply \in Nat
    BY <1>a, <1>d, <2>1, <2>2 DEF Supply, One
  <2>4. Work' <= Work + 1 /\ Work \in Nat /\ Work' \in Nat
    BY <1>a, <2>1 DEF Work, One
  <2>5. One(hasher'.pc = "woken") = One(hasher.pc = "woken") /\ One(hasher.pc = "woken") \in Nat
    BY <2>1 DEF One
  <2>6. Work' + Supply + One(hasher.pc = "woken") <= Work + Supply' + One(hasher'.pc = "woken")
    BY <2>3, <2>4, <2>5
  <2> QED BY <1>a, <2>6, Balance
<1>7. CASE AskPaused
  <2>1. /\ UNCHANGED <<queue, signals, paused>> /\ UNCHANGED <<hasher, rebuild, stop>>
        /\ job["main"].at = "start"
    BY <1>7, <1>b DEF AskPaused, hashVars
  <2>2. job'["main"].at \notin {"ask", "signal"}
    BY <1>7, <1>a DEF AskPaused, NewJob
  <2> QED BY <1>a, <1>c, <2>1, <2>2, SameWork
<1>8. CASE SignalPaused
  <2>1. /\ UNCHANGED <<queue, paused, stop, rebuild, hasher>> /\ job["main"].at = "ask"
        /\ signals' = (IF paused > 0 THEN signals + 1 ELSE signals)
        /\ job' = [job EXCEPT !["main"].at = "signal"]
    BY <1>8 DEF SignalPaused, Busy
  <2>2. job'["main"].at = "signal"
    BY <1>a, <2>1 DEF Job
  <2>3. Cardinality(queue') + (signals + Owed) <= Cardinality(queue) + (signals' + Owed')
    BY <1>a, <1>d, <2>1
  <2> QED BY <1>a, <2>1, <2>2, <2>3, SameWork
<1> QED BY <1>1, <1>2, <1>3, <1>4, <1>5, <1>6, <1>7, <1>8

LEMMA SignalFile ==
    ASSUME TypeInv, TypeInv', SignalInv, NEW f \in Files,
           AddDirectory(f) \/ StopHashing(f) \/ FileMoved(f) \/ Change(f)
    PROVE  SignalInv'
<1>a. /\ TypeOK /\ TypeOK' /\ "main" \in Threads /\ job \in [Threads -> Job]
      /\ signals \in Nat /\ Cardinality(queue) \in Nat /\ Owed \in Nat
  BY QueueSize DEF TypeInv, TypeOK, Threads
<1>b. ASSUME MainIsFree PROVE job["main"].at = "start"
  BY <1>b DEF MainIsFree, Idle, NewJob
<1>c. ASSUME UNCHANGED <<queue, signals, paused>>
      PROVE  Cardinality(queue') + (signals + Owed) <= Cardinality(queue) + (signals' + Owed')
  BY <1>c, <1>a DEF Owed
<1>1. CASE AddDirectory(f)
  <2>1. /\ UNCHANGED <<queue, signals, paused>> /\ UNCHANGED <<hasher, rebuild, stop>>
        /\ job["main"].at = "start"
    BY <1>1, <1>b DEF AddDirectory, hashVars
  <2>2. job'["main"].at \notin {"ask", "signal"}
    BY <1>1, <1>a DEF AddDirectory, NewJob
  <2> QED BY <1>a, <1>c, <2>1, <2>2, SameWork
<1>2. CASE StopHashing(f)
  <2>1. /\ UNCHANGED <<signals, paused>> /\ UNCHANGED <<hasher, rebuild, stop>>
        /\ queue' = queue \ {f} /\ job["main"].at = "start"
    BY <1>2, <1>b DEF StopHashing
  <2>2. job'["main"].at \notin {"ask", "signal"}
    BY <1>2, <1>a DEF StopHashing, NewJob
  <2>3. Cardinality(queue') <= Cardinality(queue)
    <3>1. Cardinality(queue') = Cardinality(queue) - (IF f \in queue THEN 1 ELSE 0)
      BY <1>a, <2>1, QueueSize
    <3> QED BY <1>a, <3>1
  <2>4. Cardinality(queue') \in Nat
    BY <1>a, SizeType DEF TypeOK
  <2>5. Cardinality(queue') + (signals + Owed) <= Cardinality(queue) + (signals' + Owed')
    BY <1>a, <2>1, <2>3, <2>4 DEF Owed
  <2> QED BY <1>a, <2>1, <2>2, <2>5, SameWork
<1>3. CASE FileMoved(f)
  <2>1. UNCHANGED <<hasher, rebuild, stop>> /\ job' = job
    BY <1>3 DEF FileMoved
  <2>2. Rehash(f) \/ UNCHANGED <<queue, signals, paused>>
    BY <1>3 DEF FileMoved
  <2>3. Cardinality(queue') + (signals + Owed) <= Cardinality(queue) + (signals' + Owed')
    BY <1>a, <1>c, <2>2, SignalPerFile
  <2> QED BY <1>a, <2>1, <2>3, SameWork
<1>4. CASE Change(f)
  <2>1. /\ UNCHANGED <<queue, signals, paused>> /\ UNCHANGED <<hasher, rebuild, stop>>
        /\ job' = job
    BY <1>4 DEF Change, hashVars
  <2> QED BY <1>a, <1>c, <2>1, SameWork
<1> QED BY <1>1, <1>2, <1>3, <1>4

LEMMA SignalInit == Init => SignalInv
<1> SUFFICES ASSUME Init PROVE SignalInv
  OBVIOUS
<1>1. Work = 0
  BY FS_EmptySet DEF Init, Work, One, Resting
<1>2. Supply = 0 /\ One(hasher.pc = "woken") = 0
  BY DEF Init, Supply, Owed, One, Resting, NewJob, Threads
<1> QED BY <1>1, <1>2 DEF SignalInv

LEMMA SignalNext ==
    ASSUME "resume" \notin Env, TypeInv, PauseInv, SignalInv, [Next]_vars
    PROVE  SignalInv'
<1>1. TypeInv'
  BY InvNext
<1>2. CASE UNCHANGED vars
  BY <1>2 DEF vars, hashVars, SignalInv, Work, Supply, Owed
<1>3. CASE Next
  BY <1>1, <1>3, SignalHasher, SignalThread, SignalUser, SignalFile DEF Next
<1> QED BY <1>2, <1>3

LEMMA SignalIsThere ==
    ASSUME TypeInv, SignalInv
    PROVE  NoSignalIsLost
<1> SUFFICES ASSUME \/ hasher.pc = "paused"
                    \/ hasher.pc = "wait" /\ (queue # {} \/ stop \/ rebuild)
             PROVE  signals > 0 \/ paused > 1 \/ job["main"].at \in {"ask", "signal"}
  BY DEF NoSignalIsLost
<1>1. /\ Cardinality(queue) \in Nat /\ (queue # {} => Cardinality(queue) > 0)
      /\ signals \in Nat /\ paused \in Nat
  BY QueueSize DEF TypeInv, TypeOK
<1>2. Work > 0 /\ One(hasher.pc = "woken") = 0
  BY <1>1 DEF Work, One
<1>3. Supply > 0
  <2>0. Owed \in Nat /\ One(job["main"].at \in {"ask", "signal"}) \in Nat
    BY <1>1, OwedType DEF One
  <2>1. Supply \in Nat
    <3>1. \A l, m, n \in Nat : l + m + n \in Nat
      OBVIOUS
    <3> QED BY <1>1, <2>0, <3>1, Zenon DEF Supply
  <2>2. Work \in Nat
    BY <1>1 DEF Work, One
  <2> QED BY <1>2, <2>1, <2>2 DEF SignalInv
<1> QED BY <1>1, <1>3 DEF Supply, Owed, One

(* The hasher never sleeps over a file, a rebuild or the end, however many      *)
(* files there are and however their threads pause and resume.                *)
THEOREM NoSignalIsEverLost ==
    ASSUME "resume" \notin Env
    PROVE  Spec => []NoSignalIsLost
<1>1. TypeInv /\ PauseInv /\ SignalInv /\ [Next]_vars => (TypeInv /\ PauseInv /\ SignalInv)'
  BY InvNext, SignalNext
<1>2. TypeInv /\ SignalInv => NoSignalIsLost
  BY SignalIsThere
<1> QED BY TypeInit, PauseInit, SignalInit, <1>1, <1>2, PTL DEF Spec

------------------------------------------------------------------------------
(* Hashes.  What was read of a file is no older than the date that was noted  *)
(* before, and no newer than the file.                                       *)
EntriesInv ==
    \A f \in Files : \A v \in index[f].read :
        index[f].time <= v /\ v <= (IF disk[f] = 0 THEN 1 ELSE disk[f])
ReadInv == Reading => \A v \in hasher.read : hasher.time <= v /\ v <= disk[hasher.file]
CurrentInv == EntriesInv /\ ReadInv

LEMMA DiskGrows ==
    ASSUME TypeInv, CurrentInv, UNCHANGED hasher,
           \A f \in Files : disk'[f] >= disk[f] /\ disk'[f] \in Nat,
           \A f \in Files : index'[f] = index[f] \/ index'[f] = NoEntry
    PROVE  CurrentInv'
<1>a. /\ hasher \in Hasher /\ disk \in [Files -> 0 .. Versions] /\ index \in [Files -> Entry]
  BY DEF TypeInv, TypeOK
<1>1. ASSUME NEW f \in Files, NEW v \in index'[f].read
      PROVE  index'[f].time <= v /\ v <= (IF disk'[f] = 0 THEN 1 ELSE disk'[f])
  <2>1. index'[f] = index[f]
    BY <1>1 DEF NoEntry
  <2>2. index[f].time <= v /\ v <= (IF disk[f] = 0 THEN 1 ELSE disk[f])
    BY <1>1, <2>1 DEF CurrentInv, EntriesInv
  <2>3. disk[f] \in Nat /\ disk'[f] \in Nat /\ disk'[f] >= disk[f] /\ v \in Nat
    BY <1>1, <1>a, <2>1 DEF Entry
  <2> QED BY <2>1, <2>2, <2>3
<1>2. ASSUME Reading, NEW v \in hasher.read
      PROVE  hasher.time <= v /\ v <= disk'[hasher.file]
  <2>1. hasher.file \in Files
    BY <1>2 DEF TypeInv, HasherInv
  <2>2. hasher.time <= v /\ v <= disk[hasher.file]
    BY <1>2 DEF CurrentInv, ReadInv
  <2>3. disk[hasher.file] \in Nat /\ disk'[hasher.file] \in Nat /\ v \in Nat
        /\ disk'[hasher.file] >= disk[hasher.file]
    BY <1>a, <1>2, <2>1 DEF Hasher
  <2> QED BY <2>2, <2>3
<1> QED BY <1>1, <1>2 DEF CurrentInv, EntriesInv, ReadInv, Reading

LEMMA CurrentHasher ==
    ASSUME TypeInv, CurrentInv, HasherNext
    PROVE  CurrentInv'
<1>a. /\ hasher \in Hasher /\ disk \in [Files -> 0 .. Versions] /\ index \in [Files -> Entry]
      /\ disk' = disk
  BY DEF TypeInv, TypeOK, HasherNext, Wake, End, DoRebuild, Rebuilt, Take, ErrorHashing, ReadChunk, GoOn,
     HashDone, TTHDone
<1>b. UNCHANGED index => EntriesInv'
  BY <1>a DEF CurrentInv, EntriesInv
<1>1. CASE Wake \/ End \/ Rebuilt \/ ErrorHashing \/ TTHDone
  <2>1. ~Reading' /\ UNCHANGED index
    BY <1>1, <1>a DEF Wake, End, Rebuilt, ErrorHashing, TTHDone, Reading, Resting, Hasher, storeVars
  <2> QED BY <1>b, <2>1 DEF CurrentInv, ReadInv
<1>2. CASE DoRebuild
  <2>1. ~Reading'
    BY <1>2, <1>a DEF DoRebuild, Reading, Hasher
  <2>2. EntriesInv'
    BY <1>2, <1>a DEF DoRebuild, CurrentInv, EntriesInv, NoEntry
  <2> QED BY <2>1, <2>2 DEF CurrentInv, ReadInv
<1>3. CASE Take
  <2>1. hasher'.read = {} /\ UNCHANGED index
    BY <1>3 DEF Take, Resting
  <2> QED BY <1>b, <2>1 DEF CurrentInv, ReadInv
<1>4. CASE ReadChunk
  <2>1. /\ hasher'.read = hasher.read \cup ({disk[hasher.file]} \ {0})
        /\ hasher'.time = hasher.time /\ hasher'.file = hasher.file /\ UNCHANGED index
        /\ hasher.pc = "chunk"
    <3>1. hasher' = [Read EXCEPT !.pc = "paused"] \/ hasher' \in After(Read)
      BY <1>4 DEF ReadChunk
    <3>2. hasher.pc = "chunk" /\ UNCHANGED index
      BY <1>4 DEF ReadChunk, storeVars
    <3>3. Read \in Hasher
      BY <3>2, ReadType
    <3>4. /\ hasher'.read = Read.read /\ hasher'.time = Read.time
          /\ hasher'.file = Read.file
      <4>1. CASE hasher' = [Read EXCEPT !.pc = "paused"]
        BY <3>3, <4>1 DEF Hasher
      <4>2. CASE hasher' \in After(Read)
        BY <3>3, <4>2, AfterType
      <4> QED BY <3>1, <4>1, <4>2
    <3> QED BY <3>2, <3>4, ReadType
  <2>2. Reading
    BY <2>1, Zenon DEF Reading
  <2>3. hasher.file \in Files /\ hasher.time <= disk[hasher.file]
    BY <2>2 DEF TypeInv, HasherInv
  <2>4. \A v \in hasher.read : hasher.time <= v /\ v <= disk[hasher.file]
    BY <2>2 DEF CurrentInv, ReadInv
  <2>5. disk[hasher.file] \in Nat
    BY <1>a, <2>3
  <2>6. \A v \in hasher'.read : hasher.time <= v /\ v <= disk[hasher.file]
    BY <2>1, <2>3, <2>4, <2>5
  <2> QED BY <1>a, <1>b, <2>1, <2>6 DEF CurrentInv, ReadInv
<1>5. CASE GoOn
  <2>1. /\ hasher'.read = hasher.read /\ hasher'.time = hasher.time
        /\ hasher'.file = hasher.file /\ UNCHANGED index /\ Reading
    BY <1>5, <1>a, AfterType DEF GoOn, Reading, storeVars
  <2> QED BY <1>a, <1>b, <2>1 DEF CurrentInv, ReadInv
<1>6. CASE HashDone
  <2>1. /\ hasher'.read = hasher.read /\ hasher'.time = hasher.time
        /\ hasher'.file = hasher.file /\ Reading
    BY <1>6, <1>a DEF HashDone, Reading, Hasher
  <2>2. \A v \in hasher.read : hasher.time <= v /\ v <= disk[hasher.file]
    BY <2>1 DEF CurrentInv, ReadInv
  <2>3. hasher.file \in Files /\ 0 < hasher.time /\ hasher.time <= disk[hasher.file]
    BY <2>1 DEF TypeInv, HasherInv
  <2>4. disk[hasher.file] # 0
    BY <1>a, <2>3 DEF Hasher
  <2>5. EntriesInv'
    BY <1>6, <1>a, <2>2, <2>3, <2>4 DEF HashDone, CurrentInv, EntriesInv
  <2> QED BY <1>a, <2>1, <2>2, <2>5 DEF CurrentInv, ReadInv
<1> QED BY <1>1, <1>2, <1>3, <1>4, <1>5, <1>6 DEF HasherNext

LEMMA CurrentNext ==
    ASSUME TypeInv, CurrentInv, [Next]_vars
    PROVE  CurrentInv'
<1>a. /\ disk \in [Files -> 0 .. Versions] /\ index \in [Files -> Entry]
  BY DEF TypeInv, TypeOK
<1>b. ASSUME NEW f \in Files, Rehash(f) \/ GetTTH(f)
      PROVE  \A g \in Files : index'[g] = index[g] \/ index'[g] = NoEntry
  BY <1>b, <1>a DEF Rehash, GetTTH
<1>1. CASE HasherNext
  BY <1>1, CurrentHasher
<1>2. CASE UNCHANGED <<hasher, disk, index>>
  BY <1>2, <1>a, DiskGrows
<1>3. ASSUME NEW f \in Files, NEW t \in Threads, Scan(t, f) PROVE CurrentInv'
  <2>1. \A g \in Files : index'[g] = index[g] \/ index'[g] = NoEntry
    BY <1>3, <1>b DEF Scan, storeVars
  <2>2. UNCHANGED <<hasher, disk>>
    BY <1>3 DEF Scan
  <2> QED BY <1>a, <2>1, <2>2, DiskGrows
<1>4. ASSUME NEW f \in Files, FileMoved(f) PROVE CurrentInv'
  <2>1. \A g \in Files : index'[g] = index[g] \/ index'[g] = NoEntry
    BY <1>4, <1>b DEF FileMoved, storeVars
  <2>2. UNCHANGED hasher /\ \A g \in Files : disk'[g] >= disk[g] /\ disk'[g] \in Nat
    BY <1>4, <1>a DEF FileMoved
  <2> QED BY <2>1, <2>2, DiskGrows
<1>5. ASSUME NEW f \in Files, Change(f) PROVE CurrentInv'
  <2>1. UNCHANGED <<hasher, index>> /\ \A g \in Files : disk'[g] >= disk[g] /\ disk'[g] \in Nat
    BY <1>5, <1>a, HashAssumption DEF Change, storeVars
  <2> QED BY <2>1, DiskGrows
<1>6. ASSUME NEW t \in Threads, GetDirectories(t) \/ Pause(t) \/ Merge(t) \/ Unpause(t)
      PROVE  UNCHANGED <<hasher, disk, index>>
  BY <1>6 DEF GetDirectories, Pause, Merge, Unpause, storeVars
<1>7. ASSUME NEW f \in Files, AddDirectory(f) \/ StopHashing(f)
      PROVE  UNCHANGED <<hasher, disk, index>>
  BY <1>7 DEF AddDirectory, StopHashing, storeVars
<1>8. ASSUME \/ RemoveDirectory \/ SignalPaused \/ Signal \/ Toggle
             \/ Refresh \/ ScheduleRebuild \/ Shutdown \/ AskPaused
      PROVE  UNCHANGED <<hasher, disk, index>>
  BY <1>8 DEF RemoveDirectory, SignalPaused, Signal, Toggle, Refresh, ScheduleRebuild, Shutdown, AskPaused,
     storeVars
<1>9. CASE UNCHANGED vars
  BY <1>2, <1>9 DEF vars, storeVars
<1> QED BY <1>1, <1>2, <1>3, <1>4, <1>5, <1>6, <1>7, <1>8, <1>9 DEF Next, ThreadNext

LEMMA CurrentInit == Init => CurrentInv
<1> SUFFICES ASSUME Init PROVE CurrentInv
  OBVIOUS
<1>1. EntriesInv
  BY DEF Init, EntriesInv, NoEntry
<1>2. ReadInv
  BY DEF Init, ReadInv, Reading, Resting
<1> QED BY <1>1, <1>2 DEF CurrentInv

(* A hash that is taken for current is that of the file, whoever writes to it  *)
(* while it is read.                                                         *)
THEOREM HashIsAlwaysCurrent == Spec => []HashIsCurrent
<1>1. TypeInv /\ CurrentInv /\ [Next]_vars => (TypeInv /\ CurrentInv)'
  BY CurrentNext, TypeHasher, TypeThread, TypeUser, TypeFile, TypeStutter DEF Next
<1>2. TypeInv /\ CurrentInv => HashIsCurrent
  BY DEF TypeInv, TypeOK, CurrentInv, EntriesInv, HashIsCurrent, Known, Entry
<1> QED BY TypeInit, CurrentInit, <1>1, <1>2, PTL DEF Spec

------------------------------------------------------------------------------
(* Files listed without a hash.  The entry of a file that is kept survives a   *)
(* rebuild, because it is used.                                              *)
Kept(f) ==
    \/ f \in queue \/ f \in failed
    \/ hasher.pc \in {"chunk", "paused", "done"} /\ hasher.file = f
    \/ f \in used /\ index[f] # NoEntry

Unhashed(f) == tree[f] = "unhashed" \/ \E t \in Threads : job[t].new[f] = "unhashed"
Adding(f)   == job["main"].op = "add" /\ job["main"].new[f] # "nodir"
Removing(f) == Busy("main", {"remove"}, "merge") /\ f \in job["main"].todo

MissingInv ==
    /\ job["run"].op # "add"
    /\ \A f \in Files :
          /\ Unhashed(f) => disk[f] # 0
          /\ (f \in shares \/ Adding(f)) /\ Unhashed(f) => Kept(f) \/ Removing(f)

LEMMA KeptByHasher ==
    ASSUME TypeInv, HasherNext, NEW f \in Files, Kept(f), disk[f] # 0
    PROVE  Kept(f)'
<1>a. /\ hasher \in Hasher /\ index \in [Files -> Entry] /\ used \subseteq Files
      /\ disk \in [Files -> 0 .. Versions]
  BY DEF TypeInv, TypeOK
<1>1. CASE Wake \/ End \/ Rebuilt \/ TTHDone
  <2>1. /\ hasher.pc \notin {"chunk", "paused", "done"}
        /\ UNCHANGED <<queue, used, index, failed>>
    BY <1>1 DEF Wake, End, Rebuilt, TTHDone, hashVars, storeVars
  <2> QED BY <2>1 DEF Kept
<1>2. CASE DoRebuild
  <2>1. /\ hasher.pc \notin {"chunk", "paused", "done"} /\ UNCHANGED <<queue, used, failed>>
        /\ f \in used => index'[f] = index[f]
    BY <1>2, <1>a DEF DoRebuild, hashVars
  <2> QED BY <2>1 DEF Kept
<1>3. CASE Take
  <2>1. hasher.pc = "woken" /\ UNCHANGED <<used, index>>
    BY <1>3 DEF Take
  <2>2. CASE UNCHANGED <<queue, failed>>
    BY <2>1, <2>2 DEF Kept
  <2>3. ASSUME NEW g \in queue, queue' = queue \ {g},
               \/ /\ hasher' = [pc |-> IF Chunks[g] = 0 THEN "done" ELSE "chunk", file |-> g,
                                left |-> Chunks[g], time |-> disk[g], read |-> {}, go |-> TRUE]
                  /\ UNCHANGED failed
               \/ failed' = failed \cup {g}
        PROVE  Kept(f)'
    <3>1. CASE f = g
      <4>1. f \in failed' \/ (hasher'.pc \in {"chunk", "done"} /\ hasher'.file = f)
        BY <2>3, <3>1
      <4> QED BY <4>1 DEF Kept
    <3>2. CASE f # g
      BY <2>1, <2>3, <3>2 DEF Kept
    <3> QED BY <3>1, <3>2
  <2> QED BY <1>3, <2>2, <2>3 DEF Take
<1>e. CASE ErrorHashing
  BY <1>e DEF ErrorHashing, Kept, hashVars
<1>4. CASE ReadChunk \/ GoOn
  <2>1. UNCHANGED <<queue, used, index, failed>>
    BY <1>4 DEF ReadChunk, GoOn, storeVars
  <2>2. hasher'.file = hasher.file /\ hasher'.pc \in {"chunk", "paused", "done"}
    <3>1. CASE ReadChunk
      <4>1. /\ Read \in Hasher /\ Read.file = hasher.file
            /\ hasher' = [Read EXCEPT !.pc = "paused"] \/ hasher' \in After(Read)
        BY <3>1, ReadType DEF ReadChunk
      <4>2. CASE hasher' = [Read EXCEPT !.pc = "paused"]
        BY <4>1, <4>2 DEF Hasher
      <4>3. CASE hasher' \in After(Read)
        BY <4>1, <4>3, AfterType
      <4> QED BY <4>1, <4>2, <4>3
    <3>2. CASE GoOn
      BY <1>a, <3>2, AfterType DEF GoOn
    <3> QED BY <1>4, <3>1, <3>2
  <2> QED BY <2>1, <2>2 DEF Kept
<1>5. CASE HashDone
  <2>1. hasher.file \in Files /\ 0 < hasher.time
    BY <1>5 DEF HashDone, TypeInv, HasherInv, Reading
  <2>2. /\ index' = [index EXCEPT ![hasher.file] =
                     [time |-> hasher.time, read |-> hasher.read, whole |-> hasher.left = 0]]
        /\ used' = used \cup {hasher.file} /\ queue' = queue /\ failed' = failed
    BY <1>5 DEF HashDone, hashVars
  <2>3. CASE f = hasher.file
    <3>1. index'[f] # NoEntry
      BY <1>a, <2>1, <2>2, <2>3 DEF NoEntry
    <3> QED BY <2>2, <2>3, <3>1 DEF Kept
  <2>4. CASE f # hasher.file
    BY <1>a, <2>2, <2>4 DEF Kept
  <2> QED BY <2>3, <2>4
<1> QED BY <1>1, <1>2, <1>3, <1>e, <1>4, <1>5 DEF HasherNext

LEMMA KeptByStore ==
    ASSUME TypeOK, NEW g \in Files, Rehash(g) \/ GetTTH(g), UNCHANGED hasher,
           NEW f \in Files, Kept(f)
    PROVE  Kept(f)'
<1>1. CASE Known(g) /\ used' = used \cup {g} /\ UNCHANGED <<index, failed, queue, paused, signals>>
  BY <1>1 DEF Kept
<1>2. CASE Rehash(g)
  <2>1. /\ queue' = queue \cup {g} /\ used' = used /\ failed' = failed \ {g}
        /\ index' = [index EXCEPT ![g] = NoEntry]
    BY <1>2 DEF Rehash, HashFile
  <2>2. CASE f = g
    BY <2>1, <2>2 DEF Kept
  <2>3. CASE f # g
    BY <2>1, <2>3 DEF Kept, TypeOK
  <2> QED BY <2>2, <2>3
<1> QED BY <1>1, <1>2 DEF GetTTH

(* A file that has been scanned is kept.                                     *)
LEMMA KeptOnceScanned ==
    ASSUME TypeOK, NEW f \in Files, Rehash(f) \/ GetTTH(f)
    PROVE  Kept(f)'
<1>1. CASE Known(f) /\ used' = used \cup {f} /\ UNCHANGED index
  <2>1. index[f] # NoEntry
    BY <1>1 DEF Known, NoEntry
  <2> QED BY <1>1, <2>1 DEF Kept
<1>2. CASE Rehash(f)
  BY <1>2 DEF Rehash, HashFile, Kept
<1> QED BY <1>1, <1>2 DEF GetTTH

(* A step that lists nothing new without its hash.                            *)
LEMMA NothingNew ==
    ASSUME MissingInv, job'["run"].op # "add",
           \A f \in Files : /\ disk[f] # 0 => disk'[f] # 0
                            /\ Unhashed(f)' => Unhashed(f)
                            /\ Unhashed(f)' /\ (f \in shares' \/ Adding(f)') =>
                                  /\ f \in shares \/ Adding(f)
                                  /\ Kept(f) => Kept(f)'
                                  /\ Removing(f) => Removing(f)'
    PROVE  MissingInv'
BY DEF MissingInv

LEMMA MissingHasher ==
    ASSUME TypeInv, MissingInv, HasherNext
    PROVE  MissingInv'
<1>1. UNCHANGED <<job, shares, disk>>
  BY DEF HasherNext, Wake, End, DoRebuild, Rebuilt, Take, ErrorHashing, ReadChunk, GoOn, HashDone, TTHDone,
     shareVars
<1>2. \A f \in Files : tree'[f] = "unhashed" => tree[f] = "unhashed"
  BY DEF HasherNext, Wake, End, DoRebuild, Rebuilt, Take, ErrorHashing, ReadChunk, GoOn, HashDone, TTHDone,
     shareVars, TypeInv, TypeOK
<1>3. \A f \in Files : /\ Unhashed(f)' => Unhashed(f)
                       /\ (Adding(f)' <=> Adding(f)) /\ (Removing(f)' <=> Removing(f))
  BY <1>1, <1>2 DEF Unhashed, Adding, Removing, Busy
<1>4. \A f \in Files : Kept(f) /\ disk[f] # 0 => Kept(f)'
  BY KeptByHasher
<1>5. \A f \in Files : Unhashed(f) => disk[f] # 0
  BY DEF MissingInv
<1> QED BY <1>1, <1>3, <1>4, <1>5, NothingNew DEF MissingInv

LEMMA NoNews ==
    ASSUME NEW op, NEW at, NEW todo
    PROVE  \A f \in Files : NewJob(op, at, todo).new[f] = "nodir"
BY DEF NewJob, Nothing

(* A thread that starts something, or ends.                                   *)
LEMMA MissingNewJob ==
    ASSUME TypeInv, MissingInv, NEW t \in Threads, NEW op, NEW at, NEW todo,
           job' = [job EXCEPT ![t] = NewJob(op, at, todo)], t = "run" => op # "add",
           UNCHANGED <<hasher, used, index, failed, disk, shares, tree>>, queue \subseteq queue',
           t = "run" \/ ~Busy("main", {"remove"}, "merge")
    PROVE  MissingInv'
<1>1. /\ job \in [Threads -> Job] /\ "main" \in Threads /\ "run" \in Threads
  BY DEF TypeInv, TypeOK, Threads
<1>2. /\ job'[t].op = op /\ \A f \in Files : job'[t].new[f] = "nodir"
      /\ \A s \in Threads \ {t} : job'[s] = job[s]
  BY <1>1, NoNews DEF NewJob
<1>3. \A f \in Files : /\ Unhashed(f)' => Unhashed(f)
                       /\ Adding(f)' => Adding(f)
                       /\ Removing(f) => Removing(f)'
                       /\ Kept(f) => Kept(f)'
  BY <1>1, <1>2 DEF Unhashed, Adding, Removing, Kept, Busy
<1>4. job'["run"].op # "add"
  BY <1>1, <1>2 DEF MissingInv
<1> QED BY <1>3, <1>4, NothingNew

LEMMA MissingThread ==
    ASSUME TypeInv, MissingInv, NEW t \in Threads, ThreadNext(t)
    PROVE  MissingInv'
<1>a. /\ TypeOK /\ job \in [Threads -> Job] /\ job[t] \in Job /\ tree \in [Files -> Listing]
      /\ "main" \in Threads /\ "run" \in Threads /\ disk \in [Files -> 0 .. Versions]
  BY JobFields DEF TypeInv, TypeOK, Threads
<1>1. CASE GetDirectories(t)
  <2>1. /\ UNCHANGED <<hasher, used, index, failed, disk, shares, tree, queue>>
        /\ t = "main" => ~Busy("main", {"remove"}, "merge")
        /\ \/ job' = [job EXCEPT ![t] = NewJob("none", "start", {})]
           \/ job' = [job EXCEPT ![t] = NewJob("refresh", "pause", shares)]
    BY <1>1 DEF GetDirectories, Busy, Idle, hashVars, storeVars, shareVars
  <2> QED BY <1>a, <2>1, MissingNewJob DEF Threads
<1>2. CASE Pause(t)
  <2> DEFINE j == [job[t] EXCEPT !.at = "scan"]
  <2>1. /\ job' = [job EXCEPT ![t] = [j EXCEPT !.resume = (paused = 0)]]
        /\ UNCHANGED <<hasher, used, index, failed, disk, shares, tree, queue>>
        /\ job[t].op \in {"refresh", "add"}
    BY <1>2, Zenon DEF Pause, Paused, Busy, storeVars, shareVars
  <2>2. /\ [j EXCEPT !.resume = (paused = 0)].op = job[t].op
        /\ [j EXCEPT !.resume = (paused = 0)].new = job[t].new
    BY <1>a DEF Job
  <2> HIDE DEF j
  <2>3. /\ job'[t].op = job[t].op /\ job'[t].new = job[t].new
        /\ \A s \in Threads \ {t} : job'[s] = job[s]
    BY <1>a, <2>1, <2>2
  <2>4. \A f \in Files : /\ (Unhashed(f)' => Unhashed(f)) /\ (Adding(f)' => Adding(f))
                         /\ (Removing(f) => Removing(f)') /\ (Kept(f) => Kept(f)')
    BY <1>a, <2>1, <2>3 DEF Unhashed, Adding, Removing, Kept, Busy
  <2> QED BY <1>a, <2>1, <2>3, <2>4, NothingNew DEF MissingInv
<1>3. CASE Merge(t)
  <2>1. /\ UNCHANGED <<hasher, used, index, failed, disk, queue>> /\ job[t].op \in {"refresh", "add"}
        /\ job' = [job EXCEPT ![t].at = "resume", ![t].new = Nothing]
        /\ LET new == {f \in Files : job[t].new[f] # "nodir"} IN
           \/ tree' = job[t].new /\ UNCHANGED shares
           \/ /\ job[t].op = "add" /\ shares' = shares \cup new
              /\ tree' = [f \in Files |-> IF f \in new THEN Merged(tree[f], job[t].new[f]) ELSE tree[f]]
    BY <1>3 DEF Merge, Busy, hashVars, storeVars
  <2>2. /\ job'[t].op = job[t].op /\ job'[t].new = Nothing
        /\ \A s \in Threads \ {t} : job'[s] = job[s]
    BY <1>a, <2>1 DEF Job
  <2>3. \A f \in Files : /\ Unhashed(f)' => Unhashed(f)
                         /\ Adding(f)' => Adding(f)
                         /\ (Removing(f) => Removing(f)') /\ (Kept(f) => Kept(f)')
    <3> TAKE f \in Files
    <3>1. Nothing[f] = "nodir"
      BY DEF Nothing
    <3>2. tree'[f] = "unhashed" => tree[f] = "unhashed" \/ job[t].new[f] = "unhashed"
      BY <2>1 DEF Merged
    <3> QED BY <1>a, <2>1, <2>2, <3>1, <3>2 DEF Unhashed, Adding, Removing, Kept, Busy
  <2>4. \A f \in Files : f \in shares' => f \in shares \/ Adding(f)
    BY <1>a, <2>1 DEF Adding, MissingInv, Threads
  <2> QED BY <1>a, <2>1, <2>2, <2>3, <2>4, NothingNew DEF MissingInv
<1>4. CASE Unpause(t)
  <2>1. /\ UNCHANGED <<hasher, used, index, failed, disk, shares, tree, queue>>
        /\ t = "main" => ~Busy("main", {"remove"}, "merge")
        /\ job' = [job EXCEPT ![t] = NewJob("none", "start", {})]
    BY <1>4 DEF Unpause, Busy, Idle, storeVars, shareVars
  <2> QED BY <1>a, <2>1, MissingNewJob DEF Threads
<1>5. ASSUME NEW f \in Files, Scan(t, f) PROVE MissingInv'
  <2> DEFINE k == IF disk[f] = 0 THEN "nofile" ELSE IF Known(f) THEN "hashed" ELSE "unhashed"
  <2>1. /\ UNCHANGED <<hasher, disk, shares, tree>> /\ job[t].op \in {"refresh", "add"}
        /\ job' = [job EXCEPT ![t].todo = @ \ {f}, ![t].new = [@ EXCEPT ![f] = k]]
        /\ (disk[f] = 0 /\ UNCHANGED <<queue, used, index, failed>>) \/ (disk[f] # 0 /\ GetTTH(f))
    BY <1>5 DEF Scan, Busy, storeVars, shareVars
  <2>2. k = "unhashed" => disk[f] # 0
    OBVIOUS
  <2> HIDE DEF k
  <2>3. /\ job'[t].op = job[t].op /\ job'[t].new = [job[t].new EXCEPT ![f] = k]
        /\ \A s \in Threads \ {t} : job'[s] = job[s]
    BY <1>a, <2>1 DEF Job
  <2>4. job'[t].new[f] = k /\ \A g \in Files \ {f} : job'[t].new[g] = job[t].new[g]
    BY <1>a, <2>3 DEF Job
  <2>5. ASSUME NEW g \in Files, Kept(g) PROVE Kept(g)'
    BY <1>a, <2>1, <2>5, KeptByStore DEF Kept
  <2>6. ASSUME NEW g \in Files \ {f}
        PROVE  /\ (Unhashed(g)' => Unhashed(g)) /\ (Adding(g)' => Adding(g))
               /\ Removing(g) => Removing(g)'
    BY <1>a, <2>1, <2>3, <2>4 DEF Unhashed, Adding, Removing, Busy
  <2>7. Unhashed(f)' => disk[f] # 0
    BY <1>a, <2>1, <2>2, <2>3, <2>4 DEF Unhashed, MissingInv
  <2>8. Unhashed(f)' => Kept(f)'
    BY <1>a, <2>1, <2>7, KeptOnceScanned
  <2>9. job'["run"].op # "add"
    BY <1>a, <2>3 DEF MissingInv
  <2> QED BY <2>1, <2>5, <2>6, <2>7, <2>8, <2>9 DEF MissingInv
<1> QED BY <1>1, <1>2, <1>3, <1>4, <1>5 DEF ThreadNext

LEMMA MissingUser ==
    ASSUME TypeInv, MissingInv,
           \/ RemoveDirectory \/ SignalPaused \/ Signal \/ Toggle
           \/ Refresh \/ ScheduleRebuild \/ Shutdown \/ AskPaused
    PROVE  MissingInv'
<1>a. /\ job \in [Threads -> Job] /\ job["main"] \in Job /\ tree \in [Files -> Listing]
      /\ "main" \in Threads /\ "run" \in Threads
  BY JobFields DEF TypeInv, TypeOK, Threads
<1>b. ASSUME MainIsFree PROVE ~Busy("main", {"remove"}, "merge")
  BY <1>b DEF MainIsFree, Idle, NewJob, Busy
<1>1. CASE RemoveDirectory
  <2> DEFINE j == [job["main"] EXCEPT !.at = "resume"]
  <2>1. /\ UNCHANGED <<hasher, used, index, failed, disk, queue>> /\ job["main"].op = "remove"
        /\ job["main"].at = "merge" /\ shares' = shares \ job["main"].todo
        /\ tree' = [f \in Files |-> IF f \in job["main"].todo THEN "nodir" ELSE tree[f]]
        /\ job' = [job EXCEPT !["main"] = [j EXCEPT !.resume = (paused = 0)]]
    BY <1>1, Zenon DEF RemoveDirectory, Paused, Busy, storeVars
  <2>2. /\ [j EXCEPT !.resume = (paused = 0)].op = job["main"].op
        /\ [j EXCEPT !.resume = (paused = 0)].new = job["main"].new
    BY <1>a DEF Job
  <2> HIDE DEF j
  <2>3. /\ job'["main"].op = "remove" /\ job'["main"].new = job["main"].new
        /\ \A s \in Threads \ {"main"} : job'[s] = job[s]
    BY <1>a, <2>1, <2>2
  <2>4. \A f \in Files : /\ Unhashed(f)' => Unhashed(f)
                         /\ ~Adding(f)'
                         /\ Kept(f) => Kept(f)'
    BY <1>a, <2>1, <2>3 DEF Unhashed, Adding, Kept
  <2>5. \A f \in Files : f \in shares' => f \in shares /\ ~Removing(f)
    BY <2>1 DEF Removing
  <2>6. job'["run"].op # "add"
    BY <1>a, <2>3 DEF MissingInv, Threads
  <2> QED BY <2>1, <2>4, <2>5, <2>6, NothingNew
<1>2. CASE Signal
  <2> DEFINE j == IF job["main"].op = "rebuild" THEN Idle ELSE [job["main"] EXCEPT !.at = "merge"]
  <2>1. /\ UNCHANGED <<hasher, used, index, failed, disk, shares, tree, queue>>
        /\ job["main"].at \in {"ask", "signal"} /\ job["main"].op \in {"rebuild", "shutdown"}
        /\ job' = [job EXCEPT !["main"] = j]
    BY <1>2 DEF Signal, Busy, storeVars, shareVars
  <2>2. /\ j.op \in {"none", "shutdown"}
        /\ \A f \in Files : j.new[f] = "unhashed" => job["main"].new[f] = "unhashed"
    BY <1>a, <2>1 DEF Job, Idle, NewJob, Nothing
  <2> HIDE DEF j
  <2>3. job'["main"] = j /\ \A s \in Threads \ {"main"} : job'[s] = job[s]
    BY <1>a, <2>1
  <2>4. \A f \in Files : /\ Unhashed(f)' => Unhashed(f)
                         /\ ~Adding(f)' /\ ~Removing(f)
                         /\ Kept(f) => Kept(f)'
    BY <1>a, <2>1, <2>2, <2>3 DEF Unhashed, Adding, Removing, Kept, Busy
  <2>5. job'["run"].op # "add"
    BY <1>a, <2>3 DEF MissingInv, Threads
  <2> QED BY <2>1, <2>4, <2>5, NothingNew
<1>3. CASE Toggle
  <2>1. /\ UNCHANGED <<hasher, used, index, failed, disk, shares, tree, queue>>
        /\ ~Busy("main", {"remove"}, "merge")
        /\ job' = [job EXCEPT !["main"] = NewJob("none", "start", {})]
    BY <1>3 DEF Toggle, Busy, Idle, storeVars, shareVars
  <2> QED BY <1>a, <2>1, MissingNewJob
<1>4. CASE Refresh
  <2>1. /\ UNCHANGED <<hasher, used, index, failed, disk, shares, tree, queue>>
        /\ job' = [job EXCEPT !["run"] = NewJob("refresh", "start", {})]
    BY <1>4 DEF Refresh, hashVars, storeVars, shareVars
  <2> QED BY <1>a, <2>1, MissingNewJob
<1>5. CASE ScheduleRebuild
  <2>1. /\ UNCHANGED <<hasher, used, index, failed, disk, shares, tree, queue>>
        /\ ~Busy("main", {"remove"}, "merge")
        /\ job' = [job EXCEPT !["main"] = NewJob("rebuild", "ask", {})]
    BY <1>5, <1>b DEF ScheduleRebuild, storeVars, shareVars
  <2> QED BY <1>a, <2>1, MissingNewJob
<1>6. CASE Shutdown
  <2>1. /\ UNCHANGED <<hasher, used, index, failed, disk, shares, tree, queue>>
        /\ ~Busy("main", {"remove"}, "merge")
        /\ job' = [job EXCEPT !["main"] = NewJob("shutdown", "ask", {})]
    BY <1>6, <1>b DEF Shutdown, storeVars, shareVars
  <2> QED BY <1>a, <2>1, MissingNewJob
<1>7. CASE AskPaused
  <2>1. /\ UNCHANGED <<hasher, used, index, failed, disk, shares, tree, queue>>
        /\ ~Busy("main", {"remove"}, "merge")
        /\ \E at \in {"resume", "pause"} :
              job' = [job EXCEPT !["main"] = NewJob("toggle", at, {})]
    BY <1>7, <1>b DEF AskPaused, hashVars, storeVars, shareVars
  <2> QED BY <1>a, <2>1, MissingNewJob
<1>8. CASE SignalPaused
  <2> DEFINE j == [job["main"] EXCEPT !.at = "signal"]
  <2>1. /\ UNCHANGED <<hasher, used, index, failed, disk, shares, tree, queue>>
        /\ job["main"].at = "ask" /\ job["main"].op \in {"rebuild", "shutdown"}
        /\ job' = [job EXCEPT !["main"] = j]
    BY <1>8 DEF SignalPaused, Busy, storeVars, shareVars
  <2>2. j.op = job["main"].op /\ j.new = job["main"].new
    BY <1>a DEF Job
  <2> HIDE DEF j
  <2>3. job'["main"] = j /\ \A s \in Threads \ {"main"} : job'[s] = job[s]
    BY <1>a, <2>1
  <2>4. \A f \in Files : /\ Unhashed(f)' => Unhashed(f)
                         /\ ~Adding(f)' /\ ~Removing(f)
                         /\ Kept(f) => Kept(f)'
    BY <1>a, <2>1, <2>2, <2>3 DEF Unhashed, Adding, Removing, Kept, Busy
  <2>5. job'["run"].op # "add"
    BY <1>a, <2>3 DEF MissingInv, Threads
  <2> QED BY <2>1, <2>4, <2>5, NothingNew
<1> QED BY <1>1, <1>2, <1>3, <1>4, <1>5, <1>6, <1>7, <1>8

LEMMA MissingFile ==
    ASSUME TypeInv, MissingInv, NEW f \in Files,
           AddDirectory(f) \/ StopHashing(f) \/ FileMoved(f) \/ Change(f)
    PROVE  MissingInv'
<1>a. /\ job \in [Threads -> Job] /\ tree \in [Files -> Listing] /\ TypeOK
      /\ "main" \in Threads /\ "run" \in Threads /\ disk \in [Files -> 0 .. Versions]
  BY DEF TypeInv, TypeOK, Threads
<1>b. ASSUME MainIsFree
      PROVE  /\ ~Busy("main", {"remove"}, "merge") /\ job["main"].op = "none"
  BY <1>b DEF MainIsFree, Idle, NewJob, Busy
<1>1. CASE AddDirectory(f)
  <2>1. /\ UNCHANGED <<hasher, used, index, failed, disk, shares, tree, queue>>
        /\ ~Busy("main", {"remove"}, "merge")
        /\ job' = [job EXCEPT !["main"] = NewJob("add", "pause", {f})]
    BY <1>1, <1>b DEF AddDirectory, hashVars, storeVars, shareVars
  <2> QED BY <1>a, <2>1, MissingNewJob
<1>2. CASE StopHashing(f)
  <2>1. /\ UNCHANGED <<hasher, used, index, failed, disk, shares, tree>> /\ queue' = queue \ {f}
        /\ job' = [job EXCEPT !["main"] = NewJob("remove", "merge", {f})]
        /\ job["main"].op = "none" /\ ~Busy("main", {"remove"}, "merge")
    BY <1>2, <1>b DEF StopHashing, storeVars, shareVars
  <2>2. /\ job'["main"].op = "remove" /\ job'["main"].at = "merge" /\ job'["main"].todo = {f}
        /\ \A g \in Files : job'["main"].new[g] = "nodir"
        /\ \A s \in Threads \ {"main"} : job'[s] = job[s]
    BY <1>a, <2>1 DEF NewJob, Nothing
  <2>3. Removing(f)'
    BY <2>2 DEF Removing, Busy
  <2>4. \A g \in Files : /\ (Unhashed(g)' => Unhashed(g)) /\ ~Adding(g)' /\ ~Removing(g)
                         /\ g # f /\ Kept(g) => Kept(g)'
    BY <1>a, <2>1, <2>2 DEF Unhashed, Adding, Removing, Kept
  <2>5. job'["run"].op # "add"
    BY <1>a, <2>2 DEF MissingInv, Threads
  <2> QED BY <2>1, <2>3, <2>4, <2>5 DEF MissingInv
<1>3. CASE FileMoved(f)
  <2>1. /\ UNCHANGED <<hasher, shares, job>> /\ disk' = [disk EXCEPT ![f] = 1] /\ disk[f] = 0
        /\ \/ Rehash(f) /\ (tree' = tree \/ tree' = [tree EXCEPT ![f] = "unhashed"])
           \/ UNCHANGED <<queue, used, index, failed, tree>>
    BY <1>3 DEF FileMoved, storeVars
  <2>2. ASSUME NEW g \in Files, Kept(g) PROVE Kept(g)'
    BY <1>a, <2>1, <2>2, KeptByStore DEF Kept
  <2>3. ASSUME NEW g \in Files
        PROVE  /\ (Adding(g)' <=> Adding(g)) /\ (Removing(g)' <=> Removing(g))
               /\ (g # f => (Unhashed(g)' <=> Unhashed(g)))
               /\ (g # f => disk'[g] = disk[g]) /\ disk'[f] # 0
    BY <1>a, <2>1 DEF Unhashed, Adding, Removing, Busy
  <2>4. ~Unhashed(f)
    BY <2>1 DEF MissingInv
  <2>5. Unhashed(f)' => Kept(f)'
    BY <1>a, <2>1, <2>4, KeptOnceScanned DEF Unhashed
  <2> QED BY <2>1, <2>2, <2>3, <2>5 DEF MissingInv
<1>4. CASE Change(f)
  <2>1. /\ UNCHANGED <<hasher, used, index, failed, shares, tree, queue, job>>
        /\ \A g \in Files : disk[g] # 0 => disk'[g] # 0
    BY <1>4, <1>a DEF Change, hashVars, storeVars, shareVars
  <2>2. \A g \in Files : /\ (Unhashed(g)' => Unhashed(g)) /\ (Adding(g)' => Adding(g))
                         /\ (Removing(g) => Removing(g)') /\ (Kept(g) => Kept(g)')
    BY <2>1 DEF Unhashed, Adding, Removing, Kept, Busy
  <2> QED BY <2>1, <2>2, NothingNew DEF MissingInv
<1> QED BY <1>1, <1>2, <1>3, <1>4

LEMMA MissingInit == Init => MissingInv
BY DEF Init, MissingInv, Unhashed, Nothing, Idle, NewJob, Threads

(* A shared file that is listed without its hash is in the queue, in the       *)
(* hasher's hands or in the store, or the hasher could not open or read it.     *)
THEOREM MissingIsAlwaysRemembered == Spec => []MissingIsRemembered
<1>1. ASSUME TypeInv, MissingInv, [Next]_vars PROVE TypeInv' /\ MissingInv'
  <2>1. CASE UNCHANGED vars
    BY <1>1, <2>1, TypeStutter DEF vars, hashVars, storeVars, shareVars, MissingInv, Unhashed,
       Adding, Removing, Kept, Busy
  <2>2. CASE Next
    BY <1>1, <2>2, TypeHasher, TypeThread, TypeUser, TypeFile,
       MissingHasher, MissingThread, MissingUser, MissingFile DEF Next
  <2> QED BY <1>1, <2>1, <2>2
<1>2. TypeInv /\ MissingInv => MissingIsRemembered
  BY DEF TypeInv, TypeOK, MissingInv, MissingIsRemembered, Unhashed, Kept, Removing
<1>3. TypeInv /\ MissingInv /\ [Next]_vars => (TypeInv /\ MissingInv)'
  BY <1>1
<1> QED BY TypeInit, MissingInit, <1>2, <1>3, PTL DEF Spec
================================================================================
