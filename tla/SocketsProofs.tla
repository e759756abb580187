------------------------------ MODULE SocketsProofs ------------------------------
(***************************************************************************)
(* Proofs about Sockets, for any streams, sizes and bounds: the types, that     *)
(* what waits has a task, that the thread keeps the promises of SocketCalls,     *)
(* and the order of what is sent.                                            *)
(***************************************************************************)
EXTENDS Sockets, SequenceTheorems, WellFoundedInduction, TLAPS

-----------------------------------------------------------------------------
(* Types.                                                                   *)

Pieces == {"Line", "Data"} \X Seq(Symbols)
Modes == {"LINE", "ZPIPE", "DATA", "FLOW"}

OwnerTypes ==
    /\ sock \in {"none", "bound", "started"} /\ owned \in BOOLEAN /\ disconnecting \in BOOLEAN
    /\ tasks \in Seq(Tasks) /\ writeBuf \in Seq(Nat) /\ asked \in Seq(Nat) /\ owed \in Nat

ThreadTypes ==
    /\ state \in {"STARTING", "RUNNING", "FAILED"} /\ up \in BOOLEAN
    /\ at \in Places /\ back \in {"events", "sending", "sendingFile"}

SendTypes == sendBuf \in Seq(Nat) /\ wire \in Seq(Nat) /\ file \in 0 .. FileSize

ReadTypes ==
    /\ stream \in Streams /\ got \in 0 .. Len(stream)
    /\ inbuf \in Seq(Symbols) /\ line \in Seq(Symbols)
    /\ mode \in Modes /\ dataBytes \in 0 .. DataSize
    /\ heard \in Seq(Pieces)

LEMMA Parts == TypeOK <=> OwnerTypes /\ ThreadTypes /\ SendTypes /\ ReadTypes
BY Zenon DEF TypeOK, OwnerTypes, ThreadTypes, SendTypes, ReadTypes, Pieces, Modes

LEMMA PartsNext == TypeOK' <=> OwnerTypes' /\ ThreadTypes' /\ SendTypes' /\ ReadTypes'
BY Parts, PTL

LEMMA TypeInit == Init => TypeOK
<1> SUFFICES ASSUME Init PROVE TypeOK
  OBVIOUS
<1>1. OwnerTypes
  BY EmptySeq DEF Init, OwnerTypes
<1>2. ThreadTypes /\ SendTypes
  <2>1. 0 \in 0 .. FileSize
    BY SocketAssumption
  <2> QED BY <2>1, EmptySeq DEF Init, ThreadTypes, SendTypes, Places
<1>3. ReadTypes
  <2>1. Len(stream) \in Nat
    BY SocketAssumption DEF Init
  <2> QED BY <2>1, SocketAssumption DEF Init, ReadTypes, Modes
<1> QED BY <1>1, <1>2, <1>3, Parts

LEMMA OwnerUnchanged == OwnerTypes /\ UNCHANGED ownerVars => OwnerTypes'
BY DEF OwnerTypes, ownerVars, Tasks

LEMMA ReadUnchanged == ReadTypes /\ UNCHANGED readVars => ReadTypes'
BY DEF ReadTypes, readVars, Pieces, Modes

LEMMA SendUnchanged == SendTypes /\ UNCHANGED sendVars => SendTypes'
BY DEF SendTypes, sendVars

LEMMA ThreadUnchanged == ThreadTypes /\ UNCHANGED <<state, at, back, up>> => ThreadTypes'
BY DEF ThreadTypes, Places

LEMMA PostType == ASSUME tasks \in Seq(Tasks), NEW task \in Tasks, Post(task) PROVE tasks' \in Seq(Tasks)
BY DEF Post

LEMMA OwnerType == TypeOK /\ Owner => TypeOK'
<1> SUFFICES ASSUME TypeOK, Owner PROVE TypeOK'
  OBVIOUS
<1> USE Parts
<1>1. UNCHANGED <<state, at, back, up, sendVars, readVars>>
  BY DEF Owner, Bind, Start, Write, TransmitFile, Disconnect, Updated, PutSocket
<1>2. ThreadTypes' /\ SendTypes' /\ ReadTypes'
  BY <1>1, ThreadUnchanged, SendUnchanged, ReadUnchanged
<1>3. OwnerTypes'
  <2>1. CASE Bind
    BY <2>1 DEF Bind, OwnerTypes, Tasks
  <2>2. CASE Start
    BY <2>2, PostType DEF Start, OwnerTypes, Tasks
  <2>3. CASE Write
    <3>1. Len(asked) + 1 \in Nat
      BY DEF OwnerTypes
    <3> QED BY <2>3, <3>1, PostType DEF Write, OwnerTypes, Tasks
  <2>4. CASE TransmitFile
    <3>1. [i \in 1 .. FileSize |-> FilePiece] \in Seq(Nat)
      BY SocketAssumption DEF FilePiece
    <3>2. asked' \in Seq(Nat)
      BY <2>4, <3>1 DEF TransmitFile, OwnerTypes
    <3> QED BY <2>4, <3>2, PostType DEF TransmitFile, OwnerTypes, Tasks
  <2>5. CASE \E graceless \in BOOLEAN : Disconnect(graceless)
    BY <2>5, PostType DEF Disconnect, OwnerTypes, Tasks
  <2>6. CASE Updated \/ PutSocket
    BY <2>6, PostType DEF Updated, PutSocket, OwnerTypes, Tasks
  <2> QED BY <2>1, <2>2, <2>3, <2>4, <2>5, <2>6 DEF Owner
<1> QED BY <1>2, <1>3, PartsNext

LEMMA EventsType == TypeOK /\ CheckEvents => TypeOK'
<1> SUFFICES ASSUME TypeOK, CheckEvents PROVE TypeOK'
  OBVIOUS
<1> USE Parts
<1>1. tasks' \in Seq(Tasks)
  BY HeadTailProperties DEF CheckEvents, OwnerTypes
<1>2. UNCHANGED <<sock, owned, disconnecting, asked, owed, up, readVars>>
  BY DEF CheckEvents
<1>3. writeBuf' \in Seq(Nat) /\ SendTypes'
  BY SocketAssumption DEF CheckEvents, Handle, sendVars, OwnerTypes, SendTypes
<1>4. OwnerTypes'
  BY <1>1, <1>2, <1>3 DEF OwnerTypes
<1>5. ThreadTypes'
  BY <1>2 DEF CheckEvents, Handle, Goto, Fail, ThreadTypes, Places
<1> QED BY <1>2, <1>3, <1>4, <1>5, ReadUnchanged, PartsNext

LEMMA ReceiveType == ASSUME TypeOK, NEW from, Receive(from) PROVE ReadTypes'
<1> USE Parts
<1>1. stream \in Seq(Symbols)
  BY SocketAssumption DEF ReadTypes
<1>2. PICK n \in got + 1 .. Len(stream) : got' = n /\ inbuf' = SubSeq(stream, got + 1, n)
  BY DEF Receive
<1>3. Len(stream) \in Nat /\ n \in Nat /\ n <= Len(stream) /\ got \in Nat
  BY <1>1 DEF ReadTypes
<1>4. \A i \in got + 1 .. n : stream[i] \in Symbols
  BY <1>1, <1>3, ElementOfSeq
<1>5. SubSeq(stream, got + 1, n) \in Seq(Symbols)
  BY <1>3, <1>4, SubSeqProperties
<1> QED BY <1>2, <1>3, <1>5 DEF Receive, ReadTypes, Pieces

LEMMA ConnectionType == TypeOK /\ (Connect \/ CheckSocket \/ Stop \/ Send \/ TransmitDone) => TypeOK'
<1> SUFFICES ASSUME TypeOK, Connect \/ CheckSocket \/ Stop \/ Send \/ TransmitDone PROVE TypeOK'
  OBVIOUS
<1> USE Parts, PartsNext
<1>1. UNCHANGED ownerVars
  BY DEF Connect, CheckSocket, Stop, Send, TransmitDone, Receive, Closed
<1>2. OwnerTypes'
  BY <1>1, OwnerUnchanged
<1>3. ASSUME NEW from \in {"events", "sending", "sendingFile"}, Receive(from) PROVE TypeOK'
  <2>1. ReadTypes' /\ SendTypes'
    BY <1>3, ReceiveType, SendUnchanged DEF Receive
  <2>2. ThreadTypes'
    BY <1>3 DEF Receive, ThreadTypes, Places
  <2> QED BY <1>2, <2>1, <2>2
<1>4. ASSUME UNCHANGED readVars, UNCHANGED sendVars, at' \in Places, back' = back, up' \in BOOLEAN,
             state' \in {state, "FAILED"}
      PROVE  TypeOK'
  BY <1>2, <1>4, ReadUnchanged, SendUnchanged DEF ThreadTypes
<1>5. ASSUME Closed PROVE TypeOK'
  BY <1>4, <1>5 DEF Closed, Fail, Goto, Places, ThreadTypes
<1>6. CASE Connect
  BY <1>4, <1>6 DEF Connect, Fail, Goto, Places, ThreadTypes
<1>7. CASE CheckSocket
  <2>1. CASE at' \in Places /\ UNCHANGED <<state, back, up, sendVars, readVars>>
    BY <1>4, <2>1 DEF ThreadTypes
  <2> QED BY <1>3, <1>5, <1>7, <2>1 DEF CheckSocket, Goto, Places
<1>8. CASE Stop \/ TransmitDone
  BY <1>4, <1>8 DEF Stop, TransmitDone, Goto, Places, ThreadTypes
<1>9. CASE Send
  <2>1. CASE /\ at = "sending" /\ sendBuf # <<>>
             /\ wire' = Append(wire, Head(sendBuf)) /\ sendBuf' = Tail(sendBuf)
             /\ Goto(IF Len(sendBuf) = 1 THEN "events" ELSE "sending")
             /\ UNCHANGED <<ownerVars, state, up, file, readVars>>
    <3>1. SendTypes'
      BY <2>1, HeadTailProperties, AppendProperties DEF SendTypes
    <3>2. ThreadTypes'
      BY <2>1 DEF Goto, ThreadTypes, Places
    <3> QED BY <1>2, <2>1, <3>1, <3>2, ReadUnchanged
  <2>2. CASE /\ at = "sendingFile" /\ file > 0
             /\ wire' = Append(wire, FilePiece) /\ file' = file - 1
             /\ UNCHANGED <<ownerVars, state, at, back, up, sendBuf, readVars>>
    <3>1. SendTypes'
      BY <2>2, AppendProperties, SocketAssumption DEF SendTypes, FilePiece
    <3> QED BY <1>2, <2>2, <3>1, ReadUnchanged, ThreadUnchanged
  <2> QED BY <1>3, <1>5, <1>9, <2>1, <2>2 DEF Send
<1> QED BY <1>6, <1>7, <1>8, <1>9

-----------------------------------------------------------------------------
(* What is cut from a sequence is one.                                       *)

LEMMA Smallest ==
    ASSUME NEW N \in SUBSET Nat, N # {}
    PROVE  \E i \in N : \A j \in N : i <= j
<1> DEFINE Less == OpToRel(<, Nat)
<1>1. IsWellFoundedOn(Less, Nat)
  BY NatLessThanWellFounded
<1>2. \E i \in N : \A j \in N : <<j, i>> \notin Less
  <2> HIDE DEF Less
  <2> QED BY <1>1, WFMin
<1>3. \A i, j \in Nat : j < i => <<j, i>> \in Less
  BY DEF OpToRel
<1>4. PICK i \in N : \A j \in N : <<j, i>> \notin Less
  BY <1>2
<1>5. \A j \in N : ~(j < i)
  <2> HIDE DEF Less
  <2> QED BY <1>3, <1>4
<1> QED BY <1>5

LEMMA IndexInSeq ==
    ASSUME NEW s \in Seq(Symbols), NEW c
    PROVE  IndexOf(s, c) \in 1 .. Len(s) + 1
<1> DEFINE N == {i \in 1 .. Len(s) : s[i] = c}
<1>1. Len(s) \in Nat
  OBVIOUS
<1>2. CASE N = {}
  BY <1>1, <1>2 DEF IndexOf
<1>3. CASE N # {}
  <2>1. N \subseteq Nat
    BY <1>1
  <2>2. PICK i \in N : \A j \in N : i <= j
    BY <1>3, <2>1, Smallest
  <2>3. IndexOf(s, c) \in N
    BY <1>3, <2>2 DEF IndexOf
  <2> QED BY <1>1, <2>3
<1> QED BY <1>2, <1>3

LEMMA CutSeq ==
    ASSUME NEW s \in Seq(Symbols), NEW i \in Nat
    PROVE  /\ i <= Len(s) + 1 => Before(s, i) \in Seq(Symbols)
           /\ After(s, i) \in Seq(Symbols)
           /\ i <= Len(s) => Len(After(s, i)) = Len(s) - i
           /\ i <= Len(s) => SubSeq(s, 1, i) \in Seq(Symbols) /\ Len(SubSeq(s, 1, i)) = i
<1>1. Len(s) \in Nat /\ \A k \in 1 .. Len(s) : s[k] \in Symbols
  BY ElementOfSeq
<1>2. ASSUME i <= Len(s) + 1 PROVE Before(s, i) \in Seq(Symbols)
  <2>1. \A k \in 1 .. i - 1 : s[k] \in Symbols
    BY <1>1, <1>2
  <2> QED BY <2>1, SubSeqProperties DEF Before
<1>3. After(s, i) \in Seq(Symbols) /\ (i <= Len(s) => Len(After(s, i)) = Len(s) - i)
  <2>1. \A k \in i + 1 .. Len(s) : s[k] \in Symbols
    BY <1>1
  <2> QED BY <1>1, <2>1, SubSeqProperties DEF After
<1>4. ASSUME i <= Len(s) PROVE SubSeq(s, 1, i) \in Seq(Symbols) /\ Len(SubSeq(s, 1, i)) = i
  <2>1. \A k \in 1 .. i : s[k] \in Symbols
    BY <1>1, <1>4
  <2> QED BY <1>1, <1>4, <2>1, SubSeqProperties
<1> QED BY <1>1, <1>2, <1>3, <1>4

-----------------------------------------------------------------------------
(* What is heard is longer each time, and starts as before.                   *)

LEMMA DataType == ASSUME NEW s \in Seq(Symbols) PROVE Data(s) \in Seq(Pieces) /\ Len(Data(s)) = Len(s)
<1>1. Len(s) \in Nat /\ \A k \in 1 .. Len(s) : s[k] \in Symbols
  BY ElementOfSeq
<1>2. \A k \in 1 .. Len(s) : <<s[k]>> \in Seq(Symbols)
  BY <1>1
<1>3. \A k \in 1 .. Len(s) : <<"Data", <<s[k]>>>> \in Pieces
  BY <1>2 DEF Pieces
<1>4. Data(s) \in [1 .. Len(s) -> Pieces]
  BY <1>3 DEF Data
<1> QED BY <1>1, <1>4

(* heard grows by new.                                                       *)
LEMMA Longer ==
    ASSUME heard \in Seq(Pieces), NEW new \in Seq(Pieces), heard' = heard \o new
    PROVE  /\ heard' \in Seq(Pieces)
           /\ heard' # heard => Len(heard') > Len(heard)
           /\ SubSeq(heard', 1, Len(heard)) = heard
<1>1. /\ heard' \in Seq(Pieces) /\ Len(heard') = Len(heard) + Len(new) /\ Len(heard) \in Nat /\ Len(new) \in Nat
      /\ \A i \in 1 .. Len(heard) : heard'[i] = heard[i]
  BY ConcatProperties, LenProperties
<1>2. heard' # heard => new # <<>>
  BY ConcatEmptySeq
<1>3. new # <<>> => Len(new) > 0
  BY EmptySeq
<1>4. SubSeq(heard', 1, Len(heard)) = heard
  <2>1. \A i \in 1 .. Len(heard) : heard'[i] \in Pieces
    BY <1>1, ElementOfSeq
  <2>2. /\ SubSeq(heard', 1, Len(heard)) \in Seq(Pieces)
        /\ Len(SubSeq(heard', 1, Len(heard))) = Len(heard)
        /\ \A i \in 1 .. Len(heard) : SubSeq(heard', 1, Len(heard))[i] = heard[i]
    BY <1>1, <2>1, SubSeqProperties
  <2> QED BY <2>2, SeqEqual
<1>5. heard' # heard => Len(heard') > Len(heard)
  BY <1>1, <1>2, <1>3
<1> QED BY <1>1, <1>4, <1>5

LEMMA OnePiece == ASSUME NEW piece \in Pieces PROVE <<piece>> \in Seq(Pieces)
OBVIOUS

(* What the callbacks of threadRead do.                                       *)
Grows == heard' = heard \/ (owned /\ \E new \in Seq(Pieces) : heard' = heard \o new)

LEMMA FireLineType ==
    ASSUME TypeOK, NEW l \in Seq(Symbols), NEW m \in Modes, FireLine(l, m)
    PROVE  mode' \in Modes /\ dataBytes' \in 0 .. DataSize /\ heard' \in Seq(Pieces) /\ Grows
<1> USE Parts
<1>1. <<"Line", l>> \in Pieces
  BY DEF Pieces
<1>2. <<<<"Line", l>>>> \in Seq(Pieces) /\ Append(heard, <<"Line", l>>) = heard \o <<<<"Line", l>>>>
  BY <1>1, OnePiece, AppendIsConcat DEF ReadTypes
<1>3. heard' \in Seq(Pieces) /\ Grows
  <2>1. CASE l = <<>> \/ ~owned
    BY <2>1 DEF FireLine, ReadTypes, Grows
  <2>2. CASE ~(l = <<>> \/ ~owned)
    <3>1. owned /\ heard' = heard \o <<<<"Line", l>>>>
      BY <1>2, <2>2 DEF FireLine
    <3> QED BY <1>2, <3>1, ConcatProperties DEF ReadTypes, Grows
  <2> QED BY <2>1, <2>2
<1>4. ModeFor(l, m) \in Modes
  BY DEF ModeFor, Modes
<1>5. DataSize \in 0 .. DataSize
  BY SocketAssumption
<1> QED BY <1>3, <1>4, <1>5 DEF FireLine, ReadTypes

LEMMA FireDataType ==
    ASSUME TypeOK, NEW s \in Seq(Symbols), FireData(s)
    PROVE  heard' \in Seq(Pieces) /\ Grows
BY DataType, ConcatProperties, Parts DEF FireData, ReadTypes, Grows

LEMMA ReadType ==
    ASSUME TypeOK, Read
    PROVE  TypeOK' /\ Grows
<1> USE Parts, PartsNext
<1>1. OwnerTypes' /\ SendTypes' /\ stream' = stream /\ got' = got /\ state' = state /\ up' = up
  BY OwnerUnchanged, SendUnchanged DEF Read
<1>2. ThreadTypes'
  BY <1>1 DEF Read, ReadLine, Unzip, UnzippedLine, ReadData, ReadFlow, EndOfRead, Goto, ThreadTypes, Places
<1> SUFFICES ReadTypes' /\ Grows
  BY <1>1, <1>2
<1> USE DEF ReadTypes
<1>3. CASE ReadLine
  <2> DEFINE i == IndexOf(inbuf, "|")
  <2>1. i \in Nat /\ i <= Len(inbuf) + 1
    BY IndexInSeq
  <2>2. inbuf' \in Seq(Symbols) /\ Before(inbuf, i) \in Seq(Symbols) /\ inbuf' = After(inbuf, i)
    BY <1>3, <2>1, CutSeq DEF ReadLine
  <2>3. CASE FireLine(line \o Before(inbuf, i), mode) /\ line' = <<>>
    <3>1. line \o Before(inbuf, i) \in Seq(Symbols)
      BY <2>2, ConcatProperties
    <3> QED BY <1>1, <2>2, <2>3, <3>1, FireLineType, EmptySeq
  <2>4. CASE line' = line \o inbuf /\ UNCHANGED <<mode, dataBytes, heard>>
    BY <1>1, <2>2, <2>4, ConcatProperties DEF Grows
  <2> QED BY <1>3, <2>3, <2>4 DEF ReadLine
<1>4. CASE Unzip
  <2> DEFINE i == IndexOf(inbuf, "e")
  <2>1. i \in Nat /\ i <= Len(inbuf) + 1
    BY IndexInSeq
  <2>2. After(inbuf, i) \in Seq(Symbols) /\ Before(inbuf, i) \in Seq(Symbols)
    BY <2>1, CutSeq
  <2>3. inbuf' = After(inbuf, i) /\ line' = line \o Before(inbuf, i) /\ mode' \in {"LINE", mode}
        /\ UNCHANGED <<dataBytes, heard>>
    BY <1>4 DEF Unzip
  <2> QED BY <1>1, <2>2, <2>3, ConcatProperties DEF Grows, Modes
<1>5. CASE UnzippedLine
  <2> DEFINE i == IndexOf(line, "|")
  <2>1. i \in Nat /\ i <= Len(line) + 1
    BY IndexInSeq
  <2>2. After(line, i) \in Seq(Symbols) /\ Before(line, i) \in Seq(Symbols) /\ inbuf' = inbuf
    BY <1>5, <2>1, CutSeq DEF UnzippedLine
  <2>3. CASE FireLine(Before(line, i), mode) /\ line' = After(line, i)
    BY <1>1, <2>2, <2>3, FireLineType
  <2>4. CASE UNCHANGED <<line, mode, dataBytes, heard>>
    BY <1>1, <2>2, <2>4 DEF Grows
  <2> QED BY <1>5, <2>3, <2>4 DEF UnzippedLine
<1>6. CASE ReadData
  <2> DEFINE high == IF dataBytes < Len(inbuf) THEN dataBytes ELSE Len(inbuf)
  <2>1. high \in Nat /\ high <= Len(inbuf) /\ high <= dataBytes /\ dataBytes \in Nat
    BY SocketAssumption
  <2>2. SubSeq(inbuf, 1, high) \in Seq(Symbols) /\ After(inbuf, high) \in Seq(Symbols)
    BY <2>1, CutSeq
  <2>3. /\ FireData(SubSeq(inbuf, 1, high)) /\ inbuf' = After(inbuf, high) /\ line' = line
        /\ dataBytes' = dataBytes - high /\ mode' \in {"LINE", mode}
    BY <1>6 DEF ReadData
  <2>4. dataBytes' \in 0 .. DataSize
    BY <2>1, <2>3, SocketAssumption
  <2>5. mode' \in Modes /\ heard' \in Seq(Pieces) /\ Grows
    BY <2>2, <2>3, FireDataType DEF Modes
  <2> QED BY <1>1, <2>2, <2>3, <2>4, <2>5
<1>7. CASE ReadFlow
  <2>1. /\ FireData(inbuf) /\ inbuf' = <<>> /\ line' = line /\ mode' \in {"LINE", mode}
        /\ dataBytes' = IF dataBytes < Len(inbuf) THEN 0 ELSE dataBytes - Len(inbuf)
    BY <1>7 DEF ReadFlow
  <2>2. dataBytes' \in 0 .. DataSize
    BY <2>1, SocketAssumption
  <2>3. mode' \in Modes /\ heard' \in Seq(Pieces) /\ Grows /\ inbuf' \in Seq(Symbols)
    BY <2>1, FireDataType, EmptySeq DEF Modes
  <2> QED BY <1>1, <2>1, <2>2, <2>3
<1>8. CASE EndOfRead
  BY <1>1, <1>8 DEF EndOfRead, Grows
<1> QED BY <1>3, <1>4, <1>5, <1>6, <1>7, <1>8 DEF Read

LEMMA TypeStep == TypeOK /\ [Next]_vars => TypeOK'
<1> SUFFICES ASSUME TypeOK, [Next]_vars PROVE TypeOK'
  OBVIOUS
<1>1. CASE UNCHANGED vars
  BY <1>1, Parts, PartsNext, OwnerUnchanged, ThreadUnchanged, SendUnchanged, ReadUnchanged DEF vars
<1> QED BY <1>1, OwnerType, EventsType, ConnectionType, ReadType DEF Next, Thread

(* Types hold of a socket for any streams, sizes and bounds.                   *)
THEOREM TypesAlways == Spec => []TypeOK
BY TypeInit, TypeStep, PTL DEF Spec

-----------------------------------------------------------------------------
(* Tasks.                                                                   *)

LEMMA PostTasks ==
    ASSUME tasks \in Seq(Tasks), NEW task \in Tasks, Post(task)
    PROVE  /\ ToSet(tasks') = ToSet(tasks) \cup {task}
           /\ Head(tasks') = IF tasks = <<>> THEN task ELSE Head(tasks)
           /\ tasks' # <<>>
           /\ Len(tasks) \in Nat /\ Len(tasks') = Len(tasks) + 1 /\ tasks'[Len(tasks) + 1] = task
           /\ \A i \in 1 .. Len(tasks) : tasks'[i] = tasks[i]
<1>1. /\ Len(tasks) \in Nat /\ DOMAIN tasks = 1 .. Len(tasks)
      /\ tasks' \in Seq(Tasks) /\ Len(tasks') = Len(tasks) + 1 /\ tasks' # <<>>
      /\ \A i \in 1 .. Len(tasks) : tasks'[i] = tasks[i]
      /\ tasks'[Len(tasks) + 1] = task /\ DOMAIN tasks' = 1 .. Len(tasks) + 1
  BY AppendProperties, LenProperties DEF Post
<1>2. Head(tasks') = IF tasks = <<>> THEN task ELSE Head(tasks)
  BY HeadTailAppend DEF Post
<1>3. ToSet(tasks') = {tasks'[i] : i \in 1 .. Len(tasks) + 1} /\ ToSet(tasks) = {tasks[i] : i \in 1 .. Len(tasks)}
  BY <1>1 DEF ToSet
<1>4. 1 .. Len(tasks) + 1 = (1 .. Len(tasks)) \cup {Len(tasks) + 1}
  BY <1>1
<1> QED BY <1>1, <1>2, <1>3, <1>4

LEMMA TailTasks ==
    ASSUME tasks \in Seq(Tasks), tasks # <<>>, tasks' = Tail(tasks)
    PROVE  /\ Head(tasks) \in ToSet(tasks) /\ Head(tasks) \in Tasks
           /\ ToSet(tasks') \subseteq ToSet(tasks) /\ ToSet(tasks) \subseteq ToSet(tasks') \cup {Head(tasks)}
           /\ Head(tasks) = tasks[1] /\ Len(tasks) \in Nat \ {0} /\ Len(tasks') = Len(tasks) - 1
           /\ \A i \in 1 .. Len(tasks) - 1 : tasks'[i] = tasks[i + 1]
<1>1. /\ Len(tasks) \in Nat \ {0} /\ DOMAIN tasks = 1 .. Len(tasks) /\ Head(tasks) = tasks[1]
      /\ Head(tasks) \in Tasks /\ tasks' \in Seq(Tasks) /\ Len(tasks') = Len(tasks) - 1
      /\ \A i \in 1 .. Len(tasks) - 1 : tasks'[i] = tasks[i + 1]
      /\ DOMAIN tasks' = 1 .. Len(tasks) - 1
  BY EmptySeq, HeadTailProperties, LenProperties
<1>2. ToSet(tasks') = {tasks'[i] : i \in 1 .. Len(tasks) - 1} /\ ToSet(tasks) = {tasks[i] : i \in 1 .. Len(tasks)}
  BY <1>1 DEF ToSet
<1>3. \A i \in 1 .. Len(tasks) : i # 1 => tasks[i] = tasks'[i - 1] /\ i - 1 \in 1 .. Len(tasks) - 1
  BY <1>1
<1>4. \A i \in 1 .. Len(tasks) - 1 : i + 1 \in 1 .. Len(tasks)
  BY <1>1
<1>5. Head(tasks) \in ToSet(tasks) /\ ToSet(tasks') \subseteq ToSet(tasks)
  BY <1>1, <1>2, <1>4
<1>6. ToSet(tasks) \subseteq ToSet(tasks') \cup {Head(tasks)}
  BY <1>1, <1>2, <1>3
<1> QED BY <1>1, <1>5, <1>6

LEMMA NoTasks == ToSet(<<>>) = {}
BY DEF ToSet

-----------------------------------------------------------------------------
(* The thread's life.                                                        *)

Working == {"polling", "sendingFile", "reading", "unzipped"}

(* Before the connection's task nothing waits; who works on a connection has one *)
(* that stands; and who was told to stop has a task that stops it.             *)
CallInv ==
    /\ state = "STARTING" => at \in {"events", "gone"} /\ ~up
    /\ state = "STARTING" /\ sock = "started" =>
          at = "events" /\ tasks # <<>> /\ Head(tasks) \in {"CONNECT", "ACCEPTED"}
    /\ state = "STARTING" /\ sock # "started" /\ owned => tasks = <<>>
    /\ state = "STARTING" /\ sock # "started" /\ ~owned /\ at = "events" =>
          tasks # <<>> /\ Head(tasks) = "SHUTDOWN"
    /\ at \in {"connecting", "accepting"} => state = "RUNNING" /\ ~up
    /\ at \in Working \cup {"sending"} => state = "RUNNING"
    /\ at \in Working \/ "SEND_FILE" \in ToSet(tasks) => up
    /\ state = "RUNNING" /\ ~up /\ at \notin {"connecting", "accepting", "gone"} => disconnecting
    /\ disconnecting /\ state # "FAILED" /\ at # "gone" =>
          "DISCONNECT" \in ToSet(tasks) \/ "SHUTDOWN" \in ToSet(tasks)
    /\ "SHUTDOWN" \in ToSet(tasks) \/ at = "gone" => ~owned
    /\ ~owned => disconnecting
    /\ back = "sendingFile" => up

LEMMA CallInit == Init => CallInv
BY NoTasks DEF Init, CallInv, Working

LEMMA OwnerCalls == "early" \notin Env /\ TypeOK /\ CallInv /\ Owner => CallInv'
<1> SUFFICES ASSUME "early" \notin Env, TypeOK, CallInv, Owner PROVE CallInv'
  OBVIOUS
<1> USE Parts
<1>1. UNCHANGED <<state, at, back, up>>
  BY DEF Owner, Bind, Start, Write, TransmitFile, Disconnect, Updated, PutSocket
<1>2. tasks \in Seq(Tasks)
  BY DEF OwnerTypes
<1>3. ASSUME NEW task \in Tasks, Post(task)
      PROVE  /\ ToSet(tasks') = ToSet(tasks) \cup {task} /\ tasks' # <<>>
             /\ Head(tasks') = IF tasks = <<>> THEN task ELSE Head(tasks)
  BY <1>2, <1>3, PostTasks
<1>4. CASE Bind
  BY <1>1, <1>4 DEF Bind, CallInv
<1>5. CASE Start
  <2>1. PICK task \in {"CONNECT", "ACCEPTED"} : Post(task)
    BY <1>5 DEF Start
  <2>2. /\ ToSet(tasks') = ToSet(tasks) \cup {task} /\ tasks' # <<>>
        /\ Head(tasks') = IF tasks = <<>> THEN task ELSE Head(tasks)
    BY <1>3, <2>1 DEF Tasks
  <2>3. sock' = "started" /\ sock = "bound" /\ owned /\ owned' /\ disconnecting' = disconnecting
    BY <1>5 DEF Start
  <2>4. at # "gone"
    BY <2>3 DEF CallInv
  <2> QED BY <1>1, <2>1, <2>2, <2>3, <2>4 DEF CallInv
<1>6. CASE Write
  <2>1. sock' = sock /\ sock = "started" /\ owned' = owned /\ disconnecting' = disconnecting
    BY <1>6 DEF Write, Usable
  <2>2. CASE UNCHANGED tasks
    BY <1>1, <2>1, <2>2 DEF CallInv
  <2>3. CASE Post("SEND_DATA")
    <3>1. /\ ToSet(tasks') = ToSet(tasks) \cup {"SEND_DATA"} /\ tasks' # <<>>
          /\ Head(tasks') = IF tasks = <<>> THEN "SEND_DATA" ELSE Head(tasks)
      BY <1>3, <2>3 DEF Tasks
    <3> QED BY <1>1, <2>1, <3>1 DEF CallInv
  <2> QED BY <1>6, <2>2, <2>3 DEF Write
<1>7. CASE TransmitFile \/ Updated \/ \E graceless \in BOOLEAN : Disconnect(graceless)
  <2>1. sock' = sock /\ sock = "started" /\ owned' = owned
    BY <1>7 DEF TransmitFile, Updated, Disconnect, Usable
  <2>2. PICK task \in {"SEND_FILE", "UPDATED", "DISCONNECT"} : Post(task) /\ (task = "SEND_FILE" => up)
           /\ (disconnecting' = disconnecting \/ task = "DISCONNECT")
    BY <1>7 DEF TransmitFile, Updated, Disconnect
  <2>3. /\ ToSet(tasks') = ToSet(tasks) \cup {task} /\ tasks' # <<>>
        /\ Head(tasks') = IF tasks = <<>> THEN task ELSE Head(tasks)
    BY <1>3, <2>2 DEF Tasks
  <2>4. disconnecting => disconnecting'
    BY <1>7 DEF TransmitFile, Updated, Disconnect
  <2> QED BY <1>1, <2>1, <2>2, <2>3, <2>4 DEF CallInv
<1>8. CASE PutSocket
  <2>1. /\ ToSet(tasks') = ToSet(tasks) \cup {"SHUTDOWN"} /\ tasks' # <<>>
        /\ Head(tasks') = IF tasks = <<>> THEN "SHUTDOWN" ELSE Head(tasks)
    BY <1>3, <1>8 DEF PutSocket, Tasks
  <2> QED BY <1>1, <1>8, <2>1 DEF PutSocket, CallInv
<1> QED BY <1>4, <1>5, <1>6, <1>7, <1>8 DEF Owner

LEMMA EventsCalls == TypeOK /\ CallInv /\ CheckEvents => CallInv'
<1> SUFFICES ASSUME TypeOK, CallInv, CheckEvents PROVE CallInv'
  OBVIOUS
<1> USE Parts
<1>1. /\ Head(tasks) \in ToSet(tasks) /\ Head(tasks) \in Tasks
      /\ ToSet(tasks') \subseteq ToSet(tasks) /\ ToSet(tasks) \subseteq ToSet(tasks') \cup {Head(tasks)}
  BY TailTasks DEF CheckEvents, OwnerTypes
<1>2. UNCHANGED <<sock, owned, disconnecting, up>> /\ at = "events" /\ tasks # <<>>
  BY DEF CheckEvents
<1>3. state \in {"STARTING", "RUNNING", "FAILED"}
  BY DEF ThreadTypes
<1>4. CASE Head(tasks) = "SHUTDOWN"
  <2>1. at' = "gone" /\ state' = state /\ back' = back
    BY <1>4 DEF CheckEvents, Handle, Goto, Unexpected
  <2>2. state = "STARTING" => sock # "started"
    BY <1>4 DEF CallInv
  <2> QED BY <1>1, <1>2, <1>4, <2>1, <2>2 DEF CallInv, Working
<1>5. CASE UNCHANGED <<state, at, back>> /\ Head(tasks) # "SHUTDOWN"
           /\ (Head(tasks) = "UPDATED" \/ Unexpected(Head(tasks)))
  <2>1. state # "STARTING"
    BY <1>2, <1>5 DEF CallInv, Unexpected
  <2>2. Head(tasks) = "DISCONNECT" => state = "FAILED"
    BY <1>3, <1>5, <2>1 DEF Unexpected
  <2> QED BY <1>1, <1>2, <1>5, <2>1, <2>2 DEF CallInv, Working
<1>6. CASE /\ ~Unexpected(Head(tasks)) /\ Head(tasks) \in {"CONNECT", "ACCEPTED"}
           /\ state' = "RUNNING" /\ at' \in {"connecting", "accepting"} /\ back' = back
  <2>1. state = "STARTING"
    BY <1>3, <1>6 DEF Unexpected
  <2> QED BY <1>1, <1>2, <1>6, <2>1 DEF CallInv, Working
<1>7. CASE /\ ~Unexpected(Head(tasks)) /\ Head(tasks) = "SEND_DATA" /\ UNCHANGED <<state, back>>
           /\ at' \in {"events", "sending"}
  <2>1. state = "RUNNING"
    BY <1>3, <1>7 DEF Unexpected
  <2> QED BY <1>1, <1>2, <1>7, <2>1 DEF CallInv, Working
<1>8. CASE /\ ~Unexpected(Head(tasks)) /\ Head(tasks) = "SEND_FILE" /\ UNCHANGED <<state, back>>
           /\ at' \in {"polling", "sendingFile"}
  <2>1. state = "RUNNING"
    BY <1>3, <1>8 DEF Unexpected
  <2> QED BY <1>1, <1>2, <1>8, <2>1 DEF CallInv, Working
<1>9. CASE ~Unexpected(Head(tasks)) /\ Head(tasks) = "DISCONNECT" /\ Fail
  <2>1. state = "RUNNING"
    BY <1>3, <1>9 DEF Unexpected
  <2>2. state' = "FAILED" /\ at' = "events" /\ back' = back
    BY <1>9, <2>1 DEF Fail, Goto
  <2> QED BY <1>1, <1>2, <2>1, <2>2 DEF CallInv, Working
<1> QED
  <2> DEFINE t == Head(tasks)
  <2>1. Handle(t)
    BY DEF CheckEvents
  <2>2. CASE t = "UPDATED" \/ Unexpected(t)
    <3>1. t # "SHUTDOWN" => UNCHANGED <<state, at, back>>
      BY <2>1, <2>2 DEF Handle, Unexpected
    <3> QED BY <1>4, <1>5, <2>2, <3>1
  <2>3. CASE ~Unexpected(t) /\ t = "SEND_DATA"
    <3>1. state = "RUNNING"
      BY <1>3, <2>3 DEF Unexpected
    <3>2. state' = state /\ back' = back /\ at' \in {"events", "sending"}
      BY <1>2, <2>1, <2>3 DEF Handle, Goto
    <3> QED BY <1>7, <2>3, <3>1, <3>2
  <2>4. CASE ~Unexpected(t) /\ t \in {"CONNECT", "ACCEPTED", "SEND_FILE", "DISCONNECT"}
    BY <1>6, <1>8, <1>9, <2>1, <2>4 DEF Handle, Goto
  <2> QED BY <1>1, <1>4, <2>2, <2>3, <2>4 DEF Tasks

LEMMA ConnectionCalls ==
    TypeOK /\ CallInv /\ (Connect \/ CheckSocket \/ Stop \/ Send \/ TransmitDone \/ Read) => CallInv'
<1> SUFFICES ASSUME TypeOK, CallInv, Connect \/ CheckSocket \/ Stop \/ Send \/ TransmitDone \/ Read PROVE CallInv'
  OBVIOUS
<1>1. UNCHANGED ownerVars
  BY DEF Connect, CheckSocket, Stop, Send, TransmitDone, Receive, Closed, Read
<1>2. UNCHANGED <<sock, owned, disconnecting, tasks>>
  BY <1>1 DEF ownerVars
<1>3. CASE Connect
  BY <1>2, <1>3 DEF Connect, Fail, Goto, CallInv, Working
<1>4. ASSUME NEW from \in {"events", "sending", "sendingFile"}, Receive(from), state = "RUNNING", up,
             at \notin {"connecting", "accepting", "gone"}
      PROVE  CallInv'
  BY <1>2, <1>4 DEF Receive, CallInv, Working
<1>5. ASSUME Closed, state = "RUNNING" PROVE CallInv'
  BY <1>2, <1>5 DEF Closed, Fail, Goto, CallInv, Working
<1>6. CASE CheckSocket
  <2>1. CASE at = "events" /\ tasks = <<>> /\ state = "RUNNING" /\ at' = "polling" /\ UNCHANGED <<state, up, back>>
    <3>1. up
      BY <2>1, NoTasks DEF CallInv
    <3> QED BY <1>2, <2>1, <3>1 DEF CallInv, Working
  <2>2. CASE at = "polling" /\ (Receive("events") \/ Closed)
    BY <1>4, <1>5, <2>2 DEF CallInv, Working
  <2>3. CASE at = "polling" /\ at' = "events" /\ UNCHANGED <<state, up, back>>
    BY <1>2, <2>3 DEF CallInv, Working
  <2> QED BY <1>6, <2>1, <2>2, <2>3 DEF CheckSocket, Goto
<1>7. CASE Stop \/ TransmitDone
  BY <1>2, <1>7 DEF Stop, TransmitDone, Goto, CallInv, Working
<1>8. CASE Send
  <2>1. CASE (at = "sending" /\ Receive("sending")) \/ (at = "sendingFile" /\ Receive("sendingFile"))
    BY <1>4, <1>8, <2>1 DEF Send, CallInv, Working
  <2>2. CASE at \in {"sending", "sendingFile"} /\ Closed
    BY <1>5, <2>2 DEF CallInv, Working
  <2>3. CASE /\ at = "sending" /\ sendBuf # <<>>
             /\ wire' = Append(wire, Head(sendBuf)) /\ sendBuf' = Tail(sendBuf)
             /\ Goto(IF Len(sendBuf) = 1 THEN "events" ELSE "sending")
             /\ UNCHANGED <<ownerVars, state, up, file, readVars>>
    <3>1. at' \in {"events", "sending"} /\ UNCHANGED <<state, up, back>>
      BY <2>3 DEF Goto
    <3> QED BY <1>2, <1>8, <2>3, <3>1 DEF Send, CallInv, Working
  <2>4. CASE /\ at = "sendingFile" /\ file > 0
             /\ wire' = Append(wire, FilePiece) /\ file' = file - 1
             /\ UNCHANGED <<ownerVars, state, at, back, up, sendBuf, readVars>>
    BY <1>2, <2>4 DEF CallInv, Working
  <2> QED BY <1>8, <2>1, <2>2, <2>3, <2>4 DEF Send
<1>9. CASE Read
  <2>1. at \in {"reading", "unzipped"} /\ UNCHANGED <<state, up, back>>
    BY <1>9 DEF Read, ReadLine, Unzip, UnzippedLine, ReadData, ReadFlow, EndOfRead, Goto
  <2>2. at' \in {"reading", "unzipped", back}
    BY <1>9 DEF Read, ReadLine, Unzip, UnzippedLine, ReadData, ReadFlow, EndOfRead, Goto
  <2>3. back \in {"events", "sending", "sendingFile"}
    BY Parts DEF ThreadTypes
  <2> QED BY <1>2, <2>1, <2>2, <2>3 DEF CallInv, Working
<1> QED BY <1>3, <1>6, <1>7, <1>8, <1>9

LEMMA CallStep == "early" \notin Env /\ TypeOK /\ CallInv /\ [Next]_vars => CallInv'
<1> SUFFICES ASSUME "early" \notin Env, TypeOK, CallInv, [Next]_vars PROVE CallInv'
  OBVIOUS
<1>1. CASE UNCHANGED vars
  BY <1>1 DEF vars, ownerVars, CallInv
<1> QED BY <1>1, OwnerCalls, EventsCalls, ConnectionCalls DEF Next, Thread

LEMMA CallAlways == ASSUME "early" \notin Env PROVE Spec => [](TypeOK /\ CallInv)
<1>1. TypeOK /\ CallInv /\ [Next]_vars => CallInv'
  BY CallStep
<1> QED BY <1>1, TypeInit, TypeStep, CallInit, PTL DEF Spec

-----------------------------------------------------------------------------
(* The socket keeps its promises.                                            *)

LEMMA CallsInit == Init => Calls!Init
BY DEF Init, Calls!Init, Life

(* A life that stays and a step that calls nobody.                            *)
LEMMA Silent ==
    ASSUME UNCHANGED <<state, at, up, owned, disconnecting, heard>>
    PROVE  UNCHANGED Calls!vars
BY DEF Calls!vars, Life

LEMMA MoveIsCall ==
    ASSUME UNCHANGED <<owned, disconnecting, heard>>, <<Life, Life'>> \in Calls!Moves,
           Life' = "gone" => ~owned
    PROVE  Calls!Next
<1>1. Life' \in {"trying", "up", "over", "gone"}
  BY DEF Calls!Moves
<1>2. CASE Life' = "gone"
  BY <1>2 DEF Calls!Next, Calls!Delete, Calls!Step
<1>3. CASE Life' \in {"trying", "up", "over"}
  BY <1>3 DEF Calls!Next, Calls!Call, Calls!Step
<1> QED BY <1>1, <1>2, <1>3

LEMMA FailIsCall ==
    ASSUME TypeOK, CallInv, Fail, UNCHANGED <<owned, disconnecting, heard, up>>, state = "RUNNING", at # "gone"
    PROVE  Calls!Next
<1>1. Life \in {"trying", "up"} /\ Life' = "over"
  BY DEF Fail, Goto, Life
<1>2. <<Life, Life'>> \in Calls!Moves
  BY <1>1 DEF Calls!Moves
<1> QED BY <1>1, <1>2, MoveIsCall

LEMMA OwnerKeeps == TypeOK /\ CallInv /\ Owner => [Calls!Next]_(Calls!vars)
<1> SUFFICES ASSUME TypeOK, CallInv, Owner PROVE Calls!Next \/ UNCHANGED Calls!vars
  OBVIOUS
<1>1. UNCHANGED <<state, at, up, heard>>
  BY DEF Owner, Bind, Start, Write, TransmitFile, Disconnect, Updated, PutSocket, readVars
<1>2. Life' = Life
  BY <1>1 DEF Life
<1>3. CASE UNCHANGED <<owned, disconnecting>>
  BY <1>1, <1>3, Silent
<1>4. CASE owned' \in {owned, FALSE} /\ disconnecting' = TRUE
  BY <1>1, <1>2, <1>4 DEF Calls!Next, Calls!Leave
<1>5. UNCHANGED <<owned, disconnecting>> \/ (owned' \in {owned, FALSE} /\ disconnecting' = TRUE)
  BY Parts DEF Owner, Bind, Start, Write, TransmitFile, Disconnect, Updated, PutSocket, OwnerTypes
<1> QED BY <1>3, <1>4, <1>5

LEMMA EventsKeep == TypeOK /\ CallInv /\ CheckEvents => [Calls!Next]_(Calls!vars)
<1> SUFFICES ASSUME TypeOK, CallInv, CheckEvents PROVE Calls!Next \/ UNCHANGED Calls!vars
  OBVIOUS
<1> DEFINE t == Head(tasks)
<1>1. UNCHANGED <<owned, disconnecting, heard, up>> /\ Handle(t) /\ at = "events" /\ tasks # <<>>
  BY DEF CheckEvents, readVars
<1>2. t \in Tasks /\ t \in ToSet(tasks)
  BY TailTasks, Parts DEF CheckEvents, OwnerTypes
<1>3. state \in {"STARTING", "RUNNING", "FAILED"}
  BY Parts DEF ThreadTypes
<1>4. CASE t = "SHUTDOWN"
  <2>1. at' = "gone" /\ ~owned
    BY <1>1, <1>2, <1>4 DEF Handle, Goto, Unexpected, CallInv
  <2>2. Life' = "gone" /\ Life \in {"new", "trying", "up", "over"}
    BY <1>1, <2>1 DEF Life
  <2> QED BY <1>1, <2>1, <2>2, MoveIsCall DEF Calls!Moves
<1>5. CASE t = "UPDATED" \/ Unexpected(t)
  <2>1. UNCHANGED <<state, at>>
    BY <1>1, <1>5 DEF Handle, Unexpected
  <2> QED BY <1>1, <2>1, Silent
<1>6. CASE ~Unexpected(t) /\ t \in {"CONNECT", "ACCEPTED"}
  <2>1. state = "STARTING" /\ state' = "RUNNING" /\ at' \in {"connecting", "accepting"}
    BY <1>1, <1>3, <1>6 DEF Handle, Goto, Unexpected
  <2>2. Life = "new" /\ Life' = "trying"
    BY <1>1, <2>1 DEF Life, CallInv
  <2> QED BY <1>1, <2>2, MoveIsCall DEF Calls!Moves
<1>7. CASE ~Unexpected(t) /\ t \in {"SEND_DATA", "SEND_FILE"}
  <2>1. state' = state /\ at' # "gone"
    BY <1>1, <1>7 DEF Handle, Goto, Unexpected
  <2>2. UNCHANGED <<Life, owned, disconnecting, heard>>
    BY <1>1, <2>1 DEF Life
  <2> QED BY <2>2 DEF Calls!vars
<1>8. CASE ~Unexpected(t) /\ t = "DISCONNECT"
  <2>1. Fail /\ state = "RUNNING"
    BY <1>1, <1>3, <1>8 DEF Handle, Unexpected
  <2> QED BY <1>1, <2>1, FailIsCall
<1> QED BY <1>2, <1>4, <1>5, <1>6, <1>7, <1>8 DEF Tasks

LEMMA ConnectionKeeps ==
    TypeOK /\ CallInv /\ (Connect \/ CheckSocket \/ Stop \/ Send \/ TransmitDone) => [Calls!Next]_(Calls!vars)
<1> SUFFICES ASSUME TypeOK, CallInv, Connect \/ CheckSocket \/ Stop \/ Send \/ TransmitDone
             PROVE  Calls!Next \/ UNCHANGED Calls!vars
  OBVIOUS
<1>1. UNCHANGED <<owned, disconnecting, heard>>
  BY DEF Connect, CheckSocket, Stop, Send, TransmitDone, Receive, Closed, ownerVars, readVars
<1>2. at # "gone" /\ (at # "events" => state = "RUNNING")
  BY DEF Connect, CheckSocket, Stop, Send, TransmitDone, Receive, Closed, CallInv, Working
<1>3. ASSUME UNCHANGED <<state, up>>, at' # "gone" PROVE Calls!Next \/ UNCHANGED Calls!vars
  <2>1. Life' = Life
    BY <1>2, <1>3 DEF Life
  <2> QED BY <1>1, <2>1 DEF Calls!vars
<1>4. CASE Connect
  <2>1. CASE up' = TRUE /\ Goto("events") /\ UNCHANGED state
    <3>1. Life = "trying" /\ Life' = "up"
      BY <1>4, <2>1 DEF Connect, Goto, Life, CallInv
    <3> QED BY <1>1, <3>1, MoveIsCall DEF Calls!Moves
  <2>2. CASE disconnecting /\ Goto("events") /\ UNCHANGED <<state, up>>
    BY <1>3, <2>2 DEF Goto
  <2>3. CASE Fail /\ UNCHANGED up
    BY <1>1, <1>2, <1>4, <2>3, FailIsCall DEF Connect
  <2> QED BY <1>4, <2>1, <2>2, <2>3 DEF Connect
<1>5. ASSUME Closed, at # "events" PROVE Calls!Next
  BY <1>1, <1>2, <1>5, FailIsCall DEF Closed
<1>6. ASSUME NEW from, Receive(from) PROVE Calls!Next \/ UNCHANGED Calls!vars
  BY <1>3, <1>6 DEF Receive
<1>7. CASE CheckSocket
  BY <1>3, <1>5, <1>6, <1>7 DEF CheckSocket, Goto
<1>8. CASE Stop \/ TransmitDone
  BY <1>3, <1>8 DEF Stop, TransmitDone, Goto
<1>9. CASE Send
  BY <1>2, <1>3, <1>5, <1>6, <1>9 DEF Send, Goto
<1> QED BY <1>4, <1>7, <1>8, <1>9

LEMMA ReadKeeps == TypeOK /\ CallInv /\ Read => [Calls!Next]_(Calls!vars)
<1> SUFFICES ASSUME TypeOK, CallInv, Read PROVE Calls!Next \/ UNCHANGED Calls!vars
  OBVIOUS
<1>1. at \in {"reading", "unzipped"} /\ at' \in {"reading", "unzipped", back}
  BY DEF Read, ReadLine, Unzip, UnzippedLine, ReadData, ReadFlow, EndOfRead, Goto
<1>2. state = "RUNNING" /\ up /\ at' # "gone"
  BY <1>1, Parts DEF CallInv, Working, ThreadTypes
<1>3. UNCHANGED <<owned, disconnecting, state, up>>
  BY DEF Read, ownerVars
<1>4. Life = "up" /\ Life' = Life
  BY <1>1, <1>2, <1>3 DEF Life
<1>5. heard' = heard \/ (owned /\ Len(heard') > Len(heard) /\ SubSeq(heard', 1, Len(heard)) = heard)
  BY ReadType, Longer, Parts DEF Grows, ReadTypes
<1>6. CASE heard' = heard
  BY <1>3, <1>4, <1>6 DEF Calls!vars
<1>7. CASE owned /\ Len(heard') > Len(heard) /\ SubSeq(heard', 1, Len(heard)) = heard
  BY <1>3, <1>4, <1>7 DEF Calls!Next, Calls!Hear
<1> QED BY <1>5, <1>6, <1>7

LEMMA CallsStep == TypeOK /\ CallInv /\ [Next]_vars => [Calls!Next]_(Calls!vars)
<1> SUFFICES ASSUME TypeOK, CallInv, [Next]_vars PROVE [Calls!Next]_(Calls!vars)
  OBVIOUS
<1>1. CASE UNCHANGED vars
  BY <1>1, Silent DEF vars, ownerVars, readVars
<1> QED BY <1>1, OwnerKeeps, EventsKeep, ConnectionKeeps, ReadKeeps DEF Next, Thread

(* Unless it is used before connect, a socket keeps every promise of SocketCalls  *)
(* but the ends, which need fairness: the order of the callbacks, and silence.  *)
THEOREM CallsAreKept == ASSUME "early" \notin Env PROVE Spec => Calls!Spec
<1>1. Spec => [](TypeOK /\ CallInv)
  BY CallAlways
<1> QED BY <1>1, CallsInit, CallsStep, PTL DEF Spec, Calls!Spec

-----------------------------------------------------------------------------
(* What waits has a task.                                                    *)

Alive == state # "FAILED" /\ ~disconnecting
InSend == at = "sending" \/ (at \in {"reading", "unzipped"} /\ back = "sending")
InFile == at = "sendingFile" \/ (at \in {"reading", "unzipped"} /\ back = "sendingFile")

(* Besides, the buffer that is sent is empty once it was sent, so that the       *)
(* buffer that writes fill is empty after the exchange.                        *)
WaitInv ==
    /\ Alive /\ writeBuf # <<>> => "SEND_DATA" \in ToSet(tasks)
    /\ Alive /\ ~InSend => sendBuf = <<>>

LEMMA WaitInit == Init => WaitInv
BY DEF Init, WaitInv, InSend

LEMMA OwnerWaits == TypeOK /\ WaitInv /\ Owner => WaitInv'
<1> SUFFICES ASSUME TypeOK, WaitInv, Owner PROVE WaitInv'
  OBVIOUS
<1>1. UNCHANGED <<state, at, back, sendBuf>> /\ (disconnecting => disconnecting')
  BY Parts DEF Owner, Bind, Start, Write, TransmitFile, Disconnect, Updated, PutSocket, sendVars, OwnerTypes
<1>2. ToSet(tasks) \subseteq ToSet(tasks') /\ (Post("SEND_DATA") => "SEND_DATA" \in ToSet(tasks'))
  <2>1. UNCHANGED tasks \/ \E task \in Tasks : Post(task)
    BY DEF Owner, Bind, Start, Write, TransmitFile, Disconnect, Updated, PutSocket, Tasks
  <2> QED BY <2>1, PostTasks, Parts DEF OwnerTypes, Tasks
<1>3. writeBuf' = writeBuf \/ writeBuf # <<>> \/ Post("SEND_DATA")
  BY DEF Owner, Bind, Start, Write, TransmitFile, Disconnect, Updated, PutSocket
<1> QED BY <1>1, <1>2, <1>3 DEF WaitInv, Alive, InSend

LEMMA EventsWait == TypeOK /\ CallInv /\ WaitInv /\ CheckEvents => WaitInv'
<1> SUFFICES ASSUME TypeOK, CallInv, WaitInv, CheckEvents PROVE WaitInv'
  OBVIOUS
<1> DEFINE t == Head(tasks)
<1>1. disconnecting' = disconnecting /\ Handle(t) /\ at = "events" /\ tasks # <<>>
  BY DEF CheckEvents
<1>2. /\ t \in Tasks /\ t \in ToSet(tasks) /\ tasks' = Tail(tasks)
      /\ ToSet(tasks) \subseteq ToSet(tasks') \cup {t}
  BY TailTasks, Parts DEF CheckEvents, OwnerTypes
<1>3. state \in {"STARTING", "RUNNING", "FAILED"}
  BY Parts DEF ThreadTypes
<1>4. Alive' => Alive /\ sendBuf = <<>>
  BY <1>1, <1>3 DEF Handle, Fail, Unexpected, Alive, WaitInv, InSend
<1>5. CASE t # "SEND_DATA"
  <2>1. UNCHANGED <<writeBuf, sendBuf>>
    BY <1>1, <1>5 DEF Handle, sendVars
  <2> QED BY <1>2, <1>4, <1>5, <2>1 DEF WaitInv
<1>6. CASE t = "SEND_DATA" /\ state = "RUNNING"
  <2>1. ~Unexpected(t)
    BY <1>6 DEF Unexpected
  <2>2. IF writeBuf = <<>> THEN UNCHANGED <<writeBuf, sendBuf, at, back>>
        ELSE writeBuf' = sendBuf /\ sendBuf' = writeBuf /\ Goto("sending")
    BY <1>1, <1>6, <2>1 DEF Handle
  <2> QED BY <1>4, <2>2 DEF WaitInv, InSend, Goto
<1>7. CASE t = "SEND_DATA" /\ state = "STARTING"
  BY <1>1, <1>2, <1>7 DEF CallInv
<1>8. CASE t = "SEND_DATA" /\ state = "FAILED"
  <2>1. state' = "FAILED"
    BY <1>1, <1>8 DEF Handle, Unexpected
  <2> QED BY <2>1 DEF WaitInv, Alive
<1> QED BY <1>3, <1>5, <1>6, <1>7, <1>8

LEMMA ConnectionWaits ==
    TypeOK /\ CallInv /\ WaitInv /\ (Connect \/ CheckSocket \/ Stop \/ Send \/ TransmitDone \/ Read) => WaitInv'
<1> SUFFICES ASSUME TypeOK, CallInv, WaitInv, Connect \/ CheckSocket \/ Stop \/ Send \/ TransmitDone \/ Read
             PROVE  WaitInv'
  OBVIOUS
<1>1. UNCHANGED <<disconnecting, tasks, writeBuf>>
  BY DEF Connect, CheckSocket, Stop, Send, TransmitDone, Receive, Closed, Read, ownerVars
<1>2. ASSUME Fail, state = "RUNNING" PROVE WaitInv'
  BY <1>1, <1>2 DEF Fail, WaitInv, Alive
<1>3. ASSUME UNCHANGED <<state, sendBuf>>, InSend => InSend' \/ disconnecting PROVE WaitInv'
  BY <1>1, <1>3 DEF WaitInv, Alive
<1>4. CASE Connect
  <2>1. state = "RUNNING" /\ ~InSend /\ UNCHANGED sendBuf /\ (Fail \/ UNCHANGED state)
    BY <1>4 DEF Connect, CallInv, InSend, sendVars
  <2>2. CASE UNCHANGED state
    BY <1>3, <2>1, <2>2
  <2> QED BY <1>2, <2>1, <2>2
<1>5. ASSUME NEW from \in {"events", "sending", "sendingFile"}, Receive(from),
             at = from \/ (from = "events" /\ at = "polling")
      PROVE  WaitInv'
  BY <1>3, <1>5 DEF Receive, InSend, sendVars
<1>6. CASE CheckSocket
  <2>1. CASE at = "polling" /\ Receive("events")
    BY <1>5, <2>1
  <2>2. CASE at = "polling" /\ Closed
    BY <1>2, <2>2 DEF Closed, CallInv, Working
  <2>3. CASE at \in {"events", "polling"} /\ UNCHANGED <<state, sendVars>>
    BY <1>3, <2>3 DEF InSend, sendVars
  <2> QED BY <1>6, <2>1, <2>2, <2>3 DEF CheckSocket
<1>7. CASE Stop \/ TransmitDone
  BY <1>3, <1>7 DEF Stop, TransmitDone, InSend, sendVars
<1>8. CASE Send
  <2>1. CASE \E from \in {"sending", "sendingFile"} : at = from /\ Receive(from)
    BY <1>5, <2>1
  <2>2. CASE at \in {"sending", "sendingFile"} /\ Closed
    BY <1>2, <2>2 DEF Closed, CallInv, Working
  <2>3. CASE /\ at = "sending" /\ sendBuf # <<>>
             /\ wire' = Append(wire, Head(sendBuf)) /\ sendBuf' = Tail(sendBuf)
             /\ Goto(IF Len(sendBuf) = 1 THEN "events" ELSE "sending")
             /\ UNCHANGED <<ownerVars, state, up, file, readVars>>
    <3>1. Len(sendBuf) = 1 => Tail(sendBuf) = <<>>
      <4>1. sendBuf \in Seq(Nat)
        BY Parts DEF SendTypes
      <4>2. Tail(sendBuf) \in Seq(Nat) /\ Len(Tail(sendBuf)) = Len(sendBuf) - 1
        BY <2>3, <4>1, HeadTailProperties
      <4>3. Tail(sendBuf) # <<>> => Len(Tail(sendBuf)) \in Nat \ {0}
        BY <4>2, EmptySeq
      <4>4. Len(sendBuf) = 1 => Len(Tail(sendBuf)) = 0
        BY <4>2
      <4> QED BY <4>3, <4>4
    <3> QED BY <1>1, <2>3, <3>1 DEF Goto, WaitInv, Alive, InSend
  <2>4. CASE /\ at = "sendingFile" /\ file > 0
             /\ wire' = Append(wire, FilePiece) /\ file' = file - 1
             /\ UNCHANGED <<ownerVars, state, at, back, up, sendBuf, readVars>>
    BY <1>3, <2>4 DEF InSend
  <2> QED BY <1>8, <2>1, <2>2, <2>3, <2>4 DEF Send
<1>9. CASE Read
  <2>1. UNCHANGED <<state, back, sendBuf>> /\ at' \in {"reading", "unzipped", back}
    BY <1>9 DEF Read, ReadLine, Unzip, UnzippedLine, ReadData, ReadFlow, EndOfRead, Goto, sendVars
  <2>2. at \in {"reading", "unzipped"}
    BY <1>9 DEF Read, ReadLine, Unzip, UnzippedLine, ReadData, ReadFlow, EndOfRead
  <2> QED BY <1>3, <2>1, <2>2 DEF InSend
<1> QED BY <1>4, <1>6, <1>7, <1>8, <1>9

LEMMA WaitStep == TypeOK /\ CallInv /\ WaitInv /\ [Next]_vars => WaitInv'
<1> SUFFICES ASSUME TypeOK, CallInv, WaitInv, [Next]_vars PROVE WaitInv'
  OBVIOUS
<1>1. CASE UNCHANGED vars
  BY <1>1 DEF vars, ownerVars, sendVars, WaitInv, Alive, InSend
<1> QED BY <1>1, OwnerWaits, EventsWait, ConnectionWaits DEF Next, Thread

LEMMA WaitAlways == ASSUME "early" \notin Env PROVE Spec => [](TypeOK /\ CallInv /\ WaitInv)
<1>1. Spec => [](TypeOK /\ CallInv)
  BY CallAlways
<1> QED BY <1>1, WaitInit, WaitStep, PTL DEF Spec

(* Unless a socket is written to before connect, all that waits is sent one day:   *)
(* no write is forgotten, however many threads write while the thread sends.    *)
THEOREM WaitingIsScheduledAlways == ASSUME "early" \notin Env PROVE Spec => []WaitingIsScheduled
<1>1. WaitInv => WaitingIsScheduled
  BY DEF WaitInv, Alive, WaitingIsScheduled
<1> QED BY <1>1, WaitAlways, PTL

-----------------------------------------------------------------------------
(* What is sent, in which order: sequences of pieces.                          *)

Zeros(n) == [i \in 1 .. n |-> FilePiece]

LEMMA ZerosType == ASSUME NEW n \in Nat PROVE Zeros(n) \in Seq(Nat) /\ Len(Zeros(n)) = n
BY DEF Zeros, FilePiece

LEMMA NoZeros == Zeros(0) = <<>>
<1>1. Zeros(0) \in Seq(Nat) /\ Len(Zeros(0)) = 0
  BY ZerosType
<1>2. Zeros(0) # <<>> => Len(Zeros(0)) \in Nat \ {0}
  BY <1>1, EmptySeq
<1> QED BY <1>1, <1>2

LEMMA FirstZero == ASSUME NEW n \in Nat, n > 0 PROVE Zeros(n) = <<FilePiece>> \o Zeros(n - 1)
<1>1. <<FilePiece>> \in Seq(Nat) /\ Len(<<FilePiece>>) = 1 /\ <<FilePiece>>[1] = FilePiece
  BY DEF FilePiece
<1>2. Zeros(n - 1) \in Seq(Nat) /\ Len(Zeros(n - 1)) = n - 1 /\ Zeros(n) \in Seq(Nat) /\ Len(Zeros(n)) = n
  BY ZerosType
<1>3. /\ <<FilePiece>> \o Zeros(n - 1) \in Seq(Nat) /\ Len(<<FilePiece>> \o Zeros(n - 1)) = n
      /\ \A i \in 1 .. n : (<<FilePiece>> \o Zeros(n - 1))[i] =
                              IF i <= 1 THEN <<FilePiece>>[i] ELSE Zeros(n - 1)[i - 1]
  BY <1>1, <1>2, ConcatProperties
<1>4. \A i \in 1 .. n : Zeros(n)[i] = FilePiece /\ (i > 1 => Zeros(n - 1)[i - 1] = FilePiece)
  BY DEF Zeros
<1>5. \A z \in Seq(Nat) :
         Len(z) = n /\ (\A i \in 1 .. n : z[i] = IF i <= 1 THEN <<FilePiece>>[i] ELSE Zeros(n - 1)[i - 1])
         => z = Zeros(n)
  <2> SUFFICES ASSUME NEW z \in Seq(Nat), Len(z) = n,
                      \A i \in 1 .. n : z[i] = IF i <= 1 THEN <<FilePiece>>[i] ELSE Zeros(n - 1)[i - 1]
               PROVE  z = Zeros(n)
    OBVIOUS
  <2>1. \A i \in 1 .. n : z[i] = Zeros(n)[i]
    BY <1>1, <1>4
  <2> QED BY <1>2, <2>1, SeqEqual
<1> QED BY <1>3, <1>5, Zenon

LEMMA HeadAndTail == ASSUME NEW s \in Seq(Nat), s # <<>> PROVE s = <<Head(s)>> \o Tail(s) /\ <<Head(s)>> \in Seq(Nat)
<1>1. Head(s) \in Nat /\ Tail(s) \in Seq(Nat) /\ Len(s) \in Nat \ {0} /\ s[1] \in Nat /\ Head(s) = s[1]
  BY HeadTailProperties, EmptySeq, ElementOfSeq
<1>2. SubSeq(s, 1, Len(s)) = <<s[1]>> \o SubSeq(s, 2, Len(s))
  <2>1. 1 \in 1 .. Len(s) /\ Len(s) \in 1 .. Len(s)
    BY <1>1
  <2> QED BY <2>1, SubSeqRecursiveFirst
<1> QED BY <1>1, <1>2, SubSeqFull, TailIsSubSeq

(* Concatenation by its laws alone, which the provers do better without the       *)
(* definition.                                                              *)
Cat(x, y) == x \o y
One(n) == <<n>>

LEMMA CatAssoc ==
    ASSUME NEW x \in Seq(Nat), NEW y \in Seq(Nat), NEW z \in Seq(Nat)
    PROVE  Cat(Cat(x, y), z) = Cat(x, Cat(y, z))
BY ConcatAssociative, SMTT(30) DEF Cat

LEMMA CatLaws ==
    /\ \A x, y \in Seq(Nat) : Cat(x, y) \in Seq(Nat)
    /\ \A x, y, z \in Seq(Nat) : Cat(Cat(x, y), z) = Cat(x, Cat(y, z))
    /\ \A x \in Seq(Nat) : Cat(x, <<>>) = x /\ Cat(<<>>, x) = x
    /\ \A n \in Nat : One(n) \in Seq(Nat)
    /\ \A x \in Seq(Nat), n \in Nat : Append(x, n) = Cat(x, One(n))
<1>1. ASSUME NEW x \in Seq(Nat), NEW y \in Seq(Nat) PROVE Cat(x, y) \in Seq(Nat)
  BY ConcatProperties DEF Cat
<1>2. ASSUME NEW x \in Seq(Nat), NEW y \in Seq(Nat), NEW z \in Seq(Nat)
      PROVE  Cat(Cat(x, y), z) = Cat(x, Cat(y, z))
  BY <1>2, CatAssoc
<1>3. ASSUME NEW x \in Seq(Nat) PROVE Cat(x, <<>>) = x /\ Cat(<<>>, x) = x
  BY ConcatEmptySeq DEF Cat
<1>4. ASSUME NEW n \in Nat PROVE One(n) \in Seq(Nat)
  BY DEF One
<1>5. ASSUME NEW x \in Seq(Nat), NEW n \in Nat PROVE Append(x, n) = Cat(x, One(n))
  BY AppendIsConcat DEF Cat, One
<1> QED BY <1>1, <1>2, <1>3, <1>4, <1>5

LEMMA HeadCat ==
    ASSUME NEW s \in Seq(Nat), s # <<>>
    PROVE  s = Cat(One(Head(s)), Tail(s)) /\ Head(s) \in Nat /\ Tail(s) \in Seq(Nat)
BY HeadAndTail, HeadTailProperties DEF Cat, One

LEMMA ZeroCat == ASSUME NEW n \in Nat, n > 0 PROVE Zeros(n) = Cat(One(FilePiece), Zeros(n - 1))
BY FirstZero DEF Cat, One

(* What was sent is a prefix of what is completed by a rest.                   *)
LEMMA RestPrefix ==
    ASSUME NEW w \in Seq(Nat), NEW r \in Seq(Nat)
    PROVE  IsPrefix(w, Cat(w, r))
<1> USE DEF Cat
<1>1. /\ w \o r \in Seq(Nat) /\ Len(w \o r) = Len(w) + Len(r) /\ Len(w) \in Nat /\ Len(r) \in Nat
      /\ \A i \in 1 .. Len(w) : (w \o r)[i] = w[i] /\ (w \o r)[i] \in Nat /\ w[i] \in Nat
  BY ConcatProperties, LenProperties, ElementOfSeq
<1>2. /\ SubSeq(w, 1, Len(w)) \in Seq(Nat) /\ Len(SubSeq(w, 1, Len(w))) = Len(w)
      /\ \A i \in 1 .. Len(w) : SubSeq(w, 1, Len(w))[i] = w[i]
  BY <1>1, SubSeqProperties
<1>3. /\ SubSeq(w \o r, 1, Len(w)) \in Seq(Nat) /\ Len(SubSeq(w \o r, 1, Len(w))) = Len(w)
      /\ \A i \in 1 .. Len(w) : SubSeq(w \o r, 1, Len(w))[i] = (w \o r)[i]
  BY <1>1, SubSeqProperties
<1>4. SubSeq(w, 1, Len(w)) = SubSeq(w \o r, 1, Len(w))
  BY <1>1, <1>2, <1>3, SeqEqual
<1> QED BY <1>1, <1>4 DEF IsPrefix

LEMMA Regrouped ==
    ASSUME NEW w \in Seq(Nat), NEW h \in Seq(Nat), NEW t \in Seq(Nat), NEW r \in Seq(Nat)
    PROVE  Cat(w, Cat(Cat(h, t), r)) = Cat(Cat(w, h), Cat(t, r))
<1>1. Cat(Cat(h, t), r) = Cat(h, Cat(t, r)) /\ Cat(t, r) \in Seq(Nat)
  BY CatLaws, Zenon
<1>2. Cat(Cat(w, h), Cat(t, r)) = Cat(w, Cat(h, Cat(t, r)))
  BY <1>1, CatLaws, Zenon
<1> QED BY <1>1, <1>2

(* A piece is written, a piece is sent.                                       *)
LEMMA PieceWritten ==
    ASSUME NEW w \in Seq(Nat), NEW s \in Seq(Nat), NEW b \in Seq(Nat), NEW n \in Nat
    PROVE  Append(Cat(w, Cat(s, b)), n) = Cat(w, Cat(s, Append(b, n)))
<1>1. /\ Cat(s, b) \in Seq(Nat) /\ Cat(w, Cat(s, b)) \in Seq(Nat) /\ One(n) \in Seq(Nat)
      /\ Append(b, n) = Cat(b, One(n))
  BY CatLaws, Zenon
<1>2. Append(Cat(w, Cat(s, b)), n) = Cat(Cat(w, Cat(s, b)), One(n))
  BY <1>1, CatLaws, Zenon
<1>3. Cat(Cat(w, Cat(s, b)), One(n)) = Cat(w, Cat(Cat(s, b), One(n)))
  BY <1>1, CatAssoc, SMTT(30)
<1>4. Cat(Cat(s, b), One(n)) = Cat(s, Cat(b, One(n)))
  BY <1>1, CatAssoc, SMTT(30)
<1> QED BY <1>1, <1>2, <1>3, <1>4

LEMMA PieceSent ==
    ASSUME NEW w \in Seq(Nat), NEW n \in Nat, NEW t \in Seq(Nat), NEW r \in Seq(Nat)
    PROVE  Cat(w, Cat(Cat(One(n), t), r)) = Cat(Append(w, n), Cat(t, r))
<1>1. One(n) \in Seq(Nat) /\ Append(w, n) = Cat(w, One(n))
  BY CatLaws
<1> QED BY <1>1, Regrouped

LEMMA FileFirst ==
    ASSUME NEW w \in Seq(Nat), NEW n \in Nat, n > 0
    PROVE  Cat(w, Zeros(n)) = Cat(Append(w, FilePiece), Zeros(n - 1))
<1>1. FilePiece \in Nat /\ Zeros(n - 1) \in Seq(Nat)
  BY ZerosType DEF FilePiece
<1>2. One(FilePiece) \in Seq(Nat) /\ Append(w, FilePiece) = Cat(w, One(FilePiece))
  BY <1>1, CatLaws, Zenon
<1>3. Cat(Cat(w, One(FilePiece)), Zeros(n - 1)) = Cat(w, Cat(One(FilePiece), Zeros(n - 1)))
  BY <1>1, <1>2, CatAssoc
<1> QED BY <1>2, <1>3, ZeroCat

-----------------------------------------------------------------------------
(* What is sent, in which order.                                            *)

(* The pieces of a file that are still to come.                               *)
Files ==
    IF "SEND_FILE" \in ToSet(tasks) THEN FileSize ELSE IF InFile THEN file ELSE 0
Left == Cat(Cat(sendBuf, writeBuf), Zeros(Files))

(* A file is the last that was asked for: both buffers go before it, because      *)
(* what waits to be written has its task before the file's.                      *)
OrderInv ==
    /\ \E rest \in Seq(Nat) : asked = Cat(wire, rest)
    /\ Alive => asked = Cat(wire, Left)
    /\ Alive /\ InFile => writeBuf = <<>> /\ "SEND_FILE" \notin ToSet(tasks)
    /\ Alive /\ writeBuf # <<>> =>
          \A j \in 1 .. Len(tasks) : tasks[j] = "SEND_FILE" =>
             \E i \in 1 .. Len(tasks) : i < j /\ tasks[i] = "SEND_DATA"
    /\ \A i, j \in 1 .. Len(tasks) : tasks[i] = "SEND_FILE" /\ tasks[j] = "SEND_FILE" => i = j

LEMMA TaskAt ==
    ASSUME NEW s \in Seq(Tasks), NEW task
    PROVE  task \in ToSet(s) <=> \E i \in 1 .. Len(s) : s[i] = task
<1>1. DOMAIN s = 1 .. Len(s)
  BY LenProperties
<1> QED BY <1>1 DEF ToSet

LEMMA OrderInit == Init => OrderInv
<1> SUFFICES ASSUME Init PROVE OrderInv
  OBVIOUS
<1>1. /\ wire = <<>> /\ asked = <<>> /\ sendBuf = <<>> /\ writeBuf = <<>> /\ tasks = <<>>
      /\ ~InFile /\ Files = 0 /\ Len(tasks) = 0 /\ <<>> \in Seq(Nat)
  BY NoTasks, EmptySeq DEF Init, InFile, Files
<1>2. Cat(<<>>, <<>>) = <<>>
  BY <1>1, CatLaws, Zenon
<1>3. asked = Cat(wire, Left) /\ asked = Cat(wire, <<>>)
  BY <1>1, <1>2, NoZeros, Zenon DEF Left
<1>4. \E rest \in Seq(Nat) : asked = Cat(wire, rest)
  BY <1>1, <1>3
<1>5. \A i \in 1 .. Len(tasks) : FALSE
  BY <1>1
<1>6. "SEND_FILE" \notin ToSet(tasks)
  BY <1>1, NoTasks
<1> HIDE DEF Init
<1> QED BY <1>1, <1>3, <1>4, <1>5, <1>6 DEF OrderInv

LEMMA LeftType == TypeOK => /\ Files \in Nat /\ Left \in Seq(Nat) /\ Cat(sendBuf, writeBuf) \in Seq(Nat)
                            /\ Zeros(Files) \in Seq(Nat)
<1> SUFFICES ASSUME TypeOK PROVE Files \in Nat /\ Left \in Seq(Nat) /\ Cat(sendBuf, writeBuf) \in Seq(Nat)
                                 /\ Zeros(Files) \in Seq(Nat)
  OBVIOUS
<1>1. Files \in Nat
  BY SocketAssumption, Parts DEF Files, SendTypes
<1>2. Zeros(Files) \in Seq(Nat)
  BY <1>1, ZerosType
<1>3. sendBuf \in Seq(Nat) /\ writeBuf \in Seq(Nat)
  BY Parts DEF SendTypes, OwnerTypes
<1> QED BY <1>1, <1>2, <1>3, CatLaws, Zenon DEF Left

(* More was asked for, nothing sent.                                          *)
LEMMA MoreRest ==
    ASSUME TypeOK, OrderInv, wire' = wire, NEW more \in Seq(Nat), asked' = Cat(asked, more)
    PROVE  \E rest \in Seq(Nat) : asked' = Cat(wire', rest)
<1>1. PICK rest \in Seq(Nat) : asked = Cat(wire, rest)
  BY DEF OrderInv
<1>2. wire \in Seq(Nat)
  BY Parts DEF SendTypes
<1>3. Cat(rest, more) \in Seq(Nat) /\ asked' = Cat(wire, Cat(rest, more))
  BY <1>1, <1>2, CatLaws, Zenon
<1> QED BY <1>3

LEMMA OwnerOrders == "pipelined" \notin Env /\ TypeOK /\ WaitInv /\ OrderInv /\ Owner => OrderInv'
<1> SUFFICES ASSUME "pipelined" \notin Env, TypeOK, WaitInv, OrderInv, Owner PROVE OrderInv'
  OBVIOUS
<1>1. UNCHANGED <<state, at, back, sendBuf, file, wire>> /\ (disconnecting => disconnecting')
  BY Parts DEF Owner, Bind, Start, Write, TransmitFile, Disconnect, Updated, PutSocket, sendVars, OwnerTypes
<1>2. InFile' = InFile /\ (Alive' => Alive)
  BY <1>1 DEF InFile, Alive
<1>3. /\ tasks \in Seq(Tasks) /\ asked \in Seq(Nat) /\ writeBuf \in Seq(Nat) /\ wire \in Seq(Nat)
      /\ sendBuf \in Seq(Nat) /\ Len(asked) + 1 \in Nat /\ Len(tasks) \in Nat /\ <<>> \in Seq(Nat)
  BY Parts, EmptySeq DEF OwnerTypes, SendTypes
<1>4. asked = Cat(asked, <<>>)
  BY <1>3, CatLaws, Zenon
<1>5. FilePending <=> "SEND_FILE" \in ToSet(tasks) \/ InFile
  BY DEF FilePending, InFile
(* A task that is none of a file comes last.                                  *)
<1>6. ASSUME NEW task \in Tasks, Post(task), task # "SEND_FILE"
      PROVE  /\ "SEND_FILE" \in ToSet(tasks) <=> "SEND_FILE" \in ToSet(tasks')
             /\ Len(tasks') = Len(tasks) + 1 /\ \A i \in 1 .. Len(tasks) : tasks'[i] = tasks[i]
             /\ tasks'[Len(tasks) + 1] = task
  BY <1>3, <1>6, PostTasks
<1>7. CASE /\ UNCHANGED <<asked, writeBuf>>
           /\ UNCHANGED tasks \/ \E task \in Tasks \ {"SEND_FILE"} : Post(task)
  <2>1. \E rest \in Seq(Nat) : asked' = Cat(wire', rest)
    BY <1>1, <1>7 DEF OrderInv
  <2>2. Files' = Files
    BY <1>1, <1>2, <1>6, <1>7 DEF Files
  <2>3. Left' = Left
    BY <1>1, <1>7, <2>2 DEF Left
  <2>4. CASE UNCHANGED tasks
    BY <1>1, <1>2, <1>7, <2>1, <2>3, <2>4 DEF OrderInv
  <2>5. CASE \E task \in Tasks \ {"SEND_FILE"} : Post(task)
    <3>1. PICK task \in Tasks \ {"SEND_FILE"} : Post(task)
      BY <2>5
    <3>2. /\ "SEND_FILE" \in ToSet(tasks) <=> "SEND_FILE" \in ToSet(tasks')
          /\ Len(tasks') = Len(tasks) + 1 /\ \A i \in 1 .. Len(tasks) : tasks'[i] = tasks[i]
          /\ tasks'[Len(tasks) + 1] = task
      BY <1>6, <3>1
    <3>3. 1 .. Len(tasks') = (1 .. Len(tasks)) \cup {Len(tasks) + 1}
      BY <1>3, <3>2
    <3>4. \A i \in 1 .. Len(tasks') : tasks'[i] = "SEND_FILE" => i \in 1 .. Len(tasks) /\ tasks[i] = "SEND_FILE"
      BY <3>1, <3>2, <3>3
    <3>5. \A i, j \in 1 .. Len(tasks') : tasks'[i] = "SEND_FILE" /\ tasks'[j] = "SEND_FILE" => i = j
      BY <3>4 DEF OrderInv
    <3>6. Alive' /\ writeBuf' # <<>> =>
             \A j \in 1 .. Len(tasks') : tasks'[j] = "SEND_FILE" =>
                \E i \in 1 .. Len(tasks') : i < j /\ tasks'[i] = "SEND_DATA"
      BY <1>2, <1>7, <3>2, <3>3, <3>4 DEF OrderInv
    <3>7. Alive' /\ InFile' => writeBuf' = <<>> /\ "SEND_FILE" \notin ToSet(tasks')
      BY <1>2, <1>7, <3>2 DEF OrderInv
    <3>8. Alive' => asked' = Cat(wire', Left')
      BY <1>1, <1>2, <1>7, <2>3 DEF OrderInv
    <3> QED BY <2>1, <3>5, <3>6, <3>7, <3>8 DEF OrderInv
  <2> QED BY <1>7, <2>4, <2>5
<1>8. CASE Write
  <2> DEFINE n == Len(asked) + 1
  <2>1. /\ asked' = Append(asked, n) /\ writeBuf' = Append(writeBuf, n) /\ ~FilePending
        /\ UNCHANGED tasks \/ Post("SEND_DATA")
    BY <1>8 DEF Write
  <2>2. "SEND_FILE" \notin ToSet(tasks) /\ ~InFile /\ "SEND_FILE" \notin ToSet(tasks') /\ ~InFile'
        /\ tasks' \in Seq(Tasks)
    BY <1>2, <1>3, <1>5, <1>6, <2>1, PostType DEF Tasks
  <2>3. \A i \in 1 .. Len(tasks') : tasks'[i] # "SEND_FILE"
    <3>1. "SEND_FILE" \in ToSet(tasks') <=> \E i \in 1 .. Len(tasks') : tasks'[i] = "SEND_FILE"
      BY <2>2, TaskAt
    <3> QED BY <2>2, <3>1
  <2>4. Files = 0 /\ Files' = 0
    BY <2>2 DEF Files
  <2>5. Cat(sendBuf, writeBuf) \in Seq(Nat) /\ Append(writeBuf, n) \in Seq(Nat)
        /\ Cat(sendBuf, Append(writeBuf, n)) \in Seq(Nat)
    <3>1. Append(writeBuf, n) \in Seq(Nat)
      BY <1>3, AppendProperties
    <3> QED BY <1>3, <3>1, CatLaws, Zenon
  <2>6. Left = Cat(sendBuf, writeBuf) /\ Left' = Cat(sendBuf, Append(writeBuf, n))
    <3>1. Left = Cat(Cat(sendBuf, writeBuf), <<>>) /\ Left' = Cat(Cat(sendBuf, Append(writeBuf, n)), <<>>)
      BY <1>1, <2>1, <2>4, NoZeros DEF Left
    <3> QED BY <2>5, <3>1, CatLaws, Zenon
  <2>7. Alive' => asked' = Cat(wire', Left')
    <3> SUFFICES ASSUME Alive' PROVE asked' = Cat(wire', Left')
      OBVIOUS
    <3>1. asked = Cat(wire, Cat(sendBuf, writeBuf))
      BY <1>2, <2>6 DEF OrderInv
    <3>2. asked' = Append(Cat(wire, Cat(sendBuf, writeBuf)), n)
      BY <2>1, <3>1
    <3>3. n \in Nat
      BY <1>3
    <3>4. asked' = Cat(wire, Cat(sendBuf, Append(writeBuf, n)))
      <4>1. \A k \in Nat :
               Append(Cat(wire, Cat(sendBuf, writeBuf)), k) = Cat(wire, Cat(sendBuf, Append(writeBuf, k)))
        <5>1. \A w, x, y \in Seq(Nat), k \in Nat : Append(Cat(w, Cat(x, y)), k) = Cat(w, Cat(x, Append(y, k)))
          BY PieceWritten
        <5>2. wire \in Seq(Nat) /\ sendBuf \in Seq(Nat) /\ writeBuf \in Seq(Nat)
          BY <1>3
        <5> QED BY <5>1, <5>2
      <4> QED BY <3>2, <3>3, <4>1, Zenon
    <3> QED BY <1>1, <2>6, <3>4
  <2>8. asked' = Cat(asked, One(n)) /\ One(n) \in Seq(Nat)
    BY <1>3, <2>1, CatLaws
  <2>9. \E rest \in Seq(Nat) : asked' = Cat(wire', rest)
    BY <1>1, <2>8, MoreRest
  <2> QED BY <2>2, <2>3, <2>7, <2>9 DEF OrderInv
<1>9. CASE TransmitFile
  <2>1. asked' = Cat(asked, Zeros(FileSize)) /\ Post("SEND_FILE") /\ ~FilePending /\ writeBuf' = writeBuf
    BY <1>9 DEF TransmitFile, Cat, Zeros
  <2>2. /\ "SEND_FILE" \notin ToSet(tasks) /\ ~InFile /\ ~InFile'
        /\ Len(tasks') = Len(tasks) + 1 /\ tasks'[Len(tasks) + 1] = "SEND_FILE"
        /\ \A i \in 1 .. Len(tasks) : tasks'[i] = tasks[i]
        /\ "SEND_FILE" \in ToSet(tasks')
    <3>1. "SEND_FILE" \in Tasks
      BY DEF Tasks
    <3> QED BY <1>2, <1>3, <1>5, <2>1, <3>1, PostTasks
  <2>3. 1 .. Len(tasks') = (1 .. Len(tasks)) \cup {Len(tasks) + 1}
    BY <1>3, <2>2
  <2>4. \A i \in 1 .. Len(tasks) : tasks[i] # "SEND_FILE"
    BY <1>3, <2>2, TaskAt
  <2>5. \A i \in 1 .. Len(tasks') : tasks'[i] = "SEND_FILE" => i = Len(tasks) + 1
    BY <2>2, <2>3, <2>4
  <2>6. Alive' /\ writeBuf' # <<>> => \E i \in 1 .. Len(tasks) : tasks[i] = "SEND_DATA"
    BY <1>2, <1>3, <2>1, TaskAt DEF WaitInv
  <2>7. Alive' /\ writeBuf' # <<>> =>
           \A j \in 1 .. Len(tasks') : tasks'[j] = "SEND_FILE" =>
              \E i \in 1 .. Len(tasks') : i < j /\ tasks'[i] = "SEND_DATA"
    BY <1>3, <2>2, <2>3, <2>5, <2>6
  <2>8. Files = 0 /\ Files' = FileSize /\ Zeros(FileSize) \in Seq(Nat)
    BY <2>2, SocketAssumption, ZerosType DEF Files
  <2>9. Cat(sendBuf, writeBuf) \in Seq(Nat)
    BY LeftType
  <2>10. Left = Cat(sendBuf, writeBuf) /\ Left' = Cat(Cat(sendBuf, writeBuf), Zeros(FileSize))
    <3>1. Left = Cat(Cat(sendBuf, writeBuf), <<>>) /\ Left' = Cat(Cat(sendBuf, writeBuf), Zeros(FileSize))
      BY <1>1, <2>1, <2>8, NoZeros DEF Left
    <3> QED BY <2>9, <3>1, CatLaws, Zenon
  <2>11. Alive' => asked' = Cat(wire', Left')
    <3> SUFFICES ASSUME Alive' PROVE asked' = Cat(wire', Left')
      OBVIOUS
    <3>1. asked = Cat(wire, Cat(sendBuf, writeBuf))
      BY <1>2, <2>10 DEF OrderInv
    <3>2. asked' = Cat(Cat(wire, Cat(sendBuf, writeBuf)), Zeros(FileSize))
      BY <2>1, <3>1
    <3>3. asked' = Cat(wire, Cat(Cat(sendBuf, writeBuf), Zeros(FileSize)))
      <4>1. Cat(Cat(wire, Cat(sendBuf, writeBuf)), Zeros(FileSize))
               = Cat(wire, Cat(Cat(sendBuf, writeBuf), Zeros(FileSize)))
        <5>1. \A x, y, z \in Seq(Nat) : Cat(Cat(x, y), z) = Cat(x, Cat(y, z))
          BY CatAssoc
        <5> QED BY <1>3, <2>8, <2>9, <5>1, SMTT(30)
      <4> QED BY <3>2, <4>1
    <3> QED BY <1>1, <2>10, <3>3
  <2>12. \E rest \in Seq(Nat) : asked' = Cat(wire', rest)
    BY <1>1, <2>1, <2>8, MoreRest
  <2> QED BY <2>2, <2>5, <2>7, <2>11, <2>12 DEF OrderInv
<1>10. CASE Bind \/ Start \/ Updated \/ PutSocket \/ \E graceless \in BOOLEAN : Disconnect(graceless)
  BY <1>7, <1>10 DEF Bind, Start, Updated, PutSocket, Disconnect, Tasks
<1> QED BY <1>8, <1>9, <1>10 DEF Owner

LEMMA EventsOrder == TypeOK /\ CallInv /\ WaitInv /\ OrderInv /\ CheckEvents => OrderInv'
<1> SUFFICES ASSUME TypeOK, CallInv, WaitInv, OrderInv, CheckEvents PROVE OrderInv'
  OBVIOUS
<1> DEFINE t == Head(tasks)
<1>1. UNCHANGED <<disconnecting, asked>> /\ Handle(t) /\ at = "events" /\ tasks # <<>> /\ wire' = wire
  BY DEF CheckEvents, Handle, sendVars
<1>2. /\ t \in Tasks /\ t \in ToSet(tasks) /\ tasks' = Tail(tasks) /\ t = tasks[1]
      /\ ToSet(tasks) \subseteq ToSet(tasks') \cup {t} /\ ToSet(tasks') \subseteq ToSet(tasks)
      /\ Len(tasks) \in Nat \ {0} /\ Len(tasks') = Len(tasks) - 1
      /\ \A i \in 1 .. Len(tasks) - 1 : tasks'[i] = tasks[i + 1]
      /\ tasks \in Seq(Tasks) /\ tasks' \in Seq(Tasks)
  BY TailTasks, HeadTailProperties, Parts DEF CheckEvents, OwnerTypes
<1>3. state \in {"STARTING", "RUNNING", "FAILED"} /\ ~InFile /\ ~InSend
  BY <1>1, Parts DEF ThreadTypes, InFile, InSend
<1>4. \E rest \in Seq(Nat) : asked' = Cat(wire', rest)
  BY <1>1 DEF OrderInv
<1>5. \A i, j \in 1 .. Len(tasks') : tasks'[i] = "SEND_FILE" /\ tasks'[j] = "SEND_FILE" => i = j
  <2>1. \A i \in 1 .. Len(tasks') : i + 1 \in 1 .. Len(tasks) /\ tasks'[i] = tasks[i + 1]
    BY <1>2
  <2> QED BY <2>1 DEF OrderInv
<1>6. Alive' => Alive /\ sendBuf = <<>>
  BY <1>1, <1>3 DEF Handle, Fail, Unexpected, Alive, WaitInv
<1>7. CASE ~Alive'
  BY <1>4, <1>5, <1>7 DEF OrderInv
<1>8. ASSUME Alive', t # "SEND_DATA", t # "SEND_FILE" PROVE OrderInv'
  <2>1. UNCHANGED <<writeBuf, sendBuf, file>> /\ ~InFile'
    BY <1>1, <1>3, <1>8 DEF Handle, Fail, sendVars, Goto, InFile
  <2>2. "SEND_FILE" \in ToSet(tasks) <=> "SEND_FILE" \in ToSet(tasks')
    BY <1>2, <1>8
  <2>3. Files' = Files
    BY <1>3, <2>1, <2>2 DEF Files
  <2>4. Left' = Left
    BY <2>1, <2>3 DEF Left
  <2>5. writeBuf # <<>> =>
           \A j \in 1 .. Len(tasks') : tasks'[j] = "SEND_FILE" =>
              \E i \in 1 .. Len(tasks') : i < j /\ tasks'[i] = "SEND_DATA"
    <3> SUFFICES ASSUME writeBuf # <<>>, NEW j \in 1 .. Len(tasks'), tasks'[j] = "SEND_FILE"
                 PROVE  \E i \in 1 .. Len(tasks') : i < j /\ tasks'[i] = "SEND_DATA"
      OBVIOUS
    <3>1. j + 1 \in 1 .. Len(tasks) /\ tasks[j + 1] = "SEND_FILE"
      BY <1>2
    <3>2. PICK i \in 1 .. Len(tasks) : i < j + 1 /\ tasks[i] = "SEND_DATA"
      BY <1>6, <1>8, <3>1 DEF OrderInv
    <3>3. i # 1
      BY <1>2, <1>8, <3>2
    <3>4. i - 1 \in 1 .. Len(tasks') /\ i - 1 < j /\ tasks'[i - 1] = "SEND_DATA"
      BY <1>2, <3>2, <3>3
    <3> QED BY <3>4
  <2> QED BY <1>1, <1>4, <1>5, <1>6, <1>8, <2>1, <2>4, <2>5 DEF OrderInv
<1>9. ASSUME Alive', t = "SEND_DATA" \/ t = "SEND_FILE" PROVE state = "RUNNING" /\ ~Unexpected(t)
  <2>1. state # "FAILED"
    BY <1>6, <1>9 DEF Alive
  <2>2. state # "STARTING"
    BY <1>1, <1>2, <1>9 DEF CallInv
  <2> QED BY <1>3, <1>9, <2>1, <2>2 DEF Unexpected
<1>10. ASSUME Alive', t = "SEND_DATA" PROVE OrderInv'
  <2>1. "SEND_FILE" \in ToSet(tasks) <=> "SEND_FILE" \in ToSet(tasks')
    BY <1>2, <1>10
  <2>2. /\ IF writeBuf = <<>> THEN UNCHANGED <<writeBuf, sendBuf, at, back>>
           ELSE writeBuf' = sendBuf /\ sendBuf' = writeBuf /\ Goto("sending")
        /\ UNCHANGED file
    BY <1>1, <1>9, <1>10 DEF Handle
  <2>3. writeBuf' = <<>> /\ sendBuf' = writeBuf /\ ~InFile'
    BY <1>1, <1>3, <1>6, <1>10, <2>2 DEF Goto, InFile
  <2>4. Files' = Files
    BY <1>3, <2>1, <2>3 DEF Files
  <2>5. writeBuf \in Seq(Nat) /\ <<>> \in Seq(Nat)
    BY Parts, EmptySeq DEF OwnerTypes
  <2>6. Cat(<<>>, writeBuf) = Cat(writeBuf, <<>>)
    BY <2>5, CatLaws, Zenon
  <2>7. Left' = Left
    BY <1>6, <1>10, <2>3, <2>4, <2>6 DEF Left
  <2>8. asked' = Cat(wire', Left')
    BY <1>1, <1>6, <1>10, <2>7 DEF OrderInv
  <2> QED BY <1>4, <1>5, <2>3, <2>8 DEF OrderInv
<1>11. ASSUME Alive', t = "SEND_FILE" PROVE OrderInv'
  <2>1. ~disconnecting /\ Alive
    BY <1>6, <1>11 DEF Alive
  <2>2. at' = "sendingFile" /\ file' = FileSize /\ UNCHANGED <<writeBuf, sendBuf>>
    BY <1>1, <1>9, <1>11, <2>1 DEF Handle, Goto
  <2>3. "SEND_FILE" \in ToSet(tasks) /\ "SEND_FILE" \notin ToSet(tasks')
    <3>1. \A i \in 1 .. Len(tasks') : i + 1 \in 1 .. Len(tasks) /\ tasks'[i] = tasks[i + 1] /\ i + 1 # 1
      BY <1>2
    <3>2. \A i \in 1 .. Len(tasks') : tasks'[i] # "SEND_FILE"
      BY <1>2, <1>11, <3>1 DEF OrderInv
    <3> QED BY <1>2, <1>11, <3>2, TaskAt
  <2>4. InFile' /\ Files' = Files
    BY <2>2, <2>3 DEF Files, InFile
  <2>5. Left' = Left
    BY <2>2, <2>4 DEF Left
  <2>6. writeBuf = <<>>
    <3>1. 1 \in 1 .. Len(tasks) /\ tasks[1] = "SEND_FILE"
      BY <1>2, <1>11
    <3>2. \A i \in 1 .. Len(tasks) : ~(i < 1)
      BY <1>2
    <3> QED BY <2>1, <3>1, <3>2 DEF OrderInv
  <2>7. asked' = Cat(wire', Left')
    BY <1>1, <2>1, <2>5 DEF OrderInv
  <2> QED BY <1>4, <1>5, <2>2, <2>3, <2>6, <2>7 DEF OrderInv
<1> QED BY <1>7, <1>8, <1>10, <1>11

(* Nothing is sent and no file begins or ends.                                 *)
LEMMA NothingSent ==
    ASSUME OrderInv, UNCHANGED <<tasks, writeBuf, asked, sendBuf, wire, file>>,
           Alive' => Alive /\ (InFile' <=> InFile)
    PROVE  OrderInv'
<1>1. Alive' => Files' = Files
  BY DEF Files
<1>2. Alive' => Left' = Left
  BY <1>1 DEF Left
<1> QED BY <1>2 DEF OrderInv

LEMMA ConnectionOrders ==
    TypeOK /\ CallInv /\ WaitInv /\ OrderInv /\ (Connect \/ CheckSocket \/ Stop \/ Send \/ TransmitDone \/ Read) => OrderInv'
<1> SUFFICES ASSUME TypeOK, CallInv, WaitInv, OrderInv,
                    Connect \/ CheckSocket \/ Stop \/ Send \/ TransmitDone \/ Read
             PROVE  OrderInv'
  OBVIOUS
<1>1. UNCHANGED <<disconnecting, tasks, writeBuf, asked>>
  BY DEF Connect, CheckSocket, Stop, Send, TransmitDone, Receive, Closed, Read, ownerVars
<1>2. state' = "FAILED" \/ state' = state
  BY DEF Connect, CheckSocket, Stop, Send, TransmitDone, Receive, Closed, Read, Fail
<1>3. Alive' => Alive
  BY <1>1, <1>2 DEF Alive
<1>4. ASSUME UNCHANGED sendVars, InFile' <=> InFile PROVE OrderInv'
  BY <1>1, <1>3, <1>4, NothingSent DEF sendVars
<1>5. ASSUME UNCHANGED sendVars, ~Alive' PROVE OrderInv'
  BY <1>1, <1>5, NothingSent DEF sendVars
<1>6. ASSUME NEW from \in {"events", "sending", "sendingFile"}, Receive(from),
             at = from \/ (from = "events" /\ at = "polling")
      PROVE  OrderInv'
  BY <1>4, <1>6 DEF Receive, InFile
<1>7. ASSUME Closed, at \in Working \cup {"sending"} PROVE OrderInv'
  BY <1>5, <1>7 DEF Closed, Fail, CallInv, Alive
<1>8. CASE Connect
  BY <1>4, <1>8 DEF Connect, Fail, Goto, InFile
<1>9. CASE CheckSocket
  <2>1. CASE at = "polling" /\ (Receive("events") \/ Closed)
    BY <1>6, <1>7, <2>1 DEF Working
  <2>2. CASE at \in {"events", "polling"} /\ at' \in {"events", "polling"} /\ UNCHANGED sendVars
    BY <1>4, <2>2 DEF InFile
  <2> QED BY <1>9, <2>1, <2>2 DEF CheckSocket, Goto
<1>10. CASE Stop
  BY <1>1, <1>5, <1>10 DEF Stop, Alive
<1>11. CASE TransmitDone
  <2>1. /\ InFile /\ ~InFile' /\ file = 0 /\ Alive /\ UNCHANGED <<sendBuf, wire, file>>
    BY <1>11 DEF TransmitDone, Goto, InFile, Alive, CallInv, Working, sendVars
  <2>2. "SEND_FILE" \notin ToSet(tasks)
    BY <2>1 DEF OrderInv
  <2>3. Files = 0 /\ Files' = 0
    BY <1>1, <2>1, <2>2 DEF Files
  <2>4. Left' = Left
    BY <1>1, <2>1, <2>3 DEF Left
  <2> QED BY <1>1, <1>3, <2>1, <2>4 DEF OrderInv
<1>12. CASE Send
  <2>1. CASE \E from \in {"sending", "sendingFile"} : at = from /\ Receive(from)
    BY <1>6, <2>1
  <2>2. CASE at \in {"sending", "sendingFile"} /\ Closed
    BY <1>7, <2>2 DEF Working
  <2>3. CASE /\ at = "sending" /\ sendBuf # <<>>
             /\ wire' = Append(wire, Head(sendBuf)) /\ sendBuf' = Tail(sendBuf)
             /\ Goto(IF Len(sendBuf) = 1 THEN "events" ELSE "sending")
             /\ UNCHANGED <<ownerVars, state, up, file, readVars>>
    <3>1. ~InFile /\ ~InFile' /\ Alive /\ Alive'
      BY <1>1, <1>12, <2>3 DEF Send, Goto, InFile, Alive, CallInv
    <3>2. Files' = Files
      BY <1>1, <3>1 DEF Files
    <3>3. /\ sendBuf \in Seq(Nat) /\ wire \in Seq(Nat) /\ writeBuf \in Seq(Nat) /\ Zeros(Files) \in Seq(Nat)
          /\ Cat(writeBuf, Zeros(Files)) \in Seq(Nat)
      <4>1. sendBuf \in Seq(Nat) /\ wire \in Seq(Nat) /\ writeBuf \in Seq(Nat) /\ Zeros(Files) \in Seq(Nat)
        BY LeftType, Parts DEF SendTypes, OwnerTypes
      <4> QED BY <4>1, CatLaws, Zenon
    <3>4. Head(sendBuf) \in Nat /\ Tail(sendBuf) \in Seq(Nat) /\ sendBuf = Cat(One(Head(sendBuf)), Tail(sendBuf))
          /\ Append(wire, Head(sendBuf)) \in Seq(Nat)
      BY <2>3, <3>3, HeadCat, AppendProperties
    <3>5. Left = Cat(sendBuf, Cat(writeBuf, Zeros(Files)))
          /\ Left' = Cat(Tail(sendBuf), Cat(writeBuf, Zeros(Files)))
      <4>1. Left = Cat(Cat(sendBuf, writeBuf), Zeros(Files))
            /\ Left' = Cat(Cat(Tail(sendBuf), writeBuf), Zeros(Files))
        BY <1>1, <2>3, <3>2 DEF Left
      <4>2. \A x, y, z \in Seq(Nat) : Cat(Cat(x, y), z) = Cat(x, Cat(y, z))
        BY CatAssoc
      <4>3. sendBuf \in Seq(Nat) /\ Tail(sendBuf) \in Seq(Nat) /\ writeBuf \in Seq(Nat) /\ Zeros(Files) \in Seq(Nat)
        BY <3>3, <3>4
      <4>4. Cat(Cat(sendBuf, writeBuf), Zeros(Files)) = Cat(sendBuf, Cat(writeBuf, Zeros(Files)))
        BY <4>2, <4>3, Zenon
      <4>5. Cat(Cat(Tail(sendBuf), writeBuf), Zeros(Files)) = Cat(Tail(sendBuf), Cat(writeBuf, Zeros(Files)))
        BY <4>2, <4>3, Zenon
      <4> QED BY <4>1, <4>4, <4>5
    <3>6. asked = Cat(wire, Cat(Cat(One(Head(sendBuf)), Tail(sendBuf)), Cat(writeBuf, Zeros(Files))))
      BY <3>1, <3>4, <3>5 DEF OrderInv
    <3>7. asked = Cat(Append(wire, Head(sendBuf)), Cat(Tail(sendBuf), Cat(writeBuf, Zeros(Files))))
      <4>1. \A n \in Nat, x, y \in Seq(Nat) :
               Cat(wire, Cat(Cat(One(n), x), y)) = Cat(Append(wire, n), Cat(x, y))
        BY <3>3, PieceSent
      <4> QED BY <3>3, <3>4, <3>6, <4>1, Zenon
    <3>8. asked' = Cat(wire', Left') /\ Left' \in Seq(Nat)
      <4>1. Left' \in Seq(Nat)
        BY <3>3, <3>4, <3>5, CatLaws, Zenon
      <4> QED BY <1>1, <2>3, <3>5, <3>7, <4>1
    <3> QED BY <1>1, <3>1, <3>8 DEF OrderInv
  <2>4. CASE /\ at = "sendingFile" /\ file > 0
             /\ wire' = Append(wire, FilePiece) /\ file' = file - 1
             /\ UNCHANGED <<ownerVars, state, at, back, up, sendBuf, readVars>>
    <3>1. InFile /\ InFile' /\ Alive /\ Alive'
      BY <1>1, <1>12, <2>4 DEF Send, InFile, Alive, CallInv, Working
    <3>2. "SEND_FILE" \notin ToSet(tasks) /\ Files = file /\ Files' = file - 1
      BY <1>1, <2>4, <3>1 DEF Files, OrderInv
    <3>3. /\ sendBuf \in Seq(Nat) /\ wire \in Seq(Nat) /\ writeBuf = <<>> /\ file \in Nat
      <4>1. sendBuf \in Seq(Nat) /\ wire \in Seq(Nat) /\ file \in Nat
        BY SocketAssumption, Parts DEF SendTypes
      <4>2. writeBuf = <<>>
        BY <3>1 DEF OrderInv
      <4> QED BY <4>1, <4>2
    <3>4. sendBuf = <<>>
      BY <2>4, <3>1 DEF WaitInv, InSend
    <3>5. Left = Zeros(file) /\ Left' = Zeros(file - 1) /\ Zeros(file - 1) \in Seq(Nat)
      <4>1. Zeros(file) \in Seq(Nat) /\ Zeros(file - 1) \in Seq(Nat) /\ <<>> \in Seq(Nat)
        <5>1. file \in Nat /\ file - 1 \in Nat
          BY <2>4, <3>3
        <5> QED BY <5>1, ZerosType, EmptySeq
      <4>2. Left = Cat(Cat(<<>>, <<>>), Zeros(file)) /\ Left' = Cat(Cat(<<>>, <<>>), Zeros(file - 1))
        BY <1>1, <2>4, <3>2, <3>3, <3>4 DEF Left
      <4> QED BY <4>1, <4>2, CatLaws, Zenon
    <3>6. Cat(wire, Zeros(file)) = Cat(Append(wire, FilePiece), Zeros(file - 1))
      BY <2>4, <3>3, FileFirst
    <3>7. asked' = Cat(wire', Left')
      BY <1>1, <2>4, <3>1, <3>5, <3>6 DEF OrderInv
    <3>8. Left' \in Seq(Nat)
      BY <3>5
    <3> QED BY <1>1, <3>1, <3>2, <3>3, <3>7, <3>8 DEF OrderInv
  <2> QED BY <1>12, <2>1, <2>2, <2>3, <2>4 DEF Send
<1>13. CASE Read
  <2>1. UNCHANGED <<back, sendVars>> /\ at \in {"reading", "unzipped"} /\ at' \in {"reading", "unzipped", back}
    BY <1>13 DEF Read, ReadLine, Unzip, UnzippedLine, ReadData, ReadFlow, EndOfRead, Goto
  <2>2. InFile' <=> InFile
    BY <2>1 DEF InFile
  <2> QED BY <1>4, <2>1, <2>2
<1> QED BY <1>8, <1>9, <1>10, <1>11, <1>12, <1>13

LEMMA OrderStep ==
    "pipelined" \notin Env /\ TypeOK /\ CallInv /\ WaitInv /\ OrderInv /\ [Next]_vars => OrderInv'
<1> SUFFICES ASSUME "pipelined" \notin Env, TypeOK, CallInv, WaitInv, OrderInv, [Next]_vars PROVE OrderInv'
  OBVIOUS
<1>1. CASE UNCHANGED vars
  <2>1. UNCHANGED <<tasks, writeBuf, asked, sendBuf, wire, file, state, disconnecting, at, back>>
    BY <1>1 DEF vars, ownerVars, sendVars
  <2> QED BY <2>1, NothingSent DEF Alive, InFile
<1> QED BY <1>1, OwnerOrders, EventsOrder, ConnectionOrders DEF Next, Thread

LEMMA OrderAlways ==
    ASSUME "early" \notin Env, "pipelined" \notin Env
    PROVE  Spec => [](TypeOK /\ CallInv /\ WaitInv /\ OrderInv)
<1>1. Spec => [](TypeOK /\ CallInv /\ WaitInv)
  BY WaitAlways
<1> QED BY <1>1, OrderInit, OrderStep, PTL DEF Spec

(* Unless it is used before connect or written to behind a file, a socket sends    *)
(* what its owners asked for in the order of their calls, each piece once, though  *)
(* writes exchange two buffers with the thread and files pass by both of them.    *)
THEOREM SentInOrderAlways ==
    ASSUME "early" \notin Env, "pipelined" \notin Env PROVE Spec => []SentInOrder
<1>1. Spec => [](TypeOK /\ CallInv /\ WaitInv)
  BY WaitAlways
<1>2. TypeOK /\ OrderInv => SentInOrder
  <2> SUFFICES ASSUME TypeOK, OrderInv PROVE SentInOrder
    OBVIOUS
  <2>1. PICK rest \in Seq(Nat) : asked = Cat(wire, rest)
    BY DEF OrderInv
  <2>2. IsPrefix(wire, Cat(wire, rest))
    BY RestPrefix, Parts DEF SendTypes
  <2> QED BY <2>1, <2>2 DEF SentInOrder
<1> QED BY <1>1, <1>2, OrderAlways, PTL DEF Spec

-----------------------------------------------------------------------------
(* What is sent before a polite disconnect.                                   *)

LEMMA CatLen == ASSUME NEW x \in Seq(Nat), NEW y \in Seq(Nat) PROVE Len(Cat(x, y)) = Len(x) + Len(y)
BY ConcatProperties DEF Cat

(* A task that the thread handles before the first disconnect.                 *)
Ahead(task) ==
    \E i \in 1 .. Len(tasks) : tasks[i] = task /\ \A j \in 1 .. i : tasks[j] # "DISCONNECT"

(* The pieces that will have been sent when the first disconnect is handled.      *)
Written == IF Ahead("SEND_DATA") THEN Len(writeBuf) ELSE 0
Filed == (IF Ahead("SEND_FILE") THEN FileSize ELSE 0) + (IF InFile THEN file ELSE 0)
Due == Len(wire) + Len(sendBuf) + Written + Filed

PoliteInv == Alive /\ "DISCONNECT" \in ToSet(tasks) => owed <= Due

Lens ==
    /\ Len(wire) \in Nat /\ Len(sendBuf) \in Nat /\ Len(writeBuf) \in Nat /\ Len(asked) \in Nat
    /\ file \in Nat /\ FileSize \in Nat /\ owed \in Nat
    /\ Written \in Nat /\ Filed \in Nat

LEMMA Lengths == TypeOK => Lens
BY SocketAssumption, LenProperties, Parts DEF OwnerTypes, SendTypes, Lens, Written, Filed

LEMMA LengthsNext == TypeOK' => Lens'
BY Lengths, PTL

LEMMA AheadPost ==
    ASSUME tasks \in Seq(Tasks), NEW task \in Tasks, Post(task), NEW t
    PROVE  /\ Ahead(t) => Ahead(t)'
           /\ "DISCONNECT" \notin ToSet(tasks) /\ t \in ToSet(tasks) => Ahead(t)'
<1>1. /\ Len(tasks) \in Nat /\ Len(tasks') = Len(tasks) + 1
      /\ \A i \in 1 .. Len(tasks) : tasks'[i] = tasks[i]
  BY PostTasks
<1>2. \A i \in 1 .. Len(tasks) : i \in 1 .. Len(tasks') /\ \A j \in 1 .. i : j \in 1 .. Len(tasks)
  BY <1>1
<1>3. Ahead(t) => Ahead(t)'
  BY <1>1, <1>2 DEF Ahead
<1>4. ASSUME "DISCONNECT" \notin ToSet(tasks), t \in ToSet(tasks) PROVE Ahead(t)
  <2>1. PICK i \in 1 .. Len(tasks) : tasks[i] = t
    BY <1>4, TaskAt
  <2>2. \A j \in 1 .. Len(tasks) : tasks[j] # "DISCONNECT"
    BY <1>4, TaskAt
  <2> QED BY <1>2, <2>1, <2>2 DEF Ahead
<1> QED BY <1>3, <1>4

LEMMA AheadTail ==
    ASSUME tasks \in Seq(Tasks), tasks # <<>>, tasks' = Tail(tasks), NEW t, Ahead(t)
    PROVE  t = Head(tasks) \/ Ahead(t)'
<1>1. /\ Head(tasks) = tasks[1] /\ Len(tasks) \in Nat \ {0} /\ Len(tasks') = Len(tasks) - 1
      /\ \A i \in 1 .. Len(tasks) - 1 : tasks'[i] = tasks[i + 1]
  BY TailTasks
<1>2. PICK i \in 1 .. Len(tasks) : tasks[i] = t /\ \A j \in 1 .. i : tasks[j] # "DISCONNECT"
  BY DEF Ahead
<1>3. CASE i = 1
  BY <1>1, <1>2, <1>3
<1>4. CASE i # 1
  <2>1. i - 1 \in 1 .. Len(tasks') /\ tasks'[i - 1] = t
    BY <1>1, <1>2, <1>4
  <2>2. \A j \in 1 .. i - 1 : tasks'[j] = tasks[j + 1] /\ j + 1 \in 1 .. i
    BY <1>1
  <2> QED BY <1>2, <2>1, <2>2 DEF Ahead
<1> QED BY <1>3, <1>4

LEMMA PoliteInit == Init => PoliteInv
BY NoTasks DEF Init, PoliteInv

LEMMA OwnerPolite == TypeOK /\ WaitInv /\ OrderInv /\ PoliteInv /\ Owner => PoliteInv'
<1> SUFFICES ASSUME TypeOK, WaitInv, OrderInv, PoliteInv, Owner, Alive', "DISCONNECT" \in ToSet(tasks')
             PROVE  (owed <= Due)'
  BY DEF PoliteInv
<1>1. UNCHANGED <<state, at, back, sendBuf, file, wire>> /\ (disconnecting => disconnecting')
  BY Parts DEF Owner, Bind, Start, Write, TransmitFile, Disconnect, Updated, PutSocket, sendVars, OwnerTypes
<1>2. InFile' = InFile /\ Alive
  BY <1>1 DEF InFile, Alive
<1>3. tasks \in Seq(Tasks) /\ writeBuf \in Seq(Nat) /\ TypeOK'
  BY OwnerType, Parts DEF OwnerTypes
<1>4. UNCHANGED tasks \/ \E task \in Tasks : Post(task)
  BY DEF Owner, Bind, Start, Write, TransmitFile, Disconnect, Updated, PutSocket, Tasks
<1>5. \A t \in Tasks : Ahead(t) => Ahead(t)'
  <2>1. CASE UNCHANGED tasks
    BY <2>1 DEF Ahead
  <2> QED BY <1>3, <1>4, <2>1, AheadPost
<1>6. Len(writeBuf') >= Len(writeBuf)
  <2>1. writeBuf' = writeBuf \/ writeBuf' = Append(writeBuf, Len(asked) + 1)
    BY DEF Owner, Bind, Start, Write, TransmitFile, Disconnect, Updated, PutSocket
  <2> QED BY <1>3, <2>1, Lengths, AppendProperties
<1>7. "SEND_DATA" \in Tasks /\ "SEND_FILE" \in Tasks
  BY DEF Tasks
<1>8. Lens /\ Lens'
  BY <1>3, Lengths, LengthsNext
<1>9. Due' >= Due
  <2>1. Written' >= Written
    BY <1>5, <1>6, <1>7, <1>8 DEF Written, Lens
  <2>2. Filed' >= Filed
    BY <1>1, <1>2, <1>5, <1>7, <1>8 DEF Filed, Lens
  <2> QED BY <1>1, <1>8, <2>1, <2>2 DEF Due, Lens
<1>10. Due \in Nat /\ Due' \in Nat
  BY <1>8 DEF Due, Lens
<1>11. CASE owed' = owed /\ "DISCONNECT" \in ToSet(tasks)
  BY <1>2, <1>8, <1>9, <1>10, <1>11 DEF PoliteInv, Lens
<1>12. CASE "DISCONNECT" \notin ToSet(tasks)
  <2>1. PICK task \in Tasks : Post(task)
    BY <1>4, <1>12
  <2>2. task = "DISCONNECT"
    BY <1>3, <1>12, <2>1, PostTasks
  <2>3. owed' = Len(asked) /\ UNCHANGED <<writeBuf, asked>>
    <3>1. PICK graceless \in BOOLEAN : Disconnect(graceless)
      <4>1. tasks' # Append(tasks, "SEND_DATA") /\ \A other \in Tasks : Post(other) => other = "DISCONNECT"
        BY <1>3, <1>12, PostTasks DEF Post, Tasks
      <4> QED BY <1>12, <4>1 DEF Owner, Bind, Start, Write, TransmitFile, Updated, PutSocket, Post, Tasks
    <3>2. ~graceless
      BY <3>1 DEF Disconnect, Alive
    <3> QED BY <1>12, <3>1, <3>2 DEF Disconnect
  <2>4. Len(asked) = Len(wire) + (Len(sendBuf) + Len(writeBuf) + Files)
    <3>1. Files \in Nat /\ Len(Zeros(Files)) = Files
      BY LeftType, ZerosType
    <3>2. Len(Left) = Len(sendBuf) + Len(writeBuf) + Files
      BY <3>1, LeftType, CatLen, Parts DEF Left, SendTypes, OwnerTypes
    <3>3. asked = Cat(wire, Left) /\ wire \in Seq(Nat) /\ Left \in Seq(Nat)
      BY <1>2, LeftType, Parts DEF OrderInv, SendTypes
    <3> QED BY <3>2, <3>3, CatLen
  <2>5. writeBuf # <<>> => Ahead("SEND_DATA")'
    BY <1>2, <1>3, <1>12, <2>1, AheadPost DEF WaitInv
  <2>6. "SEND_FILE" \in ToSet(tasks) => Ahead("SEND_FILE")' /\ ~InFile
    BY <1>2, <1>3, <1>12, <2>1, AheadPost DEF OrderInv
  <2>7. writeBuf = <<>> => Len(writeBuf) = 0
    BY EmptySeq
  <2>8. Written' >= Len(writeBuf)
    BY <1>8, <2>3, <2>5, <2>7 DEF Written, Lens
  <2>9. Filed' >= Files
    <3>1. CASE "SEND_FILE" \in ToSet(tasks)
      BY <1>2, <1>8, <2>6, <3>1 DEF Filed, Files, Lens
    <3>2. CASE "SEND_FILE" \notin ToSet(tasks)
      BY <1>1, <1>2, <1>8, <3>2 DEF Filed, Files, Lens
    <3> QED BY <3>1, <3>2
  <2>10. Files \in Nat
    BY LeftType
  <2>11. Len(wire') = Len(wire) /\ Len(sendBuf') = Len(sendBuf)
    BY <1>1
  <2>12. owed' = Len(wire) + (Len(sendBuf) + Len(writeBuf) + Files)
    BY <2>3, <2>4
  <2> QED BY <1>8, <2>8, <2>9, <2>10, <2>11, <2>12 DEF Due, Lens
<1>13. "DISCONNECT" \in ToSet(tasks) => owed' = owed
  BY DEF Owner, Bind, Start, Write, TransmitFile, Disconnect, Updated, PutSocket
<1> QED BY <1>11, <1>12, <1>13

LEMMA EventsPolite == TypeOK /\ CallInv /\ WaitInv /\ PoliteInv /\ CheckEvents => PoliteInv'
<1> SUFFICES ASSUME TypeOK, CallInv, WaitInv, PoliteInv, CheckEvents, Alive', "DISCONNECT" \in ToSet(tasks')
             PROVE  (owed <= Due)'
  BY DEF PoliteInv
<1> DEFINE t == Head(tasks)
<1>1. /\ UNCHANGED <<disconnecting, owed>> /\ Handle(t) /\ at = "events" /\ tasks # <<>> /\ wire' = wire
      /\ tasks' = Tail(tasks)
  BY DEF CheckEvents, Handle, sendVars
<1>2. /\ t \in ToSet(tasks) /\ ToSet(tasks') \subseteq ToSet(tasks) /\ tasks \in Seq(Tasks)
  BY TailTasks, Parts DEF CheckEvents, OwnerTypes
<1>3. state \in {"STARTING", "RUNNING", "FAILED"} /\ ~InFile /\ ~InSend
  BY <1>1, Parts DEF ThreadTypes, InFile, InSend
<1>4. Alive /\ sendBuf = <<>>
  BY <1>1, <1>3 DEF Handle, Fail, Unexpected, Alive, WaitInv
<1>5. owed <= Due
  BY <1>2, <1>4 DEF PoliteInv
<1>6. \A task \in Tasks : Ahead(task) => task = t \/ Ahead(task)'
  BY <1>1, <1>2, AheadTail
<1>7. "SEND_DATA" \in Tasks /\ "SEND_FILE" \in Tasks
  BY DEF Tasks
<1>8. Lens /\ Lens' /\ Len(sendBuf) = 0
  BY <1>4, EventsType, Lengths, LengthsNext, EmptySeq
<1>9. CASE t # "SEND_DATA" /\ t # "SEND_FILE"
  <2>1. UNCHANGED <<writeBuf, sendBuf, file>> /\ ~InFile'
    BY <1>1, <1>3, <1>9 DEF Handle, Fail, sendVars, Goto, InFile
  <2>2. (Ahead("SEND_DATA") => Ahead("SEND_DATA")') /\ (Ahead("SEND_FILE") => Ahead("SEND_FILE")')
    BY <1>6, <1>7, <1>9
  <2>3. Written' >= Written /\ Filed' >= Filed
    BY <1>3, <1>8, <2>1, <2>2 DEF Written, Filed, Lens
  <2> QED BY <1>1, <1>5, <1>8, <2>1, <2>3 DEF Due, Lens
<1>10. ASSUME t = "SEND_DATA" \/ t = "SEND_FILE" PROVE ~Unexpected(t)
  <2>1. state # "FAILED"
    BY <1>4 DEF Alive
  <2>2. state # "STARTING"
    BY <1>1, <1>2, <1>10 DEF CallInv
  <2> QED BY <1>3, <1>10, <2>1, <2>2 DEF Unexpected
<1>11. CASE t = "SEND_DATA"
  <2>1. /\ IF writeBuf = <<>> THEN UNCHANGED <<writeBuf, sendBuf, at, back>>
           ELSE writeBuf' = sendBuf /\ sendBuf' = writeBuf /\ Goto("sending")
        /\ UNCHANGED file
    BY <1>1, <1>10, <1>11 DEF Handle
  <2>2. sendBuf' = writeBuf /\ ~InFile' /\ file' = file
    BY <1>1, <1>3, <1>4, <2>1 DEF Goto, InFile
  <2>3. Ahead("SEND_FILE") => Ahead("SEND_FILE")'
    BY <1>6, <1>7, <1>11
  <2>4. Filed' >= Filed /\ Len(sendBuf') >= Written
    BY <1>3, <1>8, <2>2, <2>3 DEF Written, Filed, Lens
  <2>5. owed' = owed /\ Len(wire') = Len(wire)
    BY <1>1
  <2> QED BY <1>5, <1>8, <2>4, <2>5, SMTT(30) DEF Due, Lens
<1>12. CASE t = "SEND_FILE"
  <2>1. at' = "sendingFile" /\ file' = FileSize /\ UNCHANGED <<writeBuf, sendBuf>>
    BY <1>1, <1>4, <1>10, <1>12 DEF Handle, Goto, Alive
  <2>2. Ahead("SEND_DATA") => Ahead("SEND_DATA")'
    BY <1>6, <1>7, <1>12
  <2>3. InFile'
    BY <2>1 DEF InFile
  <2>4. Written' >= Written /\ Filed' >= Filed
    BY <1>3, <1>8, <2>1, <2>2, <2>3 DEF Written, Filed, Lens
  <2> QED BY <1>1, <1>5, <1>8, <2>1, <2>4 DEF Due, Lens
<1> QED BY <1>9, <1>11, <1>12

LEMMA ConnectionPolite ==
    TypeOK /\ CallInv /\ PoliteInv /\ (Connect \/ CheckSocket \/ Stop \/ Send \/ TransmitDone \/ Read) => PoliteInv'
<1> SUFFICES ASSUME TypeOK, CallInv, PoliteInv, Connect \/ CheckSocket \/ Stop \/ Send \/ TransmitDone \/ Read,
                    Alive', "DISCONNECT" \in ToSet(tasks')
             PROVE  (owed <= Due)'
  BY DEF PoliteInv
<1>1. UNCHANGED <<disconnecting, tasks, writeBuf, asked, owed>>
  BY DEF Connect, CheckSocket, Stop, Send, TransmitDone, Receive, Closed, Read, ownerVars
<1>2. state' = "FAILED" \/ state' = state
  BY DEF Connect, CheckSocket, Stop, Send, TransmitDone, Receive, Closed, Read, Fail
<1>3. owed <= Due /\ Alive
  BY <1>1, <1>2 DEF Alive, PoliteInv
<1>4. Written' = Written /\ (Ahead("SEND_FILE")' <=> Ahead("SEND_FILE"))
  BY <1>1 DEF Ahead, Written
<1>5. ASSUME UNCHANGED sendVars, InFile' <=> InFile PROVE (owed <= Due)'
  <2>1. Filed' = Filed
    BY <1>4, <1>5 DEF Filed, sendVars
  <2> QED BY <1>1, <1>3, <1>4, <1>5, <2>1 DEF Due, sendVars
<1>6. Lens
  BY Lengths
<1>7. ASSUME NEW from \in {"events", "sending", "sendingFile"}, Receive(from),
             at = from \/ (from = "events" /\ at = "polling")
      PROVE  (owed <= Due)'
  BY <1>5, <1>7 DEF Receive, InFile
<1>8. ASSUME Closed, at \in Working \cup {"sending"} PROVE FALSE
  BY <1>8 DEF Closed, Fail, CallInv, Alive
<1>9. CASE Connect
  BY <1>5, <1>9 DEF Connect, Fail, Goto, InFile
<1>10. CASE CheckSocket
  <2>1. CASE at = "polling" /\ (Receive("events") \/ Closed)
    BY <1>7, <1>8, <2>1 DEF Working
  <2>2. CASE at \in {"events", "polling"} /\ at' \in {"events", "polling"} /\ UNCHANGED sendVars
    BY <1>5, <2>2 DEF InFile
  <2> QED BY <1>10, <2>1, <2>2 DEF CheckSocket, Goto
<1>11. CASE Stop
  BY <1>3, <1>11 DEF Stop, Alive
<1>12. CASE TransmitDone
  <2>1. InFile /\ ~InFile' /\ file = 0 /\ UNCHANGED <<sendBuf, wire, file>>
    BY <1>12 DEF TransmitDone, Goto, InFile, sendVars
  <2>2. Filed' = Filed
    BY <1>4, <1>6, <2>1 DEF Filed, Lens
  <2> QED BY <1>1, <1>3, <1>4, <1>6, <2>1, <2>2 DEF Due
<1>13. CASE Send
  <2>1. CASE \E from \in {"sending", "sendingFile"} : at = from /\ Receive(from)
    BY <1>7, <2>1
  <2>2. CASE at \in {"sending", "sendingFile"} /\ Closed
    BY <1>8, <2>2 DEF Working
  <2>3. CASE /\ at = "sending" /\ sendBuf # <<>>
             /\ wire' = Append(wire, Head(sendBuf)) /\ sendBuf' = Tail(sendBuf)
             /\ Goto(IF Len(sendBuf) = 1 THEN "events" ELSE "sending")
             /\ UNCHANGED <<ownerVars, state, up, file, readVars>>
    <3>1. ~InFile /\ ~InFile'
      BY <2>3 DEF Goto, InFile
    <3>2. Len(wire') = Len(wire) + 1 /\ Len(sendBuf') = Len(sendBuf) - 1
      <4>1. sendBuf \in Seq(Nat) /\ wire \in Seq(Nat)
        BY Parts DEF SendTypes
      <4>2. Head(sendBuf) \in Nat
        BY <2>3, <4>1, HeadCat
      <4> QED BY <2>3, <4>1, <4>2, AppendProperties, HeadTailProperties
    <3>3. Filed' = Filed
      BY <1>4, <3>1 DEF Filed
    <3> QED BY <1>1, <1>3, <1>4, <1>6, <3>2, <3>3 DEF Due, Lens
  <2>4. CASE /\ at = "sendingFile" /\ file > 0
             /\ wire' = Append(wire, FilePiece) /\ file' = file - 1
             /\ UNCHANGED <<ownerVars, state, at, back, up, sendBuf, readVars>>
    <3>1. InFile /\ InFile'
      BY <2>4 DEF InFile
    <3>2. Len(wire') = Len(wire) + 1
      BY <2>4, AppendProperties, Parts DEF SendTypes, FilePiece
    <3>3. Filed' = Filed - 1 /\ sendBuf' = sendBuf
      BY <1>4, <1>6, <2>4, <3>1 DEF Filed, Lens
    <3> QED BY <1>1, <1>3, <1>4, <1>6, <3>2, <3>3 DEF Due, Lens
  <2> QED BY <1>13, <2>1, <2>2, <2>3, <2>4 DEF Send
<1>14. CASE Read
  <2>1. UNCHANGED <<back, sendVars>> /\ at \in {"reading", "unzipped"} /\ at' \in {"reading", "unzipped", back}
    BY <1>14 DEF Read, ReadLine, Unzip, UnzippedLine, ReadData, ReadFlow, EndOfRead, Goto
  <2>2. InFile' <=> InFile
    BY <2>1 DEF InFile
  <2> QED BY <1>5, <2>1, <2>2
<1> QED BY <1>9, <1>10, <1>11, <1>12, <1>13, <1>14

LEMMA PoliteStep == TypeOK /\ CallInv /\ WaitInv /\ OrderInv /\ PoliteInv /\ [Next]_vars => PoliteInv'
<1> SUFFICES ASSUME TypeOK, CallInv, WaitInv, OrderInv, PoliteInv, [Next]_vars PROVE PoliteInv'
  OBVIOUS
<1>1. CASE UNCHANGED vars
  BY <1>1 DEF vars, ownerVars, sendVars, PoliteInv, Alive, Due, Written, Filed, Ahead, InFile
<1> QED BY <1>1, OwnerPolite, EventsPolite, ConnectionPolite DEF Next, Thread

(* When the first disconnect comes up, nothing stands before it any more.        *)
LEMMA NothingDue ==
    ASSUME TypeOK, WaitInv, PoliteInv, at = "events", state = "RUNNING", tasks # <<>>,
           Head(tasks) = "DISCONNECT", ~disconnecting
    PROVE  Len(wire) >= owed
<1>1. Alive /\ ~InSend /\ ~InFile
  BY DEF Alive, InSend, InFile
<1>2. tasks \in Seq(Tasks) /\ tasks[1] = "DISCONNECT" /\ Len(tasks) \in Nat \ {0}
  BY HeadTailProperties, EmptySeq, Parts DEF OwnerTypes
<1>3. "DISCONNECT" \in ToSet(tasks)
  BY <1>2, TaskAt
<1>4. \A t : ~Ahead(t)
  BY <1>2 DEF Ahead
<1>5. Len(sendBuf) = 0
  BY <1>1, EmptySeq DEF WaitInv
<1>6. Lens
  BY Lengths
<1>7. Due = Len(wire)
  <2>1. Written = 0 /\ Filed = 0
    BY <1>1, <1>4 DEF Written, Filed
  <2> QED BY <1>5, <1>6, <2>1 DEF Due, Lens
<1> QED BY <1>1, <1>3, <1>6, <1>7 DEF PoliteInv, Lens

(* Under the same conditions, who asks for a polite disconnect has sent what it    *)
(* asked for before, an error message or the end of a file.                      *)
THEOREM PoliteIsAlwaysComplete ==
    ASSUME "early" \notin Env, "pipelined" \notin Env PROVE Spec => PoliteIsComplete
<1>1. Spec => [](TypeOK /\ CallInv /\ WaitInv /\ OrderInv)
  BY OrderAlways
<1>2. TypeOK /\ WaitInv /\ PoliteInv =>
         [at = "events" /\ state = "RUNNING" /\ tasks # <<>> /\ Head(tasks) = "DISCONNECT"
             /\ ~disconnecting /\ CheckEvents => Len(wire) >= owed]_vars
  BY NothingDue
<1> QED BY <1>1, <1>2, PoliteInit, PoliteStep, PTL DEF Spec, PoliteIsComplete
================================================================================
