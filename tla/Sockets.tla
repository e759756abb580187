-------------------------------- MODULE Sockets --------------------------------
(***************************************************************************)
(* One BufferedSocket: the thread that owns the connection, the tasks other    *)
(* threads give it, the bytes it sends and the lines and data it reads        *)
(* (BufferedSocket.cpp, BufferedSocket.h, Speaker.h).                        *)
(*                                                                         *)
(* fire() holds listenerCS until the callback returns and removeListeners      *)
(* takes it, so a callback is one step and none runs once putSocket is over.   *)
(***************************************************************************)
EXTENDS Naturals, Sequences, SequencesExt

CONSTANTS
    Symbols,    \* what bytes may be: "|" separates lines, for others see ModeFor
    Streams,    \* what the other side may send
    DataSize,   \* bytes of a data transfer that we receive
    FileSize,   \* pieces of a file that we send
    MaxAsked,   \* bound: pieces that the owner sends
    MaxTasks,   \* bound: tasks that wait at once
    Env         \* "early": calls before connect(); "pipelined": writes behind a file

ASSUME SocketAssumption ==
    /\ DataSize \in Nat \ {0} /\ FileSize \in Nat /\ MaxAsked \in Nat /\ MaxTasks \in Nat
    /\ Env \subseteq {"early", "pipelined"} /\ Streams \subseteq Seq(Symbols)

VARIABLES
    \* the owner's side
    sock,           \* "none", "bound" or "started": connect() or accept() posted its task
    owned,          \* FALSE once putSocket removed the listeners
    disconnecting,
    tasks,
    writeBuf,
    asked,          \* ghost: what the owner asked to send, in the order of its calls
    owed,           \* ghost: how much of it before the first polite disconnect
    \* the thread's side
    state,
    at,             \* where the thread is
    back,           \* where it returns to from threadRead
    up,             \* ghost: the connection stands: Connected was fired, or it was accepted
    sendBuf,
    file,           \* pieces of the file left to send
    wire,           \* ghost: what was sent
    \* reading
    stream,         \* the other side's bytes, chosen once
    got,            \* how many of them were read
    inbuf,          \* bytes of this read that threadRead still has to handle
    line,
    mode,           \* "LINE", "ZPIPE", "DATA" (a size is known) or "FLOW" (dataBytes is -1)
    dataBytes,      \* bytes until the data ends; in "FLOW" only the listener knows
    heard           \* ghost: lines and bytes that the listener was given

ownerVars == <<sock, owned, disconnecting, tasks, writeBuf, asked, owed>>
sendVars == <<sendBuf, file, wire>>
readVars == <<stream, got, inbuf, line, mode, dataBytes, heard>>
vars == <<ownerVars, state, at, back, up, sendVars, readVars>>

Places == {"events", "connecting", "accepting", "polling", "sending", "sendingFile",
           "reading", "unzipped", "gone"}

(* A piece of what was written is a number of its own, one of a file is 0.     *)
FilePiece == 0

Tasks == {"CONNECT", "ACCEPTED", "SEND_DATA", "SEND_FILE", "DISCONNECT", "UPDATED", "SHUTDOWN"}

TypeOK ==
    /\ sock \in {"none", "bound", "started"}
    /\ owned \in BOOLEAN /\ disconnecting \in BOOLEAN /\ up \in BOOLEAN
    /\ tasks \in Seq(Tasks)
    /\ writeBuf \in Seq(Nat) /\ sendBuf \in Seq(Nat)
    /\ asked \in Seq(Nat) /\ wire \in Seq(Nat) /\ owed \in Nat
    /\ state \in {"STARTING", "RUNNING", "FAILED"}
    /\ at \in Places /\ back \in {"events", "sending", "sendingFile"}
    /\ file \in 0 .. FileSize
    /\ stream \in Streams /\ got \in 0 .. Len(stream)
    /\ inbuf \in Seq(Symbols) /\ line \in Seq(Symbols)
    /\ mode \in {"LINE", "ZPIPE", "DATA", "FLOW"} /\ dataBytes \in 0 .. DataSize
    /\ heard \in Seq({"Line", "Data"} \X Seq(Symbols))

Init ==
    /\ sock = "none" /\ owned = TRUE /\ disconnecting = FALSE /\ tasks = <<>>
    /\ writeBuf = <<>> /\ asked = <<>> /\ owed = 0
    /\ state = "STARTING" /\ at = "events" /\ back = "events" /\ up = FALSE
    /\ sendBuf = <<>> /\ file = 0 /\ wire = <<>>
    /\ stream \in Streams /\ got = 0 /\ inbuf = <<>> /\ line = <<>>
    /\ mode = "LINE" /\ dataBytes = 0 /\ heard = <<>>

-----------------------------------------------------------------------------
(* The owner: any thread that holds the pointer, callbacks included.          *)

(* Mutant: the last task comes first.                                        *)
TasksAtFront(task) == tasks' = <<task>> \o tasks
Post(task) == tasks' = Append(tasks, task)
Room == Len(tasks) < MaxTasks

(* Nobody writes to or disconnects a socket that has no task yet, except in     *)
(* the moment between getSocket and connect, which "early" allows.              *)
Usable == owned /\ (sock = "started" \/ "early" \in Env)

(* create and setSocket, which may throw: the socket is then put back.        *)
Bind ==
    /\ owned /\ sock = "none"
    /\ sock' = "bound"
    /\ UNCHANGED <<owned, disconnecting, tasks, writeBuf, asked, owed, state, at, back, up, sendVars, readVars>>

Start ==
    /\ owned /\ sock = "bound" /\ Room
    /\ sock' = "started" /\ \E task \in {"CONNECT", "ACCEPTED"} : Post(task)
    /\ UNCHANGED <<owned, disconnecting, writeBuf, asked, owed, state, at, back, up, sendVars, readVars>>

FilePending == "SEND_FILE" \in ToSet(tasks) \/ at = "sendingFile"
                  \/ (back = "sendingFile" /\ at \in {"reading", "unzipped"})

(* Mutant: no task is posted while the thread sends.                          *)
PostUnlessSending ==
    /\ Usable /\ sock # "none" /\ Len(asked) < MaxAsked
    /\ FilePending => "pipelined" \in Env
    /\ IF writeBuf = <<>> /\ at # "sending" THEN Room /\ Post("SEND_DATA") ELSE UNCHANGED tasks
    /\ asked' = Append(asked, Len(asked) + 1) /\ writeBuf' = Append(writeBuf, Len(asked) + 1)
    /\ UNCHANGED <<sock, owned, disconnecting, owed, state, at, back, up, sendVars, readVars>>

Write ==
    /\ Usable /\ sock # "none" /\ Len(asked) < MaxAsked
    /\ FilePending => "pipelined" \in Env
    /\ IF writeBuf = <<>> THEN Room /\ Post("SEND_DATA") ELSE UNCHANGED tasks
    /\ asked' = Append(asked, Len(asked) + 1) /\ writeBuf' = Append(writeBuf, Len(asked) + 1)
    /\ UNCHANGED <<sock, owned, disconnecting, owed, state, at, back, up, sendVars, readVars>>

(* An upload sends its file over a standing connection, one at a time.        *)
TransmitFile ==
    /\ Usable /\ up /\ ~FilePending /\ Room /\ Len(asked) + FileSize <= MaxAsked
    /\ asked' = asked \o [i \in 1 .. FileSize |-> FilePiece] /\ Post("SEND_FILE")
    /\ UNCHANGED <<sock, owned, disconnecting, writeBuf, owed, state, at, back, up, sendVars, readVars>>

Disconnect(graceless) ==
    /\ Usable /\ Room /\ Post("DISCONNECT")
    /\ disconnecting' = (disconnecting \/ graceless)
    /\ owed' = IF ~graceless /\ "DISCONNECT" \notin ToSet(tasks) THEN Len(asked) ELSE owed
    /\ UNCHANGED <<sock, owned, writeBuf, asked, state, at, back, up, sendVars, readVars>>

(* Bound: one at a time.                                                    *)
Updated ==
    /\ Usable /\ Room /\ "UPDATED" \notin ToSet(tasks) /\ Post("UPDATED")
    /\ UNCHANGED <<sock, owned, disconnecting, writeBuf, asked, owed, state, at, back, up, sendVars, readVars>>

(* removeListeners and shutdown.                                             *)
PutSocket ==
    /\ owned
    /\ owned' = FALSE /\ disconnecting' = TRUE /\ Post("SHUTDOWN")
    /\ UNCHANGED <<sock, writeBuf, asked, owed, state, at, back, up, sendVars, readVars>>

Owner ==
    \/ Bind \/ Start \/ Write \/ TransmitFile \/ Updated \/ PutSocket
    \/ \E graceless \in BOOLEAN : Disconnect(graceless)

-----------------------------------------------------------------------------
(* The thread: run, checkEvents and what they call.                          *)

Goto(place) == at' = place /\ UNCHANGED back

(* An exception ends in fail: Failed is fired once, by a running connection.    *)
Fail ==
    /\ state' = IF state = "RUNNING" THEN "FAILED" ELSE state
    /\ Goto("events")

(* The next task; only SHUTDOWN and UPDATED do not depend on the state, what   *)
(* is unexpected is dropped.                                                 *)
Unexpected(task) ==
    /\ task \notin {"SHUTDOWN", "UPDATED"}
    /\ task \notin (CASE state = "STARTING" -> {"CONNECT", "ACCEPTED"}
                      [] state = "RUNNING"  -> {"SEND_DATA", "SEND_FILE", "DISCONNECT"}
                      [] OTHER              -> {})

Handle(task) ==
    \/ /\ task = "SHUTDOWN" /\ Goto("gone")
       /\ UNCHANGED <<state, writeBuf, sendVars>>
    \/ /\ task = "UPDATED" \/ Unexpected(task)
       /\ UNCHANGED <<state, at, back, writeBuf, sendVars>>
    \/ /\ ~Unexpected(task) /\ task \in {"CONNECT", "ACCEPTED"}
       /\ state' = "RUNNING" /\ Goto(IF task = "CONNECT" THEN "connecting" ELSE "accepting")
       /\ UNCHANGED <<writeBuf, sendVars>>
    \/ /\ ~Unexpected(task) /\ task = "SEND_DATA"
       /\ IF writeBuf = <<>> THEN UNCHANGED <<writeBuf, sendBuf, at, back>>
          ELSE writeBuf' = sendBuf /\ sendBuf' = writeBuf /\ Goto("sending")
       /\ UNCHANGED <<state, file, wire>>
    \/ /\ ~Unexpected(task) /\ task = "SEND_FILE"
       /\ Goto(IF disconnecting THEN "polling" ELSE "sendingFile")
       /\ file' = IF disconnecting THEN file ELSE FileSize
       /\ UNCHANGED <<state, writeBuf, sendBuf, wire>>
    \/ /\ ~Unexpected(task) /\ task = "DISCONNECT" /\ Fail
       /\ UNCHANGED <<writeBuf, sendVars>>

CheckEvents ==
    /\ at = "events" /\ tasks # <<>>
    /\ tasks' = Tail(tasks) /\ Handle(Head(tasks))
    /\ UNCHANGED <<sock, owned, disconnecting, asked, owed, up, readVars>>

(* threadConnect and threadAccept: the connection stands, or 30 seconds are    *)
(* over or an error comes, or the thread is told to stop and just returns.     *)
Connect ==
    /\ at \in {"connecting", "accepting"}
    /\ \/ up' = TRUE /\ Goto("events") /\ UNCHANGED state
       \/ disconnecting /\ Goto("events") /\ UNCHANGED <<state, up>>
       \/ Fail /\ UNCHANGED up
    /\ UNCHANGED <<ownerVars, sendVars, readVars>>

(* threadRead: the bytes that have come, or the other side's close.          *)
Receive(from) ==
    /\ got < Len(stream)
    /\ \E n \in got + 1 .. Len(stream) : got' = n /\ inbuf' = SubSeq(stream, got + 1, n)
    /\ at' = "reading" /\ back' = from
    /\ UNCHANGED <<ownerVars, state, up, sendVars, stream, line, mode, dataBytes, heard>>

Closed == Fail /\ UNCHANGED <<ownerVars, up, sendVars, readVars>>

(* checkSocket, when no task waits.                                          *)
CheckSocket ==
    \/ /\ at = "events" /\ tasks = <<>> /\ state = "RUNNING" /\ Goto("polling")
       /\ UNCHANGED <<ownerVars, state, up, sendVars, readVars>>
    \/ at = "polling" /\ Receive("events")
    \/ at = "polling" /\ Closed
    \/ /\ at = "polling" /\ Goto("events")
       /\ UNCHANGED <<ownerVars, state, up, sendVars, readVars>>

(* Mutants: the loop that sends a file does not look at disconnecting, or any     *)
(* disconnect that waits ends a transfer.                                    *)
StopWriting ==
    /\ at = "sending" /\ disconnecting /\ Goto("events")
    /\ UNCHANGED <<ownerVars, state, up, sendVars, readVars>>

StopEarly ==
    /\ at \in {"sending", "sendingFile"} /\ (disconnecting \/ "DISCONNECT" \in ToSet(tasks))
    /\ Goto(IF at = "sending" THEN "events" ELSE "polling")
    /\ UNCHANGED <<ownerVars, state, up, sendVars, readVars>>

(* threadSendData and threadSendFile: both read while they wait to write, and   *)
(* return as they are when they are told to stop.                            *)
Stop ==
    /\ at \in {"sending", "sendingFile"} /\ disconnecting
    /\ Goto(IF at = "sending" THEN "events" ELSE "polling")
    /\ UNCHANGED <<ownerVars, state, up, sendVars, readVars>>

Send ==
    /\ ~disconnecting
    /\ \/ at = "sending" /\ Receive("sending")
       \/ at = "sendingFile" /\ Receive("sendingFile")
       \/ at \in {"sending", "sendingFile"} /\ Closed
       \/ /\ at = "sending" /\ sendBuf # <<>>
          /\ wire' = Append(wire, Head(sendBuf)) /\ sendBuf' = Tail(sendBuf)
          /\ Goto(IF Len(sendBuf) = 1 THEN "events" ELSE "sending")
          /\ UNCHANGED <<ownerVars, state, up, file, readVars>>
       \/ /\ at = "sendingFile" /\ file > 0
          /\ wire' = Append(wire, FilePiece) /\ file' = file - 1
          /\ UNCHANGED <<ownerVars, state, at, back, up, sendBuf, readVars>>

(* Everything was read and written: TransmitDone.                            *)
TransmitDone ==
    /\ at = "sendingFile" /\ file = 0 /\ ~disconnecting
    /\ Goto("polling")
    /\ UNCHANGED <<ownerVars, state, up, sendVars, readVars>>

-----------------------------------------------------------------------------
(* threadRead, one callback at a time.                                       *)

(* The position of the first c of s, and 1 + Len(s) when there is none.       *)
IndexOf(s, c) ==
    LET N == {i \in 1 .. Len(s) : s[i] = c}
    IN  IF N = {} THEN Len(s) + 1 ELSE CHOOSE i \in N : \A j \in N : i <= j

Before(s, i) == SubSeq(s, 1, i - 1)
After(s, i) == SubSeq(s, i + 1, Len(s))

(* What the listener does with a line: a hub turns compression on, a download   *)
(* or an HTTP reply starts data, of a size the socket is told or not.          *)
ModeFor(l, m) ==
    CASE "z" \in ToSet(l) -> "ZPIPE"
      [] "d" \in ToSet(l) -> "DATA"
      [] "f" \in ToSet(l) -> "FLOW"
      [] OTHER            -> m

Data(s) == [i \in 1 .. Len(s) |-> <<"Data", <<s[i]>>>>]

(* fire(Line), unless the line is empty; without listeners nothing happens.    *)
FireLine(l, m) ==
    IF l = <<>> \/ ~owned THEN mode' = m /\ UNCHANGED <<dataBytes, heard>>
    ELSE /\ heard' = Append(heard, <<"Line", l>>)
         /\ mode' = ModeFor(l, m)
         /\ dataBytes' = IF mode' \in {"DATA", "FLOW"} THEN DataSize ELSE dataBytes

FireData(s) == heard' = IF owned THEN heard \o Data(s) ELSE heard

ReadLine ==
    /\ at = "reading" /\ mode = "LINE" /\ inbuf # <<>>
    /\ LET i == IndexOf(inbuf, "|")
       IN  /\ inbuf' = After(inbuf, i)
           /\ IF i <= Len(inbuf) THEN FireLine(line \o Before(inbuf, i), mode) /\ line' = <<>>
              ELSE line' = line \o inbuf /\ UNCHANGED <<mode, dataBytes, heard>>
    /\ UNCHANGED <<at, back>>

(* Mutant: what follows the compressed part in the same read is lost.           *)
UnzipAll ==
    /\ at = "reading" /\ mode = "ZPIPE" /\ inbuf # <<>>
    /\ LET i == IndexOf(inbuf, "e")
       IN  /\ inbuf' = <<>> /\ line' = line \o Before(inbuf, i)
           /\ mode' = IF i <= Len(inbuf) THEN "LINE" ELSE mode
    /\ Goto("unzipped") /\ UNCHANGED <<dataBytes, heard>>

(* All that was read is decompressed first, up to the end of the stream, ...    *)
Unzip ==
    /\ at = "reading" /\ mode = "ZPIPE" /\ inbuf # <<>>
    /\ LET i == IndexOf(inbuf, "e")
       IN  /\ inbuf' = After(inbuf, i) /\ line' = line \o Before(inbuf, i)
           /\ mode' = IF i <= Len(inbuf) THEN "LINE" ELSE mode
    /\ Goto("unzipped") /\ UNCHANGED <<dataBytes, heard>>

(* ... and then cut into lines, whatever the mode is by now.                 *)
UnzippedLine ==
    /\ at = "unzipped"
    /\ LET i == IndexOf(line, "|")
       IN  IF i <= Len(line)
           THEN FireLine(Before(line, i), mode) /\ line' = After(line, i) /\ UNCHANGED <<at, back>>
           ELSE Goto("reading") /\ UNCHANGED <<line, mode, dataBytes, heard>>
    /\ UNCHANGED inbuf

(* Mutant: the size of the data is not looked at.                             *)
ReadTooMuch ==
    /\ at = "reading" /\ mode = "DATA" /\ inbuf # <<>>
    /\ FireData(inbuf) /\ inbuf' = <<>>
    /\ dataBytes' = dataBytes - Len(inbuf)
    /\ mode' = IF dataBytes' = 0 THEN "LINE" ELSE mode
    /\ UNCHANGED <<at, back, line>>

ReadData ==
    /\ at = "reading" /\ mode = "DATA" /\ inbuf # <<>>
    /\ LET high == IF dataBytes < Len(inbuf) THEN dataBytes ELSE Len(inbuf)
       IN  /\ FireData(SubSeq(inbuf, 1, high)) /\ inbuf' = After(inbuf, high)
           /\ dataBytes' = dataBytes - high
           /\ mode' = IF dataBytes' = 0 THEN "LINE" ELSE mode
    /\ UNCHANGED <<at, back, line>>

(* All of it is data; who listens goes back to lines at the end of the file.   *)
ReadFlow ==
    /\ at = "reading" /\ mode = "FLOW" /\ inbuf # <<>>
    /\ FireData(inbuf) /\ inbuf' = <<>>
    /\ dataBytes' = IF dataBytes < Len(inbuf) THEN 0 ELSE dataBytes - Len(inbuf)
    /\ mode' = IF dataBytes' = 0 /\ owned THEN "LINE" ELSE mode
    /\ UNCHANGED <<at, back, line>>

EndOfRead ==
    /\ at = "reading" /\ inbuf = <<>>
    /\ at' = back /\ UNCHANGED <<back, inbuf, line, mode, dataBytes, heard>>

Read ==
    /\ ReadLine \/ Unzip \/ UnzippedLine \/ ReadData \/ ReadFlow \/ EndOfRead
    /\ UNCHANGED <<ownerVars, state, up, sendVars, stream, got>>

Thread == CheckEvents \/ Connect \/ CheckSocket \/ Stop \/ Send \/ TransmitDone \/ Read

Next == Owner \/ Thread

Spec == Init /\ [][Next]_vars

(* The thread runs on; it depends on the other side only to send, which it      *)
(* stops when told, while waits for a connection or for bytes end by themselves. *)
Fairness ==
    /\ WF_vars(CheckEvents) /\ WF_vars(Connect) /\ WF_vars(CheckSocket)
    /\ WF_vars(Stop) /\ WF_vars(Read)
FairSpec == Spec /\ Fairness

-----------------------------------------------------------------------------
(* What was asked is sent in the order of the calls, nothing twice: writes      *)
(* change buffers while the thread sends, and files pass by both buffers       *)
(* (BufferedSocket::write, threadSendData, threadSendFile).                   *)
SentInOrder == IsPrefix(wire, asked)

(* Bytes that wait have a task that sends them: write posts one only when the    *)
(* buffer was empty, so one that is lost is lost for all writes to come.       *)
WaitingIsScheduled ==
    writeBuf # <<>> /\ state # "FAILED" /\ ~disconnecting => "SEND_DATA" \in ToSet(tasks)

(* A polite disconnect comes after all that was asked before it: "error and      *)
(* disconnect" is how uploads are refused (BufferedSocket::disconnect).        *)
PoliteIsComplete ==
    [][at = "events" /\ state = "RUNNING" /\ tasks # <<>> /\ Head(tasks) = "DISCONNECT"
          /\ ~disconnecting /\ CheckEvents => Len(wire) >= owed]_vars

(* The reader one symbol at a time: what threadRead must make of a stream.      *)
ReadSymbol(r, c) ==
    LET lines == r.mode \in {"LINE", "ZPIPE"}
        over == lines /\ c = "|" /\ r.line # <<>>
        next == IF over THEN ModeFor(r.line, r.mode) ELSE r.mode
    IN  CASE ~lines -> [r EXCEPT !.out = Append(@, <<"Data", <<c>>>>), !.left = @ - 1,
                                 !.mode = IF r.left = 1 THEN "LINE" ELSE @]
          [] r.mode = "ZPIPE" /\ c = "e" -> [r EXCEPT !.mode = "LINE"]
          [] over -> [mode |-> next, line |-> <<>>, out |-> Append(r.out, <<"Line", r.line>>),
                      left |-> IF next \in {"DATA", "FLOW"} THEN DataSize ELSE r.left]
          [] lines /\ ~over /\ c = "|" -> r
          [] OTHER -> [r EXCEPT !.line = Append(@, c)]

Fresh == [mode |-> "LINE", line |-> <<>>, out |-> <<>>, left |-> 0]

ReadFrom(r, s) ==
    LET read[n \in 0 .. Len(s)] == IF n = 0 THEN r ELSE ReadSymbol(read[n - 1], s[n])
    IN  read[Len(s)]

Delivered(s) == ReadFrom(Fresh, s).out

(* What this needs of the other side: no data and no compressed part begins      *)
(* within a compressed part, whose lines are all cut before the mode is looked   *)
(* at again, and nothing follows data whose size only the listener knows.       *)
WellFormed(s) ==
    \A n \in 0 .. Len(s) - 1 :
        LET r == ReadFrom(Fresh, SubSeq(s, 1, n))
        IN  /\ r.mode = "ZPIPE" => s[n + 1] \notin {"z", "d", "f"}
            /\ r.mode = "FLOW" => Len(s) - n <= r.left

(* However the network cuts the stream into reads, and wherever lines, data and  *)
(* compressed parts meet in one of them, the listener is given the same lines    *)
(* and bytes (BufferedSocket::threadRead).                                    *)
HeardAsSent ==
    owned => /\ IsPrefix(heard, Delivered(SubSeq(stream, 1, got)))
             /\ at \notin {"reading", "unzipped"} => heard = Delivered(SubSeq(stream, 1, got))

(* The callbacks come in their order and once, none after putSocket, and what    *)
(* is told to stop stops: the socket keeps the promises of SocketCalls.         *)
Life == IF at = "gone" THEN "gone"
        ELSE IF state = "STARTING" THEN "new"
        ELSE IF state = "FAILED" THEN "over"
        ELSE IF up THEN "up" ELSE "trying"

Calls == INSTANCE SocketCalls WITH life <- Life, leaving <- disconnecting
KeepsCalls == Calls!FairSpec
================================================================================
