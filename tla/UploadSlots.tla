------------------------------ MODULE UploadSlots ------------------------------
(***************************************************************************)
(* UploadManager: which upload connection gets a slot, the queue of users    *)
(* that were turned away, the users that were promised a slot and asked to    *)
(* come back, the uploads that rest between two chunks (delayUploads), and    *)
(* the end of a connection as UploadManager and ConnectionManager handle it.  *)
(*                                                                         *)
(* One action is one critical section.  Everything runs under                *)
(* UploadManager::cs except the slot counters in removeConnection.           *)
(***************************************************************************)
EXTENDS Integers, Sequences, FiniteSets

CONSTANTS
    Users,          \* remote users that download from us
    Conns,          \* upload connections that can exist at a time
    NoUser,         \* the null UserPtr
    Slots,          \* getSlots()
    ExtraSlots,     \* SETTING(EXTRA_SLOTS), for small files and file lists
    PartialSlots,   \* SETTING(EXTRA_PARTIAL_SLOTS), for partially shared files
    AutoSlots,      \* SETTING(AUTO_SLOTS), opened while uploads are slow
    Favorites,      \* users with FavoriteManager::hasSlot
    Env             \* what may happen beside the normal case, see Events

(* race:    two threads are in removeConnection at once (it takes no lock)   *)
(* reserve: the user reserves slots by hand                                  *)
(* auto:    MIN_UPLOAD_SPEED is set, so slow uploads open more slots         *)
(* op:      hub operators download from us                                   *)
Events == {"race", "reserve", "auto", "op"}

ASSUME ConnsAssumption == IsFiniteSet(Conns) /\ NoUser \notin Users
ASSUME SlotAssumption ==
    /\ Slots \in 1..255 /\ ExtraSlots \in Nat /\ PartialSlots \in Nat /\ AutoSlots \in Nat
ASSUME EnvAssumption == Env \subseteq Events /\ Favorites \subseteq Users

VARIABLES
    online,        \* User::ONLINE
    uploadItems,   \* ConnectionManager::uploads: users that have an upload item
    conn,          \* the UserConnection objects
    uploads,       \* connections whose Upload is in UploadManager::uploads
    delayUploads,  \* connections whose Upload is in UploadManager::delayUploads
    count,         \* the counters running, extra and extraPartial
    uploadQueue,   \* users that wait for a slot, in order
    connecting,    \* connectingUsers: minutes since the user was called, or Absent
    reservedSlots  \* users with a reserved slot

vars == <<online, uploadItems, conn, uploads, delayUploads, count, uploadQueue,
          connecting, reservedSlots>>

------------------------------------------------------------------------------
Taken  == {"STD", "EXTRA", "PARTIAL"}
Absent == -1

(* pc: events (waits for a command), failed (ConnectionManager is done with  *)
(* it, UploadManager is not), lost (its slot is to be given back), store (it  *)
(* has read the counter, old, and is to write it).  upload: getUpload() is    *)
(* not null.                                                                 *)
Conn == [user : Users \cup {NoUser}, state : {"FREE", "GET", "SEND", "RUNNING"},
         slot : Taken \cup {"NO"}, upload : BOOLEAN,
         pc : {"events", "failed", "lost", "store"}, old : 0..255]

NoConn == [user |-> NoUser, state |-> "FREE", slot |-> "NO", upload |-> FALSE,
           pc |-> "events", old |-> 0]

TypeOK ==
    /\ online \in [Users -> BOOLEAN]
    /\ uploadItems \subseteq Users /\ reservedSlots \subseteq Users
    /\ conn \in [Conns -> Conn]
    /\ uploads \subseteq Conns /\ delayUploads \subseteq Conns
    /\ count \in [Taken -> 0..255]
    /\ uploadQueue \in Seq(Users)
    /\ connecting \in [Users -> Absent..2]

Init ==
    /\ online = [u \in Users |-> TRUE]
    /\ uploadItems = {}
    /\ conn = [c \in Conns |-> NoConn]
    /\ uploads = {} /\ delayUploads = {}
    /\ count = [t \in Taken |-> 0]
    /\ uploadQueue = <<>>
    /\ connecting = [u \in Users |-> Absent]
    /\ reservedSlots = {}

(* The counters are uint8_t.                                                 *)
Byte(n) == n % 256

Connecting == {u \in Users : connecting[u] # Absent}
Waiting    == {uploadQueue[i] : i \in 1..Len(uploadQueue)}
FreeSlots  == IF Slots > count["STD"] THEN Slots - count["STD"] ELSE 0

(* clearUserFiles, for every user of S.                                      *)
Without(queue, S) ==
    LET kept[n \in 0 .. Len(queue)] ==
            IF n = 0 THEN <<>>
            ELSE IF queue[n] \in S THEN kept[n - 1] ELSE Append(kept[n - 1], queue[n])
    IN  kept[Len(queue)]

------------------------------------------------------------------------------
(* ConnectionManager::addUploadConnection, then addConnection.               *)
AddConnection(c, u) ==
    /\ conn[c].state = "FREE" /\ u \notin uploadItems
    /\ uploadItems' = uploadItems \cup {u}
    /\ conn' = [conn EXCEPT ![c] = [NoConn EXCEPT !.user = u, !.state = "GET"]]
    /\ UNCHANGED <<online, uploads, delayUploads, count, uploadQueue, connecting, reservedSlots>>

(* prepareFile: is a slot to be had?  file: "mini" is small enough for an    *)
(* extra slot (and the client supports them), "partial" is a file we are      *)
(* downloading ourselves.                                                    *)
AutoSlot == "auto" \in Env /\ count["STD"] <= Slots + AutoSlots

(* Mutant: whoever asks first takes a free slot, promised or not.            *)
AnyFreeSlot(u) == FreeSlots > 0

HasFreeSlot(u) ==
    FreeSlots > 0 /\ ((uploadQueue = <<>> /\ Connecting = {}) \/ u \in Connecting)

Entitled(u) == u \in reservedSlots \/ u \in Favorites \/ HasFreeSlot(u)

(* Mutant: the number of extra slots taken is not looked at.                 *)
SmallSlotUnlimited(c, file, op) ==
    IF file = "mini" THEN {"EXTRA"} ELSE IF file = "partial" THEN {"PARTIAL"} ELSE {}

SmallSlot(c, file, op) ==
    IF file = "mini" /\ (conn[c].slot = "EXTRA" \/ op \/ count["EXTRA"] < ExtraSlots)
    THEN {"EXTRA"}
    ELSE IF file = "partial" /\ (conn[c].slot = "PARTIAL" \/ count["PARTIAL"] < PartialSlots)
    THEN {"PARTIAL"}
    ELSE {}

(* The slots prepareFile may answer with; none: the user is turned away.     *)
Grants(c, file, op) ==
    LET u == conn[c].user IN
    IF conn[c].slot = "STD" \/ Entitled(u) THEN {"STD"}
    ELSE SmallSlot(c, file, op)

(* Mutant: the counter of the slot given up is not decremented.              *)
OnlyTaken(from, to) == [t \in Taken |-> IF t = to THEN Byte(count[t] + 1) ELSE count[t]]

Moved(from, to) ==
    [t \in Taken |-> CASE from # to /\ t = from -> Byte(count[t] - 1)
                       [] from # to /\ t = to   -> Byte(count[t] + 1)
                       [] OTHER                 -> count[t]]

(* on(GET) and on(Get), granted: the user waits no longer, the rest of the   *)
(* file this connection sent before is forgotten, the counters follow.       *)
StartUpload(c, file, op) ==
    LET u == conn[c].user IN
    /\ conn[c].pc = "events" /\ conn[c].state = "GET"
    /\ \E s \in Grants(c, file, op) \cup (IF AutoSlot THEN {"STD"} ELSE {}),
          state \in {"SEND", "RUNNING"} :
          /\ conn' = [conn EXCEPT ![c] = [@ EXCEPT !.slot = s, !.state = state, !.upload = TRUE]]
          /\ count' = Moved(conn[c].slot, s)
    /\ uploadQueue' = Without(uploadQueue, {u})
    /\ connecting' = [connecting EXCEPT ![u] = Absent]
    /\ delayUploads' = delayUploads \ {c}
    /\ uploads' = uploads \cup {c}
    /\ UNCHANGED <<online, uploadItems, reservedSlots>>

(* on(GET), refused: addFailedUpload; the connection will be closed.         *)
TurnAway(c, file, op) ==
    LET u == conn[c].user IN
    /\ conn[c].pc = "events" /\ conn[c].state = "GET"
    /\ Grants(c, file, op) = {}
    /\ uploadQueue' = IF u \in Waiting THEN uploadQueue ELSE Append(uploadQueue, u)
    /\ UNCHANGED <<online, uploadItems, conn, uploads, delayUploads, count, connecting,
                   reservedSlots>>

(* on(Send), the second half of the older handshake.                         *)
Send(c) ==
    /\ conn[c].pc = "events" /\ conn[c].state = "SEND"
    /\ conn' = [conn EXCEPT ![c].state = "RUNNING"]
    /\ UNCHANGED <<online, uploadItems, uploads, delayUploads, count, uploadQueue, connecting,
                   reservedSlots>>

(* on(TransmitDone).  chunked: more of the file may be asked for, so the     *)
(* upload stays, and getUpload() keeps pointing at it.                       *)
TransmitDone(c, chunked) ==
    /\ conn[c].pc = "events" /\ conn[c].state = "RUNNING"
    /\ uploads' = uploads \ {c}
    /\ delayUploads' = IF chunked THEN delayUploads \cup {c} ELSE delayUploads
    /\ conn' = [conn EXCEPT ![c] = [@ EXCEPT !.state = "GET", !.upload = chunked]]
    /\ UNCHANGED <<online, uploadItems, count, uploadQueue, connecting, reservedSlots>>

(* Mutant: the upload that rests is not looked for.                          *)
FailedLeavesDelayed(c) ==
    /\ conn[c].pc = "events" /\ conn[c].state # "FREE"
    /\ uploadItems' = uploadItems \ {conn[c].user}
    /\ conn' = [conn EXCEPT ![c].pc = "failed"]
    /\ UNCHANGED <<online, uploads, delayUploads, count, uploadQueue, connecting, reservedSlots>>

(* ConnectionManager::failed, the first listener: the item of the user goes, *)
(* and with it (putCQI, removeDelayUpload) the user's first delayed upload.  *)
Failed(c) ==
    LET u == conn[c].user
        mine == {d \in delayUploads : conn[d].user = u}
    IN  /\ conn[c].pc = "events" /\ conn[c].state # "FREE"
        /\ uploadItems' = uploadItems \ {u}
        /\ \/ /\ mine = {}
              /\ delayUploads' = delayUploads
              /\ conn' = [conn EXCEPT ![c].pc = "failed"]
           \/ \E d \in mine :
                 /\ delayUploads' = delayUploads \ {d}
                 /\ conn' = [e \in Conns |->
                        [conn[e] EXCEPT !.upload = @ /\ e # d,
                                        !.pc = IF e = c THEN "failed" ELSE @]]
        /\ UNCHANGED <<online, uploads, count, uploadQueue, connecting, reservedSlots>>

(* UploadManager::on(Failed), the next listener: its upload, if it has one,  *)
(* is taken out of uploads and deleted.                                      *)
UMFailed(c) ==
    /\ conn[c].pc = "failed"
    /\ uploads' = IF conn[c].upload THEN uploads \ {c} ELSE uploads
    /\ conn' = [conn EXCEPT ![c] = IF @.slot = "NO" THEN NoConn
                                   ELSE [@ EXCEPT !.upload = FALSE, !.pc = "lost"]]
    /\ UNCHANGED <<online, uploadItems, delayUploads, count, uploadQueue, connecting,
                   reservedSlots>>

(* removeConnection.  The decrement reads and writes a plain byte without a  *)
(* lock; if no other thread interferes it is one step.                       *)
SlotLost(c) ==
    /\ conn[c].pc = "lost"
    /\ count' = [count EXCEPT ![conn[c].slot] = Byte(@ - 1)]
    /\ conn' = [conn EXCEPT ![c] = NoConn]
    /\ UNCHANGED <<online, uploadItems, uploads, delayUploads, uploadQueue, connecting,
                   reservedSlots>>

SlotRead(c) ==
    /\ "race" \in Env /\ conn[c].pc = "lost"
    /\ conn' = [conn EXCEPT ![c].pc = "store", ![c].old = count[conn[c].slot]]
    /\ UNCHANGED <<online, uploadItems, uploads, delayUploads, count, uploadQueue, connecting,
                   reservedSlots>>

SlotWritten(c) ==
    /\ conn[c].pc = "store"
    /\ count' = [count EXCEPT ![conn[c].slot] = Byte(conn[c].old - 1)]
    /\ conn' = [conn EXCEPT ![c] = NoConn]
    /\ UNCHANGED <<online, uploadItems, uploads, delayUploads, uploadQueue, connecting,
                   reservedSlots>>

------------------------------------------------------------------------------
(* The timer.                                                                *)

(* on(Second), first part: chunked uploads nobody continued for 10 seconds.  *)
DelayedUploadsEnd ==
    \E gone \in (SUBSET delayUploads) \ {{}} :
        /\ delayUploads' = delayUploads \ gone
        /\ conn' = [c \in Conns |-> IF c \in gone THEN [conn[c] EXCEPT !.upload = FALSE]
                                                  ELSE conn[c]]
        /\ UNCHANGED <<online, uploadItems, uploads, count, uploadQueue, connecting,
                       reservedSlots>>

(* on(Second), second part: users are taken from the front of the queue as   *)
(* long as there is a free slot that is not promised; those online are       *)
(* called.  called(k): those online among the first k.                       *)
NotifyQueuedUsers ==
    LET called(k) == {u \in {uploadQueue[i] : i \in 1..k} : online[u]}
        room == FreeSlots - Cardinality(Connecting)
    IN  \E k \in 1..Len(uploadQueue) :
            /\ Cardinality(called(k - 1)) < room
            /\ k = Len(uploadQueue) \/ Cardinality(called(k)) >= room
            /\ uploadQueue' = SubSeq(uploadQueue, k + 1, Len(uploadQueue))
            /\ connecting' = [u \in Users |-> IF u \in called(k) THEN 0 ELSE connecting[u]]
            /\ UNCHANGED <<online, uploadItems, conn, uploads, delayUploads, count,
                           reservedSlots>>

(* Mutants: promises do not age, or they age and do not lapse.               *)
MinuteForReserved ==
    /\ reservedSlots # {}
    /\ \E late \in SUBSET reservedSlots : reservedSlots' = reservedSlots \ late
    /\ UNCHANGED <<online, uploadItems, conn, uploads, delayUploads, count, uploadQueue,
                   connecting>>
MinuteWithoutEnd ==
    /\ Connecting # {}
    /\ connecting' = [u \in Users |-> IF connecting[u] = Absent THEN Absent
                                                              ELSE connecting[u] + 1]
    /\ UNCHANGED <<online, uploadItems, conn, uploads, delayUploads, count, uploadQueue,
                   reservedSlots>>

(* on(Minute): reserved slots run out; who was called 90 seconds ago and did *)
(* not ask for a file is forgotten.  On the second tick after the call 90    *)
(* seconds may have passed, on the third they have.                          *)
Minute ==
    /\ reservedSlots \cup Connecting # {}
    /\ \E late \in SUBSET reservedSlots : reservedSlots' = reservedSlots \ late
    /\ \E some \in SUBSET {u \in Users : connecting[u] = 1} :
          LET lapsed == some \cup {u \in Users : connecting[u] = 2}
          IN  /\ connecting' = [u \in Users |->
                     IF u \in lapsed \/ connecting[u] = Absent THEN Absent
                                                               ELSE connecting[u] + 1]
              /\ uploadQueue' = Without(uploadQueue, lapsed)
    /\ UNCHANGED <<online, uploadItems, conn, uploads, delayUploads, count>>

------------------------------------------------------------------------------
UserOnline(u) ==
    /\ ~online[u]
    /\ online' = [online EXCEPT ![u] = TRUE]
    /\ UNCHANGED <<uploadItems, conn, uploads, delayUploads, count, uploadQueue, connecting,
                   reservedSlots>>

UserOffline(u) ==
    /\ online[u]
    /\ online' = [online EXCEPT ![u] = FALSE]
    /\ UNCHANGED <<uploadItems, conn, uploads, delayUploads, count, uploadQueue, connecting,
                   reservedSlots>>

(* on(UserDisconnected), some time after the user left.                      *)
UserDisconnected(u) ==
    /\ ~online[u] /\ u \in Waiting
    /\ uploadQueue' = Without(uploadQueue, {u})
    /\ UNCHANGED <<online, uploadItems, conn, uploads, delayUploads, count, connecting,
                   reservedSlots>>

ReserveSlot(u) ==
    /\ "reserve" \in Env /\ u \notin reservedSlots
    /\ reservedSlots' = reservedSlots \cup {u}
    /\ UNCHANGED <<online, uploadItems, conn, uploads, delayUploads, count, uploadQueue,
                   connecting>>

UnreserveSlot(u) ==
    /\ u \in reservedSlots
    /\ reservedSlots' = reservedSlots \ {u}
    /\ UNCHANGED <<online, uploadItems, conn, uploads, delayUploads, count, uploadQueue,
                   connecting>>

ConnNext(c) ==
    \/ \E u \in Users : AddConnection(c, u)
    \/ \E file \in {"large", "mini", "partial"}, op \in {FALSE, "op" \in Env} :
           StartUpload(c, file, op) \/ TurnAway(c, file, op)
    \/ Send(c) \/ \E chunked \in BOOLEAN : TransmitDone(c, chunked)
    \/ Failed(c) \/ UMFailed(c) \/ SlotLost(c) \/ SlotRead(c) \/ SlotWritten(c)

UserNext(u) ==
    \/ UserOnline(u) \/ UserOffline(u) \/ UserDisconnected(u)
    \/ ReserveSlot(u) \/ UnreserveSlot(u)

Next ==
    \/ \E c \in Conns : ConnNext(c)
    \/ \E u \in Users : UserNext(u)
    \/ DelayedUploadsEnd \/ NotifyQueuedUsers \/ Minute

Spec == Init /\ [][Next]_vars

(* The timer ticks; peers, hubs and the user owe nothing.                    *)
FairSpec == Spec /\ WF_vars(NotifyQueuedUsers) /\ WF_vars(Minute)

------------------------------------------------------------------------------
(* Properties.                                                               *)

Holders(t) == {c \in Conns : conn[c].slot = t}

(* The counters say how many connections hold a slot of each kind, so that   *)
(* getFreeSlots is the "Number of free slots" (UploadManager.h), whatever    *)
(* the order in which connections change the kind of their slot and end.     *)
CountersMatch == \A t \in Taken : count[t] = Byte(Cardinality(Holders(t)))

(* A free slot is promised once: the users called back and the slots in use  *)
(* never add up to more than there are, newcomers included.                  *)
PromisedSlotsExist == count["STD"] + Cardinality(Connecting) <= Slots

(* Unless the user or a setting grants more, no kind of slot is given to     *)
(* more connections than the settings say.                                   *)
SlotLimits ==
    /\ Cardinality(Holders("STD")) <= Slots
    /\ Cardinality(Holders("EXTRA")) <= ExtraSlots
    /\ Cardinality(Holders("PARTIAL")) <= PartialSlots

(* "Maximum auto opened" (StringDefs.h, the label of the setting).           *)
AutoSlotsLimited == Cardinality(Holders("STD")) <= Slots + AutoSlots

(* An upload that rests between two chunks always belongs to a connection    *)
(* that lives, has not failed, and has no other upload: the timer and the    *)
(* user's next connection never meet an upload whose connection is gone, and  *)
(* onFailed never deletes an upload that delayUploads still holds (the        *)
(* dcassert of removeUpload).                                                *)
DelayedUploadIsOwned ==
    \A c \in delayUploads : /\ conn[c].state = "GET" /\ conn[c].pc = "events"
                            /\ conn[c].upload /\ c \notin uploads

(* Nobody waits for ever next to a free slot: somebody who was called back   *)
(* and does not come loses the promise, and the next in the queue is called. *)
WaitingUserIsCalled == \A u \in Users : u \in Waiting ~> u \notin Waiting \/ FreeSlots = 0

(* All that there is to know of slots, for those who wait for them: this       *)
(* component does what SlotPromises says, whatever becomes of connections and  *)
(* clocks.                                                                   *)
Promises == INSTANCE SlotPromises
            WITH waiting <- uploadQueue, promised <- Connecting,
                 used <- Cardinality(Holders("STD"))
KeepsPromises == Promises!FairSpec
==============================================================================
