--------------------------- MODULE UploadSlotsProofs ---------------------------
(***************************************************************************)
(* Proofs about UploadSlots, for any number of users, connections and slots. *)
(***************************************************************************)
EXTENDS UploadSlots, Induction

(* The part of the type invariant the proofs need.                           *)
ConnType == conn \in [Conns -> Conn] /\ delayUploads \subseteq Conns

LEMMA NoConnType == NoConn \in Conn
BY DEF NoConn, Conn

LEMMA ConnTypeInit == Init => ConnType
BY NoConnType DEF Init, ConnType

(* What a handler writes into a UserConnection is one.                       *)
LEMMA NewConnType ==
    ASSUME NEW u \in Users
    PROVE  LET new == [NoConn EXCEPT !.user = u, !.state = "GET"]
           IN  /\ new \in Conn /\ new.slot = "NO" /\ new.user = u /\ new.pc = "events"
               /\ new.state = "GET" /\ new.upload = FALSE
<1>1. NoConn.slot = "NO" /\ NoConn.pc = "events" /\ NoConn.upload = FALSE
  BY DEF NoConn
<1> QED BY <1>1, NoConnType DEF Conn

LEMMA PcType ==
    ASSUME NEW r \in Conn, NEW p \in {"events", "failed", "lost"}
    PROVE  [r EXCEPT !.pc = p] = [r EXCEPT !.upload = r.upload, !.pc = p]
BY DEF Conn

LEMMA UploadType ==
    ASSUME NEW r \in Conn, NEW b \in BOOLEAN
    PROVE  [r EXCEPT !.upload = b] = [r EXCEPT !.upload = b, !.pc = r.pc]
BY DEF Conn

------------------------------------------------------------------------------
(* The counters.                                                             *)

LEMMA ByteSteps ==
    ASSUME NEW n \in Nat
    PROVE  /\ Byte(n) \in 0..255
           /\ Byte(Byte(n) + 1) = Byte(n + 1)
           /\ n > 0 => Byte(Byte(n) - 1) = Byte(n - 1)
BY DEF Byte

(* One connection gives up a slot of one kind for one of another.            *)
LEMMA HoldersMove ==
    ASSUME ConnType, NEW c \in Conns, NEW t \in Taken,
           NEW to \in Taken \cup {"NO"}, conn'[c].slot = to,
           \A d \in Conns \ {c} : conn'[d].slot = conn[d].slot
    PROVE  /\ Cardinality(Holders(t)) \in Nat
           /\ Cardinality(Holders(t)') =
                 IF conn[c].slot # to /\ t = conn[c].slot THEN Cardinality(Holders(t)) - 1
                 ELSE IF conn[c].slot # to /\ t = to THEN Cardinality(Holders(t)) + 1
                 ELSE Cardinality(Holders(t))
<1>1. IsFiniteSet(Holders(t))
  BY ConnsAssumption, FS_Subset DEF Holders
<1>2. CASE conn[c].slot # to /\ t = conn[c].slot
  <2>1. c \in Holders(t) /\ Holders(t)' = Holders(t) \ {c}
    BY <1>2 DEF Holders
  <2> QED BY <1>1, <1>2, <2>1, FS_RemoveElement, FS_CardinalityType
<1>3. CASE conn[c].slot # to /\ t = to
  <2>1. c \notin Holders(t) /\ Holders(t)' = Holders(t) \cup {c}
    BY <1>3 DEF Holders
  <2> QED BY ZenonT(40), <1>1, <1>3, <2>1, FS_AddElement, FS_CardinalityType
<1>4. CASE conn[c].slot = to \/ (t # conn[c].slot /\ t # to)
  <2>1. Holders(t)' = Holders(t)
    BY <1>4 DEF Holders
  <2> QED BY <1>1, <1>4, <2>1, FS_CardinalityType
<1> QED BY <1>2, <1>3, <1>4

(* A step that moves one connection from slot to slot, and the counters with *)
(* it, keeps them right.                                                     *)
LEMMA MovedMatch ==
    ASSUME ConnType, CountersMatch, NEW c \in Conns, NEW to \in Taken \cup {"NO"},
           conn'[c].slot = to, \A d \in Conns \ {c} : conn'[d].slot = conn[d].slot,
           count' = Moved(conn[c].slot, to)
    PROVE  CountersMatch'
<1> SUFFICES ASSUME NEW t \in Taken PROVE count'[t] = Byte(Cardinality(Holders(t)'))
  BY DEF CountersMatch
<1> DEFINE n == Cardinality(Holders(t))
<1>1. n \in Nat /\ count[t] = Byte(n)
  BY HoldersMove DEF CountersMatch
<1>2. CASE conn[c].slot # to /\ t = conn[c].slot
  <2>1. c \in Holders(t) /\ IsFiniteSet(Holders(t))
    BY <1>2, ConnsAssumption, FS_Subset DEF Holders
  <2>2. n > 0
    BY <1>1, <2>1, FS_EmptySet
  <2>3. Cardinality(Holders(t)') = n - 1 /\ count'[t] = Byte(count[t] - 1)
    BY <1>2, HoldersMove DEF Moved
  <2> QED BY <1>1, <2>2, <2>3, ByteSteps
<1>3. CASE conn[c].slot # to /\ t = to
  <2>1. Cardinality(Holders(t)') = n + 1 /\ count'[t] = Byte(count[t] + 1)
    BY <1>3, HoldersMove DEF Moved
  <2> QED BY <1>1, <2>1, ByteSteps
<1>4. CASE conn[c].slot = to \/ (t # conn[c].slot /\ t # to)
  <2>1. Cardinality(Holders(t)') = n /\ count'[t] = count[t]
    BY <1>4, HoldersMove DEF Moved
  <2> QED BY <1>1, <2>1
<1> QED BY <1>2, <1>3, <1>4

LEMMA MovedType ==
    ASSUME count \in [Taken -> 0..255], NEW from, NEW to
    PROVE  Moved(from, to) \in [Taken -> 0..255]
<1>1. \A t \in Taken : Byte(count[t] - 1) \in 0..255 /\ Byte(count[t] + 1) \in 0..255
  BY DEF Byte
<1> QED BY <1>1 DEF Moved

LEMMA SameSlots ==
    ASSUME CountersMatch, UNCHANGED count, \A d \in Conns : conn'[d].slot = conn[d].slot
    PROVE  CountersMatch'
<1>1. \A t \in Taken : Holders(t)' = Holders(t)
  BY DEF Holders
<1> QED BY <1>1 DEF CountersMatch

(* Without a race: nobody stands between reading a counter and writing it,   *)
(* and a slot is lost only once it was taken.                                *)
Orderly ==
    \A c \in Conns :
        /\ conn[c].pc # "store"
        /\ conn[c].pc = "lost" => conn[c].slot # "NO"
        /\ conn[c].state = "FREE" => conn[c].slot = "NO"

CountInv ==
    /\ ConnType /\ Orderly /\ CountersMatch
    /\ count = [t \in Taken |-> count[t]]

LEMMA CountInit == Init => CountInv
<1> SUFFICES ASSUME Init PROVE CountInv
  OBVIOUS
<1>1. ConnType
  BY ConnTypeInit
<1>2. Orderly
  BY DEF Init, Orderly, NoConn
<1>3. \A t \in Taken : Holders(t) = {}
  BY DEF Init, Holders, NoConn, Taken
<1>4. CountersMatch
  BY <1>3, FS_EmptySet DEF Init, CountersMatch, Byte
<1> QED BY <1>1, <1>2, <1>4 DEF CountInv, Init

(* A connection changes hands: created, granted a slot, deleted.             *)
LEMMA OneConn ==
    ASSUME ConnType, Orderly, NEW c \in Conns, NEW r \in Conn, conn' = [conn EXCEPT ![c] = r],
           delayUploads' \subseteq Conns,
           /\ r.pc # "store" /\ (r.pc = "lost" => r.slot # "NO")
           /\ r.state = "FREE" => r.slot = "NO"
    PROVE  /\ ConnType' /\ Orderly' /\ conn'[c] = r
           /\ \A d \in Conns \ {c} : conn'[d] = conn[d]
BY DEF ConnType, Orderly

(* No connection changes its slot.                                           *)
KeepSlots == \A d \in Conns : conn'[d].slot = conn[d].slot

LEMMA AddConnectionCount ==
    ASSUME CountInv, NEW c \in Conns, NEW u \in Users, AddConnection(c, u)
    PROVE  CountInv' /\ KeepSlots
<1> DEFINE r == [NoConn EXCEPT !.user = u, !.state = "GET"]
<1>1. r \in Conn /\ r.slot = "NO" /\ r.pc = "events" /\ r.state = "GET"
  BY NewConnType
<1>2. conn[c].slot = "NO"
  BY DEF AddConnection, CountInv, Orderly
<1>3. conn' = [conn EXCEPT ![c] = r] /\ delayUploads' = delayUploads /\ count' = count
  BY DEF AddConnection
<1> HIDE DEF r
<1>4. ConnType' /\ Orderly' /\ \A d \in Conns : conn'[d].slot = conn[d].slot
  BY <1>1, <1>2, <1>3, OneConn DEF CountInv, ConnType
<1> QED BY <1>3, <1>4, SameSlots DEF CountInv, KeepSlots

LEMMA StartUploadCount ==
    ASSUME CountInv, NEW c \in Conns, NEW file, NEW op, StartUpload(c, file, op)
    PROVE  CountInv'
<1> PICK s \in Grants(c, file, op) \cup (IF AutoSlot THEN {"STD"} ELSE {}),
         state \in {"SEND", "RUNNING"} :
         /\ conn' = [conn EXCEPT ![c] = [@ EXCEPT !.slot = s, !.state = state, !.upload = TRUE]]
         /\ count' = Moved(conn[c].slot, s)
  BY DEF StartUpload
<1> DEFINE r == [conn[c] EXCEPT !.slot = s, !.state = state, !.upload = TRUE]
<1>1. s \in Taken
  BY DEF Grants, SmallSlot, Taken
<1>2. conn[c] \in Conn /\ conn[c].pc = "events"
  BY DEF CountInv, ConnType, StartUpload
<1>3. r \in Conn /\ r.slot = s /\ r.pc = conn[c].pc /\ r.state = state
  BY <1>1, <1>2 DEF Conn
<1>4. r.slot = s /\ r.pc = "events" /\ r.state # "FREE"
  BY <1>2, <1>3
<1>5. conn' = [conn EXCEPT ![c] = r] /\ delayUploads' \subseteq Conns
  BY DEF StartUpload, CountInv, ConnType
<1> HIDE DEF r
<1>6. /\ ConnType' /\ Orderly' /\ conn'[c].slot = s
      /\ \A d \in Conns \ {c} : conn'[d].slot = conn[d].slot
  BY <1>3, <1>4, <1>5, OneConn DEF CountInv
<1> QED BY <1>1, <1>6, MovedMatch DEF CountInv, Moved

LEMMA SlotLostCount ==
    ASSUME CountInv, NEW c \in Conns, SlotLost(c)
    PROVE  CountInv'
<1>1. /\ conn' = [conn EXCEPT ![c] = NoConn] /\ delayUploads' = delayUploads
      /\ NoConn.slot = "NO" /\ NoConn.pc = "events"
  BY DEF SlotLost, NoConn
<1>2. conn[c].slot \in Taken
  BY DEF SlotLost, CountInv, Orderly, ConnType, Conn
<1>3. count' = Moved(conn[c].slot, "NO")
  <2>1. DOMAIN count = Taken /\ count = [t \in Taken |-> count[t]]
    BY DEF CountInv
  <2> QED BY <1>2, <2>1 DEF SlotLost, Moved, Taken
<1>4. /\ ConnType' /\ Orderly' /\ conn'[c].slot = "NO"
      /\ \A d \in Conns \ {c} : conn'[d].slot = conn[d].slot
  BY <1>1, NoConnType, OneConn DEF CountInv, ConnType
<1> QED BY <1>3, <1>4, MovedMatch DEF CountInv, Moved

LEMMA SteadyCount ==
    ASSUME CountInv, NEW c \in Conns,
           \/ Send(c) \/ Failed(c) \/ UMFailed(c) \/ DelayedUploadsEnd
           \/ \E chunked \in BOOLEAN : TransmitDone(c, chunked)
    PROVE  CountInv' /\ KeepSlots
<1> USE DEF CountInv
<1> DEFINE Fine(d) ==
        /\ conn'[d] \in Conn /\ conn'[d].slot = conn[d].slot /\ conn'[d].pc # "store"
        /\ conn'[d].pc = "lost" => conn[d].slot # "NO"
        /\ conn'[d].state = "FREE" => conn[d].slot = "NO"
<1>1. conn' \in [Conns -> Conn] /\ delayUploads' \subseteq Conns /\ \A d \in Conns : Fine(d)
  <2>1. \A d \in Conns : conn'[d] = conn[d] => Fine(d)
    BY DEF ConnType, Orderly
  <2>2. \A d \in Conns : conn[d] \in Conn /\ conn[d].pc \in {"events", "failed", "lost"}
    BY DEF ConnType, Orderly, Conn
  <2>3. ASSUME NEW d \in Conns, NEW b \in BOOLEAN, NEW p \in {"events", "failed", "lost"},
               conn'[d] = [conn[d] EXCEPT !.upload = b, !.pc = p],
               p = "lost" => conn[d].slot # "NO"
        PROVE  Fine(d)
    <3>1. conn'[d] \in Conn
      BY ZenonT(40), <2>2, <2>3 DEF Conn
    <3>2. /\ conn'[d].slot = conn[d].slot /\ conn'[d].pc = p
          /\ conn'[d].state = conn[d].state
      BY <2>2, <2>3 DEF Conn
    <3>3. conn[d].state = "FREE" => conn[d].slot = "NO"
      BY DEF Orderly
    <3> QED BY <2>3, <3>1, <3>2, <3>3
  <2>4. CASE Send(c)
    <3>1. /\ conn'[c] = [conn[c] EXCEPT !.state = "RUNNING"] /\ conn[c].pc = "events"
          /\ \A d \in Conns \ {c} : conn'[d] = conn[d]
      BY <2>4 DEF Send, ConnType
    <3>2. Fine(c)
      BY <2>2, <3>1 DEF Conn
    <3> QED BY <2>1, <2>4, <3>1, <3>2 DEF Send, ConnType
  <2>5. CASE Failed(c)
    <3>1. CASE conn' = [conn EXCEPT ![c].pc = "failed"]
      <4>1. conn'[c] = [conn[c] EXCEPT !.pc = "failed"] /\ conn[c].upload \in BOOLEAN
        BY <2>2, <3>1 DEF ConnType, Conn
      <4>2. conn'[c] = [conn[c] EXCEPT !.upload = conn[c].upload, !.pc = "failed"]
        BY <2>2, <4>1, PcType
      <4>3. Fine(c)
        BY <2>3, <4>1, <4>2
      <4> QED BY <2>1, <2>5, <3>1, <4>3 DEF Failed, ConnType
    <3>2. ASSUME NEW e \in Conns,
                 conn' = [d \in Conns |-> [conn[d] EXCEPT !.upload = @ /\ d # e,
                                                          !.pc = IF d = c THEN "failed" ELSE @]]
          PROVE  \A d \in Conns : Fine(d)
      <4> SUFFICES ASSUME NEW d \in Conns PROVE Fine(d)
        OBVIOUS
      <4> DEFINE b == conn[d].upload /\ d # e
                 p == IF d = c THEN "failed" ELSE conn[d].pc
      <4>1. conn'[d] = [conn[d] EXCEPT !.upload = b, !.pc = p]
        BY <3>2
      <4>2. b \in BOOLEAN
        OBVIOUS
      <4>3. p \in {"events", "failed", "lost"}
        BY <2>2
      <4>4. p = "lost" => conn[d].slot # "NO"
        BY DEF Orderly
      <4> HIDE DEF b, p
      <4> QED BY <2>3, <4>1, <4>2, <4>3, <4>4
    <3> QED BY <2>5, <3>1, <3>2 DEF Failed, ConnType
  <2>6. CASE UMFailed(c)
    <3>1. \A d \in Conns \ {c} : conn'[d] = conn[d]
      BY <2>6 DEF UMFailed, ConnType
    <3>2. CASE conn[c].slot = "NO"
      <4>1. conn'[c] = NoConn
        BY <2>6, <3>2 DEF UMFailed, ConnType
      <4>2. Fine(c)
        BY <3>2, <4>1, NoConnType DEF NoConn
      <4> QED BY <2>1, <2>6, <3>1, <4>2 DEF UMFailed, ConnType
    <3>3. CASE conn[c].slot # "NO"
      <4>1. conn'[c] = [conn[c] EXCEPT !.upload = FALSE, !.pc = "lost"]
        BY <3>3, <2>6 DEF UMFailed, ConnType
      <4>2. Fine(c)
        BY <2>3, <3>3, <4>1
      <4> QED BY <2>1, <2>6, <3>1, <4>2 DEF UMFailed, ConnType
    <3> QED BY <3>2, <3>3
  <2>7. CASE DelayedUploadsEnd
    <3> SUFFICES ASSUME NEW d \in Conns PROVE Fine(d)
      BY <2>7 DEF DelayedUploadsEnd, ConnType
    <3>1. CASE conn'[d] = [conn[d] EXCEPT !.upload = FALSE]
      <4>1. conn'[d] = [conn[d] EXCEPT !.upload = FALSE, !.pc = conn[d].pc]
        BY <2>2, <3>1, UploadType
      <4>2. conn[d].pc = "lost" => conn[d].slot # "NO"
        BY DEF Orderly
      <4> QED BY <2>2, <2>3, <4>1, <4>2
    <3> QED BY <2>1, <2>7, <3>1 DEF DelayedUploadsEnd
  <2>8. ASSUME NEW chunked \in BOOLEAN, TransmitDone(c, chunked)
        PROVE  /\ conn' \in [Conns -> Conn] /\ delayUploads' \subseteq Conns
               /\ \A d \in Conns : Fine(d)
    <3>1. /\ conn'[c] = [conn[c] EXCEPT !.state = "GET", !.upload = chunked]
          /\ conn[c].pc = "events" /\ \A d \in Conns \ {c} : conn'[d] = conn[d]
      BY <2>8 DEF TransmitDone, ConnType
    <3>2. Fine(c)
      BY ZenonT(40), <2>2, <3>1 DEF Conn
    <3> QED BY <2>1, <2>8, <3>1, <3>2 DEF TransmitDone, ConnType
  <2> QED BY <2>4, <2>5, <2>6, <2>7, <2>8
<1>2. UNCHANGED count
  BY DEF Send, Failed, UMFailed, DelayedUploadsEnd, TransmitDone
<1> QED BY <1>1, <1>2, SameSlots DEF ConnType, Orderly, KeepSlots

(* What the counters are about does not change in the other steps.           *)
LEMMA OtherCount ==
    ASSUME CountInv, UNCHANGED <<conn, count, delayUploads>>
    PROVE  CountInv'
<1>1. ConnType' /\ Orderly'
  BY DEF CountInv, ConnType, Orderly
<1>2. CountersMatch'
  BY SameSlots DEF CountInv
<1> QED BY <1>1, <1>2 DEF CountInv

LEMMA CountNext ==
    ASSUME CountInv, "race" \notin Env, [Next]_vars
    PROVE  CountInv'
<1>1. ASSUME NEW c \in Conns, ConnNext(c) PROVE CountInv'
  <2>1. ASSUME NEW u \in Users, AddConnection(c, u) PROVE CountInv'
    BY <2>1, AddConnectionCount
  <2>2. ASSUME NEW file, NEW op, StartUpload(c, file, op) PROVE CountInv'
    BY <2>2, StartUploadCount
  <2>3. ASSUME NEW file, NEW op, TurnAway(c, file, op) PROVE CountInv'
    BY <2>3, OtherCount DEF TurnAway
  <2>4. CASE Send(c) \/ Failed(c) \/ UMFailed(c) \/ \E chunked \in BOOLEAN : TransmitDone(c, chunked)
    BY <2>4, SteadyCount
  <2>5. CASE SlotLost(c)
    BY <2>5, SlotLostCount
  <2>6. ~SlotRead(c) /\ ~SlotWritten(c)
    BY DEF SlotRead, SlotWritten, CountInv, Orderly
  <2> QED BY <1>1, <2>1, <2>2, <2>3, <2>4, <2>5, <2>6 DEF ConnNext
<1>2. ASSUME NEW u \in Users, UserNext(u) PROVE CountInv'
  BY <1>2, OtherCount
  DEF UserNext, UserOnline, UserOffline, UserDisconnected, ReserveSlot, UnreserveSlot
<1>3. CASE DelayedUploadsEnd
  <2>1. PICK c \in Conns : TRUE
    BY <1>3 DEF DelayedUploadsEnd, CountInv, ConnType
  <2> QED BY <1>3, <2>1, SteadyCount
<1>4. CASE NotifyQueuedUsers \/ Minute
  BY <1>4, OtherCount DEF NotifyQueuedUsers, Minute
<1>5. CASE UNCHANGED vars
  BY <1>5, OtherCount DEF vars
<1> QED BY <1>1, <1>2, <1>3, <1>4, <1>5 DEF Next

(* As long as no two threads are in removeConnection at once, the counters   *)
(* of the slot kinds say how many connections hold one, whatever the slots,   *)
(* the settings and the order of requests, chunks, failures and timers.       *)
THEOREM CountersMatchAlways ==
    ASSUME "race" \notin Env
    PROVE  Spec => []CountersMatch
<1>1. Init => CountInv
  BY CountInit
<1>2. CountInv /\ [Next]_vars => CountInv'
  BY CountNext
<1>3. CountInv => CountersMatch
  BY DEF CountInv
<1> QED BY <1>1, <1>2, <1>3, PTL DEF Spec

------------------------------------------------------------------------------
(* Uploads that rest between two chunks.                                     *)

Live(c) == conn[c].state # "FREE" /\ conn[c].pc = "events"

(* A user has at most one upload connection that has not failed.             *)
OneUpload ==
    /\ \A c \in Conns : Live(c) => conn[c].user \in uploadItems
    /\ \A c, d \in Conns : Live(c) /\ Live(d) /\ conn[c].user = conn[d].user => c = d

OwnType ==
    /\ ConnType /\ count \in [Taken -> 0..255]
    /\ \A c \in Conns : conn[c].pc \in {"lost", "store"} => conn[c].slot # "NO"

OwnInv == OwnType /\ OneUpload /\ DelayedUploadIsOwned

LEMMA OwnInit == Init => OwnInv
<1> SUFFICES ASSUME Init PROVE OwnInv
  OBVIOUS
<1>1. OwnType
  BY ConnTypeInit DEF Init, OwnType, NoConn
<1>2. OneUpload /\ DelayedUploadIsOwned
  BY DEF Init, OneUpload, Live, DelayedUploadIsOwned, NoConn
<1> QED BY <1>1, <1>2 DEF OwnInv

(* A step of one connection, seen by the others: it keeps its user as long   *)
(* as it lives, and rests only with its own upload.                          *)
LEMMA OneConnOwn ==
    ASSUME OwnInv, NEW c \in Conns, NEW r \in Conn, conn' = [conn EXCEPT ![c] = r],
           count' \in [Taken -> 0..255], uploadItems' = uploadItems,
           r.pc \in {"lost", "store"} => r.slot # "NO",
           r.state # "FREE" /\ r.pc = "events" => Live(c) /\ r.user = conn[c].user,
           /\ uploads' \subseteq uploads \cup {c}
           /\ \/ c \notin delayUploads' /\ delayUploads' \subseteq delayUploads
              \/ /\ c \notin uploads' /\ delayUploads' \subseteq delayUploads \cup {c}
                 /\ r.state = "GET" /\ r.pc = "events" /\ r.upload
    PROVE  OwnInv'
<1>1. conn'[c] = r /\ \A d \in Conns \ {c} : conn'[d] = conn[d]
  BY DEF OwnInv, OwnType, ConnType
<1>2. OwnType'
  BY <1>1 DEF OwnInv, OwnType, ConnType
<1>3. OneUpload'
  BY <1>1 DEF OwnInv, OneUpload, Live
<1>4. DelayedUploadIsOwned'
  BY <1>1 DEF OwnInv, DelayedUploadIsOwned
<1> QED BY <1>2, <1>3, <1>4 DEF OwnInv

LEMMA AddConnectionOwn ==
    ASSUME OwnInv, NEW c \in Conns, NEW u \in Users, AddConnection(c, u)
    PROVE  OwnInv'
<1> DEFINE r == [NoConn EXCEPT !.user = u, !.state = "GET"]
<1>1. r \in Conn /\ r.slot = "NO" /\ r.pc = "events" /\ r.state = "GET" /\ r.user = u
  BY NewConnType
<1>2. /\ conn' = [conn EXCEPT ![c] = r] /\ conn[c].state = "FREE" /\ u \notin uploadItems
      /\ uploadItems' = uploadItems \cup {u}
      /\ UNCHANGED <<uploads, delayUploads, count>>
  BY DEF AddConnection
<1> HIDE DEF r
<1>3. conn'[c] = r /\ \A d \in Conns \ {c} : conn'[d] = conn[d]
  BY <1>2 DEF OwnInv, OwnType, ConnType
<1>4. OwnType'
  BY <1>1, <1>2, <1>3 DEF OwnInv, OwnType, ConnType
<1>5. OneUpload'
  BY <1>1, <1>2, <1>3 DEF OwnInv, OneUpload, Live
<1>6. DelayedUploadIsOwned'
  BY <1>2, <1>3 DEF OwnInv, OwnType, ConnType, DelayedUploadIsOwned
<1> QED BY <1>4, <1>5, <1>6 DEF OwnInv

LEMMA StartUploadOwn ==
    ASSUME OwnInv, NEW c \in Conns, NEW file, NEW op, StartUpload(c, file, op)
    PROVE  OwnInv'
<1> PICK s \in Grants(c, file, op) \cup (IF AutoSlot THEN {"STD"} ELSE {}),
         state \in {"SEND", "RUNNING"} :
         /\ conn' = [conn EXCEPT ![c] = [@ EXCEPT !.slot = s, !.state = state, !.upload = TRUE]]
         /\ count' = Moved(conn[c].slot, s)
  BY DEF StartUpload
<1> DEFINE r == [conn[c] EXCEPT !.slot = s, !.state = state, !.upload = TRUE]
<1>1. s \in Taken
  BY DEF Grants, SmallSlot, Taken
<1>2. conn[c] \in Conn /\ conn[c].pc = "events" /\ conn[c].state = "GET"
  BY DEF OwnInv, OwnType, ConnType, StartUpload
<1>3. r \in Conn
  BY <1>1, <1>2 DEF Conn
<1>4. r.slot = s /\ r.pc = "events" /\ r.user = conn[c].user
  BY <1>1, <1>2 DEF Conn
<1>5. conn' = [conn EXCEPT ![c] = r]
  OBVIOUS
<1>6. /\ delayUploads' = delayUploads \ {c} /\ uploads' = uploads \cup {c}
      /\ uploadItems' = uploadItems
  BY DEF StartUpload
<1>7. count' \in [Taken -> 0..255]
  BY <1>1, MovedType DEF OwnInv, OwnType
<1> HIDE DEF r
<1> QED BY <1>2, <1>3, <1>4, <1>5, <1>6, <1>7, OneConnOwn DEF Live

LEMMA SendOwn ==
    ASSUME OwnInv, NEW c \in Conns, Send(c)
    PROVE  OwnInv'
<1> DEFINE r == [conn[c] EXCEPT !.state = "RUNNING"]
<1>1. conn[c] \in Conn /\ conn[c].pc = "events" /\ conn[c].state = "SEND"
  BY DEF OwnInv, OwnType, ConnType, Send
<1>2. r \in Conn
  BY <1>1 DEF Conn
<1>3. r.pc = "events" /\ r.user = conn[c].user
  BY <1>1 DEF Conn
<1>4. /\ conn' = [conn EXCEPT ![c] = r] /\ c \notin delayUploads
      /\ UNCHANGED <<uploadItems, uploads, delayUploads, count>>
  BY <1>1 DEF Send, OwnInv, OwnType, ConnType, DelayedUploadIsOwned
<1>5. count \in [Taken -> 0..255]
  BY DEF OwnInv, OwnType
<1> HIDE DEF r
<1> QED BY <1>1, <1>2, <1>3, <1>4, <1>5, OneConnOwn DEF Live

LEMMA TransmitDoneOwn ==
    ASSUME OwnInv, NEW c \in Conns, NEW chunked \in BOOLEAN, TransmitDone(c, chunked)
    PROVE  OwnInv'
<1> DEFINE r == [conn[c] EXCEPT !.state = "GET", !.upload = chunked]
<1>1. conn[c] \in Conn /\ conn[c].pc = "events" /\ conn[c].state = "RUNNING"
  BY DEF OwnInv, OwnType, ConnType, TransmitDone
<1>2. r \in Conn
  BY <1>1 DEF Conn
<1>3. r.pc = "events" /\ r.user = conn[c].user /\ r.state = "GET" /\ r.upload = chunked
  BY <1>1 DEF Conn
<1>4. /\ conn' = [conn EXCEPT ![c] = r] /\ c \notin delayUploads /\ uploads' = uploads \ {c}
      /\ delayUploads' = IF chunked THEN delayUploads \cup {c} ELSE delayUploads
      /\ UNCHANGED <<uploadItems, count>>
  BY <1>1 DEF TransmitDone, OwnInv, DelayedUploadIsOwned
<1>5. count \in [Taken -> 0..255]
  BY DEF OwnInv, OwnType
<1> HIDE DEF r
<1> QED BY <1>1, <1>2, <1>3, <1>4, <1>5, OneConnOwn DEF Live

(* ConnectionManager::failed meets at most one resting upload of the user,   *)
(* and that is the failing connection's own.                                 *)
LEMMA FailedOwn ==
    ASSUME OwnInv, NEW c \in Conns, Failed(c)
    PROVE  OwnInv'
<1> DEFINE mine == {d \in delayUploads : conn[d].user = conn[c].user}
<1>1. conn[c] \in Conn /\ Live(c) /\ delayUploads \subseteq Conns
  BY DEF OwnInv, OwnType, ConnType, Failed, Live
<1>2. mine \subseteq {c}
  BY <1>1 DEF OwnInv, OneUpload, DelayedUploadIsOwned, Live
<1>3. \A d \in Conns \ {c} : Live(d) => conn[d].user # conn[c].user
  BY <1>1 DEF OwnInv, OneUpload
<1>4. PICK b \in BOOLEAN :
          conn' = [conn EXCEPT ![c] = [conn[c] EXCEPT !.upload = b, !.pc = "failed"]]
  <2>1. CASE conn' = [conn EXCEPT ![c].pc = "failed"]
    <3>1. conn' = [conn EXCEPT ![c] = [conn[c] EXCEPT !.pc = "failed"]] /\ conn[c].upload \in BOOLEAN
      BY <1>1, <2>1 DEF Conn
    <3>2. [conn[c] EXCEPT !.pc = "failed"] = [conn[c] EXCEPT !.upload = conn[c].upload, !.pc = "failed"]
      BY <1>1, PcType
    <3> QED BY <3>1, <3>2
  <2>2. CASE conn' = [e \in Conns |-> [conn[e] EXCEPT !.upload = @ /\ e # c,
                                                      !.pc = IF e = c THEN "failed" ELSE @]]
    <3>1. \A e \in Conns \ {c} : conn'[e] = conn[e]
      <4> SUFFICES ASSUME NEW e \in Conns \ {c} PROVE conn'[e] = conn[e]
        OBVIOUS
      <4>1. conn'[e] = [conn[e] EXCEPT !.upload = conn[e].upload /\ e # c, !.pc = conn[e].pc]
        BY <2>2
      <4>2. conn[e] \in Conn
        BY DEF OwnInv, OwnType, ConnType
      <4>3. (conn[e].upload /\ e # c) = conn[e].upload
        BY <4>2 DEF Conn
      <4>4. conn'[e] = [conn[e] EXCEPT !.upload = conn[e].upload, !.pc = conn[e].pc]
        BY <4>1, <4>3
      <4>5. [conn[e] EXCEPT !.upload = conn[e].upload, !.pc = conn[e].pc] = conn[e]
        BY <4>2 DEF Conn
      <4> QED BY <4>4, <4>5
    <3>2. conn'[c] = [conn[c] EXCEPT !.upload = FALSE, !.pc = "failed"]
      <4>1. conn'[c] = [conn[c] EXCEPT !.upload = conn[c].upload /\ c # c, !.pc = "failed"]
        BY <2>2
      <4>2. (conn[c].upload /\ c # c) = FALSE
        OBVIOUS
      <4> QED BY <4>1, <4>2
    <3> QED BY <2>2, <3>1, <3>2 DEF OwnInv, OwnType, ConnType
  <2> QED BY ZenonT(40), <1>2, <2>1, <2>2 DEF Failed
<1> DEFINE r == [conn[c] EXCEPT !.upload = b, !.pc = "failed"]
<1>5. r \in Conn /\ r.pc = "failed"
  BY <1>1 DEF Conn
<1>6. /\ uploadItems' = uploadItems \ {conn[c].user} /\ delayUploads' = delayUploads \ {c}
      /\ UNCHANGED <<uploads, count>>
  <2>1. delayUploads' = delayUploads \ {c}
    BY <1>1, <1>2 DEF Failed
  <2> QED BY <2>1 DEF Failed
<1> HIDE DEF r, mine
<1>7. conn'[c] = r /\ \A d \in Conns \ {c} : conn'[d] = conn[d]
  BY <1>4 DEF OwnInv, OwnType, ConnType, r
<1>8. OwnType'
  BY <1>4, <1>5, <1>6, <1>7 DEF OwnInv, OwnType, ConnType
<1>9. OneUpload'
  BY <1>3, <1>5, <1>6, <1>7 DEF OwnInv, OneUpload, Live
<1>10. DelayedUploadIsOwned'
  BY <1>6, <1>7 DEF OwnInv, OwnType, ConnType, DelayedUploadIsOwned
<1> QED BY <1>8, <1>9, <1>10 DEF OwnInv

(* A connection that has failed rests with no upload.                        *)
LEMMA EndOwn ==
    ASSUME OwnInv, NEW c \in Conns, UMFailed(c) \/ SlotLost(c) \/ SlotRead(c) \/ SlotWritten(c)
    PROVE  OwnInv'
<1>1. /\ conn[c] \in Conn /\ conn[c].pc # "events" /\ c \notin delayUploads
      /\ count \in [Taken -> 0..255]
      /\ conn[c].pc \in {"lost", "store"} => conn[c].slot \in Taken
  BY DEF UMFailed, SlotLost, SlotRead, SlotWritten, OwnInv, OwnType, ConnType,
         DelayedUploadIsOwned, Conn
<1>2. UNCHANGED <<uploadItems, delayUploads>> /\ uploads' \subseteq uploads
  BY DEF UMFailed, SlotLost, SlotRead, SlotWritten
<1>3. count' \in [Taken -> 0..255]
  <2>2. CASE SlotLost(c)
    <3>1. count[conn[c].slot] \in 0..255
      BY <1>1, <2>2 DEF SlotLost
    <3>2. Byte(count[conn[c].slot] - 1) \in 0..255
      BY <3>1 DEF Byte
    <3> QED BY <1>1, <2>2, <3>2 DEF SlotLost
  <2>3. CASE SlotWritten(c)
    <3>1. conn[c].old \in 0..255
      BY <1>1 DEF Conn
    <3>2. Byte(conn[c].old - 1) \in 0..255
      BY <3>1 DEF Byte
    <3> QED BY <1>1, <2>3, <3>2 DEF SlotWritten
  <2> QED BY <1>1, <2>2, <2>3 DEF UMFailed, SlotRead
<1>4. CASE conn' = [conn EXCEPT ![c] = NoConn]
  <2>1. NoConn.state = "FREE" /\ NoConn.pc = "events"
    BY DEF NoConn
  <2> QED BY <1>1, <1>2, <1>3, <1>4, <2>1, NoConnType, OneConnOwn
<1>5. CASE UMFailed(c) /\ conn[c].slot # "NO"
  <2> DEFINE r == [conn[c] EXCEPT !.upload = FALSE, !.pc = "lost"]
  <2>1. r \in Conn /\ r.slot # "NO" /\ r.pc = "lost"
    BY <1>1, <1>5 DEF Conn
  <2>2. conn' = [conn EXCEPT ![c] = r]
    BY <1>5 DEF UMFailed
  <2> HIDE DEF r
  <2> QED BY <1>1, <1>2, <1>3, <2>1, <2>2, OneConnOwn
<1>6. CASE SlotRead(c)
  <2> DEFINE r == [conn[c] EXCEPT !.pc = "store", !.old = count[conn[c].slot]]
  <2>1. count[conn[c].slot] \in 0..255 /\ conn[c].slot # "NO"
    BY <1>1, <1>6 DEF SlotRead, Taken
  <2>2. r \in Conn /\ r.slot # "NO" /\ r.pc = "store"
    BY <1>1, <2>1 DEF Conn
  <2>3. conn' = [conn EXCEPT ![c] = r]
    BY <1>1, <1>6 DEF SlotRead, OwnInv, OwnType, ConnType, Conn
  <2> HIDE DEF r
  <2> QED BY <1>1, <1>2, <1>3, <2>2, <2>3, OneConnOwn
<1> QED BY <1>4, <1>5, <1>6 DEF UMFailed, SlotLost, SlotWritten

(* The timer ends uploads that rest, nothing else of their connections.      *)
LEMMA TimerOwn ==
    ASSUME OwnInv, DelayedUploadsEnd
    PROVE  OwnInv'
<1> PICK gone \in (SUBSET delayUploads) \ {{}} :
        /\ delayUploads' = delayUploads \ gone
        /\ conn' = [c \in Conns |-> IF c \in gone THEN [conn[c] EXCEPT !.upload = FALSE]
                                                  ELSE conn[c]]
  BY DEF DelayedUploadsEnd
<1>1. \A c \in Conns : conn[c] \in Conn
  BY DEF OwnInv, OwnType, ConnType
<1>2. \A c \in Conns :
          /\ conn'[c] \in Conn /\ conn'[c].slot = conn[c].slot /\ conn'[c].pc = conn[c].pc
          /\ conn'[c].state = conn[c].state /\ conn'[c].user = conn[c].user
          /\ c \notin gone => conn'[c] = conn[c]
  <2> SUFFICES ASSUME NEW c \in Conns
               PROVE  /\ conn'[c] \in Conn /\ conn'[c].slot = conn[c].slot
                      /\ conn'[c].pc = conn[c].pc /\ conn'[c].state = conn[c].state
                      /\ conn'[c].user = conn[c].user
                      /\ c \notin gone => conn'[c] = conn[c]
    OBVIOUS
  <2>1. CASE c \notin gone
    BY <1>1, <2>1
  <2>2. CASE c \in gone
    <3>1. conn'[c] = [conn[c] EXCEPT !.upload = FALSE] /\ conn[c] \in Conn
      BY <1>1, <2>2
    <3>2. conn'[c] \in Conn
      BY <3>1 DEF Conn
    <3>3. /\ conn'[c].slot = conn[c].slot /\ conn'[c].pc = conn[c].pc
          /\ conn'[c].state = conn[c].state /\ conn'[c].user = conn[c].user
      BY <3>1 DEF Conn
    <3> QED BY <2>2, <3>2, <3>3
  <2> QED BY <2>1, <2>2
<1>3. UNCHANGED <<uploadItems, uploads, count>>
  BY DEF DelayedUploadsEnd
<1>4. OwnType'
  BY <1>2, <1>3 DEF OwnInv, OwnType, ConnType
<1>5. OneUpload'
  BY <1>2, <1>3 DEF OwnInv, OneUpload, Live
<1>6. DelayedUploadIsOwned'
  BY <1>2, <1>3 DEF OwnInv, OwnType, ConnType, DelayedUploadIsOwned
<1> QED BY <1>4, <1>5, <1>6 DEF OwnInv

LEMMA OtherOwn ==
    ASSUME OwnInv, UNCHANGED <<uploadItems, conn, uploads, delayUploads, count>>
    PROVE  OwnInv'
<1>1. OwnType' /\ OneUpload'
  BY DEF OwnInv, OwnType, ConnType, OneUpload, Live
<1> QED BY <1>1 DEF OwnInv, DelayedUploadIsOwned

LEMMA OwnNext ==
    ASSUME OwnInv, [Next]_vars
    PROVE  OwnInv'
<1>1. ASSUME NEW c \in Conns, ConnNext(c) PROVE OwnInv'
  <2>1. ASSUME NEW u \in Users, AddConnection(c, u) PROVE OwnInv'
    BY <2>1, AddConnectionOwn
  <2>2. ASSUME NEW file, NEW op, StartUpload(c, file, op) PROVE OwnInv'
    BY <2>2, StartUploadOwn
  <2>3. ASSUME NEW file, NEW op, TurnAway(c, file, op) PROVE OwnInv'
    BY <2>3, OtherOwn DEF TurnAway
  <2>4. CASE Send(c)
    BY <2>4, SendOwn
  <2>5. ASSUME NEW chunked \in BOOLEAN, TransmitDone(c, chunked) PROVE OwnInv'
    BY <2>5, TransmitDoneOwn
  <2>6. CASE Failed(c)
    BY <2>6, FailedOwn
  <2>7. CASE UMFailed(c) \/ SlotLost(c) \/ SlotRead(c) \/ SlotWritten(c)
    BY <2>7, EndOwn
  <2> QED BY <1>1, <2>1, <2>2, <2>3, <2>4, <2>5, <2>6, <2>7 DEF ConnNext
<1>2. ASSUME NEW u \in Users, UserNext(u) PROVE OwnInv'
  BY <1>2, OtherOwn
  DEF UserNext, UserOnline, UserOffline, UserDisconnected, ReserveSlot, UnreserveSlot
<1>3. CASE DelayedUploadsEnd
  BY <1>3, TimerOwn
<1>4. CASE NotifyQueuedUsers \/ Minute
  BY <1>4, OtherOwn DEF NotifyQueuedUsers, Minute
<1>5. CASE UNCHANGED vars
  BY <1>5, OtherOwn DEF vars
<1> QED BY <1>1, <1>2, <1>3, <1>4, <1>5 DEF Next

(* An upload that rests between two chunks always belongs to a connection    *)
(* that lives and has no other upload, in every environment: the cleanup by   *)
(* user (removeDelayUpload) never misses it and never hits somebody else's.   *)
THEOREM DelayedUploadIsOwnedAlways == Spec => []DelayedUploadIsOwned
<1>1. Init => OwnInv
  BY OwnInit
<1>2. OwnInv /\ [Next]_vars => OwnInv'
  BY OwnNext
<1>3. OwnInv => DelayedUploadIsOwned
  BY DEF OwnInv
<1> QED BY <1>1, <1>2, <1>3, PTL DEF Spec

------------------------------------------------------------------------------
(* Promises and limits, when nobody may have more than the settings say and  *)
(* no decrement is lost.                                                     *)

Held(t) == Cardinality(Holders(t))

SlotInv ==
    /\ CountInv
    /\ reservedSlots = {}
    /\ connecting = [u \in Users |-> connecting[u]]
    /\ Held("STD") + Cardinality(Connecting) <= Slots

SmallSlotInv == Held("EXTRA") <= ExtraSlots /\ Held("PARTIAL") <= PartialSlots

LEMMA HeldType == \A t \in Taken : IsFiniteSet(Holders(t)) /\ Held(t) \in Nat
BY ConnsAssumption, FS_Subset, FS_CardinalityType DEF Holders, Held

LEMMA ConnectingType ==
    ASSUME IsFiniteSet(Users)
    PROVE  IsFiniteSet(Connecting) /\ Cardinality(Connecting) \in Nat
BY FS_Subset, FS_CardinalityType DEF Connecting

(* A byte is enough to count what is limited by a byte.                      *)
LEMMA ExactCount ==
    ASSUME CountersMatch, NEW t \in Taken, NEW n \in Nat, Held(t) <= n, n <= 255
    PROVE  count[t] = Held(t)
<1>1. Held(t) \in Nat /\ count[t] = Byte(Held(t))
  BY HeldType DEF CountersMatch, Held
<1> QED BY <1>1 DEF Byte

LEMMA KeepHeld ==
    ASSUME KeepSlots
    PROVE  \A t \in Taken : Held(t)' = Held(t)
<1>1. \A t \in Taken : Holders(t)' = Holders(t)
  BY DEF KeepSlots, Holders
<1> QED BY <1>1 DEF Held

(* One connection takes a slot of kind to.                                   *)
LEMMA MoveHeld ==
    ASSUME ConnType, NEW c \in Conns, NEW to \in Taken \cup {"NO"}, conn'[c].slot = to,
           \A d \in Conns \ {c} : conn'[d].slot = conn[d].slot
    PROVE  \A t \in Taken :
               /\ Held(t)' \in Nat
               /\ t # to \/ conn[c].slot = to => Held(t)' <= Held(t)
               /\ t = to => Held(t)' <= Held(t) + 1
<1> SUFFICES ASSUME NEW t \in Taken
             PROVE  /\ Held(t)' \in Nat
                    /\ t # to \/ conn[c].slot = to => Held(t)' <= Held(t)
                    /\ t = to => Held(t)' <= Held(t) + 1
  OBVIOUS
<1>1. /\ Held(t) \in Nat
      /\ Held(t)' = IF conn[c].slot # to /\ t = conn[c].slot THEN Held(t) - 1
                    ELSE IF conn[c].slot # to /\ t = to THEN Held(t) + 1
                    ELSE Held(t)
  BY HoldersMove DEF Held
<1>2. conn[c].slot # to /\ t = conn[c].slot => Held(t) > 0
  <2>1. t = conn[c].slot => c \in Holders(t)
    BY DEF Holders
  <2> QED BY <2>1, HeldType, FS_EmptySet DEF Held
<1> QED BY <1>1, <1>2

(* What StartUpload does to slots and promises.                              *)
LEMMA StartUploadMoves ==
    ASSUME CountInv, NEW c \in Conns, NEW file, NEW op, StartUpload(c, file, op), "auto" \notin Env
    PROVE  \E s \in Grants(c, file, op) :
               /\ s \in Taken /\ conn'[c].slot = s
               /\ \A d \in Conns \ {c} : conn'[d].slot = conn[d].slot
<1> PICK s \in Grants(c, file, op) \cup (IF AutoSlot THEN {"STD"} ELSE {}),
         state \in {"SEND", "RUNNING"} :
         conn' = [conn EXCEPT ![c] = [@ EXCEPT !.slot = s, !.state = state, !.upload = TRUE]]
  BY DEF StartUpload
<1>1. s \in Grants(c, file, op) /\ s \in Taken
  BY DEF AutoSlot, Grants, SmallSlot, Taken
<1>2. conn[c] \in Conn /\ conn \in [Conns -> Conn]
  BY DEF CountInv, ConnType
<1>3. conn'[c].slot = s
  BY <1>1, <1>2 DEF Conn
<1>4. \A d \in Conns \ {c} : conn'[d] = conn[d]
  BY <1>2
<1> QED BY <1>1, <1>3, <1>4

(* A granted standard slot was free and not promised to anybody else.        *)
LEMMA StartUploadPromise ==
    ASSUME SlotInv, IsFiniteSet(Users), Favorites = {}, "auto" \notin Env,
           NEW c \in Conns, NEW file, NEW op, StartUpload(c, file, op)
    PROVE  Held("STD")' + Cardinality(Connecting') <= Slots
<1> DEFINE u == conn[c].user
<1>1. PICK s \in Grants(c, file, op) :
          /\ s \in Taken /\ conn'[c].slot = s
          /\ \A d \in Conns \ {c} : conn'[d].slot = conn[d].slot
  BY StartUploadMoves DEF SlotInv
<1>2. /\ Held("STD") \in Nat /\ Held("STD")' \in Nat
      /\ s # "STD" \/ conn[c].slot = s => Held("STD")' <= Held("STD")
      /\ Held("STD")' <= Held("STD") + 1
  <2>1. "STD" \in Taken
    BY DEF Taken
  <2> QED BY <1>1, <2>1, HeldType, MoveHeld DEF SlotInv, CountInv
<1>3. Connecting' = Connecting \ {u}
  BY DEF StartUpload, SlotInv, Connecting, Absent
<1>4. /\ IsFiniteSet(Connecting) /\ Cardinality(Connecting) \in Nat
      /\ Cardinality(Connecting') \in Nat
      /\ Cardinality(Connecting') <= Cardinality(Connecting)
      /\ u \in Connecting => Cardinality(Connecting') = Cardinality(Connecting) - 1
  BY <1>3, ConnectingType, FS_RemoveElement, FS_Subset, FS_CardinalityType
<1>5. Slots \in Nat /\ Slots <= 255
  BY SlotAssumption
<1>6. CASE s # "STD" \/ conn[c].slot = s
  BY <1>2, <1>4, <1>5, <1>6 DEF SlotInv
<1>7. CASE s = "STD" /\ conn[c].slot # "STD"
  <2>1. HasFreeSlot(u)
    BY <1>1, <1>7 DEF Grants, SmallSlot, Entitled, SlotInv
  <2>2. count["STD"] = Held("STD")
    BY <1>2, <1>4, <1>5, ExactCount DEF SlotInv, CountInv, Taken
  <2>3. Held("STD") < Slots
    BY <1>2, <1>5, <2>1, <2>2 DEF HasFreeSlot, FreeSlots
  <2>4. CASE Connecting = {}
    <3>1. Cardinality(Connecting') = 0
      BY <1>3, <2>4, FS_EmptySet
    <3> QED BY <1>2, <1>5, <2>3, <3>1
  <2>5. CASE u \in Connecting
    BY <1>2, <1>4, <1>5, <2>5 DEF SlotInv
  <2> QED BY <2>1, <2>4, <2>5 DEF HasFreeSlot
<1> QED BY <1>6, <1>7

(* The users called back are no more than the slots that are free and not    *)
(* yet promised.                                                             *)
LEMMA NotifyPromise ==
    ASSUME SlotInv, IsFiniteSet(Users), NotifyQueuedUsers
    PROVE  Held("STD")' + Cardinality(Connecting') <= Slots
<1> DEFINE called(k) == {u \in {uploadQueue[i] : i \in 1..k} : online[u]}
           room == FreeSlots - Cardinality(Connecting)
<1>1. PICK k \in 1..Len(uploadQueue) :
          /\ Cardinality(called(k - 1)) < room
          /\ connecting' = [u \in Users |-> IF u \in called(k) THEN 0 ELSE connecting[u]]
  BY DEF NotifyQueuedUsers
<1>2. k \in Int /\ k >= 1
  OBVIOUS
<1>3. IsFiniteSet(called(k - 1))
  <2> DEFINE f == [i \in 1..(k - 1) |-> uploadQueue[i]]
             image == {uploadQueue[i] : i \in 1..(k - 1)}
  <2>1. f \in Surjection(1..(k - 1), image)
    BY DEF Surjection
  <2>2. IsFiniteSet(1..(k - 1))
    BY <1>2, FS_Interval
  <2>3. IsFiniteSet(image)
    BY <2>1, <2>2, FS_Surjection
  <2> QED BY <2>3, FS_Subset
<1>4. called(k) \subseteq called(k - 1) \cup {uploadQueue[k]}
  BY <1>2
<1> HIDE DEF called
<1> DEFINE more == called(k - 1) \cup {uploadQueue[k]}
<1>5. /\ IsFiniteSet(more) /\ Cardinality(called(k - 1)) \in Nat /\ Cardinality(more) \in Nat
      /\ Cardinality(more) <= Cardinality(called(k - 1)) + 1
  <2> DEFINE before == called(k - 1)
  <2>1. IsFiniteSet(before)
    BY <1>3
  <2> HIDE DEF before
  <2>2. Cardinality(before) \in Nat
    BY <2>1, FS_CardinalityType
  <2>3. /\ IsFiniteSet(before \cup {uploadQueue[k]})
        /\ \/ Cardinality(before \cup {uploadQueue[k]}) = Cardinality(before)
           \/ Cardinality(before \cup {uploadQueue[k]}) = Cardinality(before) + 1
    <3>1. CASE uploadQueue[k] \in before
      <4>1. before \cup {uploadQueue[k]} = before
        BY <3>1
      <4> QED BY <2>1, <4>1
    <3>2. CASE uploadQueue[k] \notin before
      BY <2>1, <3>2, FS_AddElement
    <3> QED BY <3>1, <3>2
  <2>4. /\ Cardinality(before \cup {uploadQueue[k]}) \in Nat
        /\ Cardinality(before \cup {uploadQueue[k]}) <= Cardinality(before) + 1
    BY <2>2, <2>3
  <2> QED BY <2>2, <2>3, <2>4 DEF before
<1>6. Connecting' \subseteq Connecting \cup more
  BY <1>1, <1>4 DEF Connecting
<1> HIDE DEF more
<1>7. /\ IsFiniteSet(Connecting \cup more)
      /\ Cardinality(Connecting \cup more) <= Cardinality(Connecting) + Cardinality(more)
      /\ Cardinality(Connecting \cup more) \in Nat /\ Cardinality(Connecting) \in Nat
  <2>1. IsFiniteSet(Connecting \cap more)
    BY <1>5, FS_Subset
  <2>2. Cardinality(Connecting \cap more) \in Nat
    BY <2>1, FS_CardinalityType
  <2>3. /\ IsFiniteSet(Connecting \cup more)
        /\ Cardinality(Connecting \cup more) =
               Cardinality(Connecting) + Cardinality(more) - Cardinality(Connecting \cap more)
    BY <1>5, ConnectingType, FS_Union
  <2> QED BY <1>5, <2>2, <2>3, ConnectingType, FS_CardinalityType
<1>8. /\ Cardinality(Connecting') <= Cardinality(Connecting) + Cardinality(more)
      /\ Cardinality(Connecting') \in Nat
  <2>1. /\ IsFiniteSet(Connecting')
        /\ Cardinality(Connecting') <= Cardinality(Connecting \cup more)
    BY <1>6, <1>7, FS_Subset
  <2> QED BY <1>5, <1>7, <2>1, FS_CardinalityType
<1>9. Held("STD") \in Nat /\ Held("STD")' = Held("STD") /\ count["STD"] = Held("STD")
  <2>1. "STD" \in Taken /\ Slots \in Nat /\ Slots <= 255
    BY SlotAssumption DEF Taken
  <2>2. KeepSlots
    BY DEF NotifyQueuedUsers, KeepSlots
  <2>3. Held("STD") \in Nat /\ Held("STD") <= Slots
    BY <1>7, <2>1, HeldType DEF SlotInv
  <2> QED BY <2>1, <2>2, <2>3, KeepHeld, ExactCount DEF SlotInv, CountInv
<1>10. FreeSlots = Slots - Held("STD") \/ FreeSlots = 0
  BY <1>9 DEF FreeSlots
<1>11. Slots \in Nat
  BY SlotAssumption
<1>12. Cardinality(called(k - 1)) < FreeSlots - Cardinality(Connecting)
  BY <1>1
<1> QED BY <1>5, <1>7, <1>8, <1>9, <1>10, <1>11, <1>12

(* Steps that take no standard slot and promise none.                        *)
LEMMA NoMorePromises ==
    ASSUME SlotInv, IsFiniteSet(Users), Connecting' \subseteq Connecting,
           Held("STD")' \in Nat, Held("STD")' <= Held("STD")
    PROVE  Held("STD")' + Cardinality(Connecting') <= Slots
<1>1. /\ Cardinality(Connecting) \in Nat /\ Cardinality(Connecting') \in Nat
      /\ Cardinality(Connecting') <= Cardinality(Connecting)
  BY ConnectingType, FS_Subset, FS_CardinalityType
<1>2. Held("STD") \in Nat /\ Slots \in Nat
  BY HeldType, SlotAssumption DEF Taken
<1> QED BY <1>1, <1>2 DEF SlotInv

LEMMA SteadyPromise ==
    ASSUME SlotInv, IsFiniteSet(Users), KeepSlots, Connecting' \subseteq Connecting
    PROVE  Held("STD")' + Cardinality(Connecting') <= Slots
<1>1. Held("STD")' = Held("STD") /\ Held("STD") \in Nat
  BY KeepHeld, HeldType DEF Taken
<1> QED BY <1>1, NoMorePromises

LEMMA SlotLostPromise ==
    ASSUME SlotInv, IsFiniteSet(Users), NEW c \in Conns, SlotLost(c)
    PROVE  Held("STD")' + Cardinality(Connecting') <= Slots
<1>1. /\ conn'[c].slot = "NO" /\ \A d \in Conns \ {c} : conn'[d].slot = conn[d].slot
  BY DEF SlotLost, NoConn, SlotInv, CountInv, ConnType
<1>2. Held("STD")' \in Nat /\ Held("STD")' <= Held("STD")
  BY <1>1, MoveHeld DEF Taken, SlotInv, CountInv
<1>3. Connecting' = Connecting
  BY DEF SlotLost, Connecting
<1> QED BY <1>2, <1>3, NoMorePromises

LEMMA MinutePromise ==
    ASSUME SlotInv, IsFiniteSet(Users), Minute
    PROVE  Held("STD")' + Cardinality(Connecting') <= Slots
<1>1. Connecting' \subseteq Connecting
  BY DEF Minute, Connecting
<1>2. KeepSlots
  BY DEF Minute, KeepSlots
<1> QED BY <1>1, <1>2, SteadyPromise

(* The function connecting stays one.                                        *)
LEMMA ConnectingFunction ==
    ASSUME SlotInv, [Next]_vars
    PROVE  connecting' = [u \in Users |-> connecting'[u]]
<1>1. CASE connecting' = connecting
  BY <1>1 DEF SlotInv
<1>2. ASSUME NEW u, connecting' = [connecting EXCEPT ![u] = Absent]
      PROVE  connecting' = [w \in Users |-> connecting'[w]]
  BY <1>2 DEF SlotInv
<1>3. CASE NotifyQueuedUsers
  BY <1>3 DEF NotifyQueuedUsers
<1>4. CASE Minute
  BY <1>4 DEF Minute
<1>5. ASSUME NEW c \in Conns, ConnNext(c)
      PROVE  connecting' = connecting \/ \E u : connecting' = [connecting EXCEPT ![u] = Absent]
  BY <1>5
  DEF ConnNext, AddConnection, StartUpload, TurnAway, Send, TransmitDone, Failed, UMFailed,
      SlotLost, SlotRead, SlotWritten
<1>6. ASSUME NEW u \in Users, UserNext(u) PROVE connecting' = connecting
  BY <1>6
  DEF UserNext, UserOnline, UserOffline, UserDisconnected, ReserveSlot, UnreserveSlot
<1>7. DelayedUploadsEnd => connecting' = connecting
  BY DEF DelayedUploadsEnd
<1> QED BY <1>1, <1>2, <1>3, <1>4, <1>5, <1>6, <1>7 DEF Next, vars

LEMMA NobodyReserves ==
    ASSUME reservedSlots = {}, "reserve" \notin Env, [Next]_vars
    PROVE  reservedSlots' = {}
<1>1. reservedSlots = {}
  OBVIOUS
<1>2. ASSUME NEW c \in Conns, ConnNext(c) PROVE reservedSlots' = {}
  BY <1>1, <1>2
  DEF ConnNext, AddConnection, StartUpload, TurnAway, Send, TransmitDone, Failed, UMFailed,
      SlotLost, SlotRead, SlotWritten
<1>3. ASSUME NEW u \in Users, UserNext(u) PROVE reservedSlots' = {}
  BY <1>1, <1>3
  DEF UserNext, UserOnline, UserOffline, UserDisconnected, ReserveSlot, UnreserveSlot
<1>4. CASE DelayedUploadsEnd \/ NotifyQueuedUsers
  BY <1>1, <1>4 DEF DelayedUploadsEnd, NotifyQueuedUsers
<1>5. CASE Minute
  BY <1>1, <1>5 DEF Minute
<1>6. CASE UNCHANGED vars
  BY <1>1, <1>6 DEF vars
<1> QED BY <1>2, <1>3, <1>4, <1>5, <1>6 DEF Next

(* Every step other than those above keeps slots and promises.               *)
LEMMA PromiseNext ==
    ASSUME SlotInv, IsFiniteSet(Users), Favorites = {}, Env \cap {"race", "reserve", "auto"} = {},
           [Next]_vars
    PROVE  Held("STD")' + Cardinality(Connecting') <= Slots
<1>1. CountInv
  BY DEF SlotInv
<1>2. ASSUME UNCHANGED connecting PROVE Connecting' \subseteq Connecting
  BY <1>2 DEF Connecting
<1>3. ASSUME UNCHANGED <<conn, connecting>>
      PROVE  Held("STD")' + Cardinality(Connecting') <= Slots
  <2>1. KeepSlots
    BY <1>3 DEF KeepSlots
  <2> QED BY <1>2, <1>3, <2>1, SteadyPromise
<1>4. ASSUME NEW c \in Conns, ConnNext(c)
      PROVE  Held("STD")' + Cardinality(Connecting') <= Slots
  <2>1. ASSUME NEW u \in Users, AddConnection(c, u)
        PROVE  Held("STD")' + Cardinality(Connecting') <= Slots
    <3>1. KeepSlots /\ UNCHANGED connecting
      BY <1>1, <2>1, AddConnectionCount DEF AddConnection
    <3> QED BY <1>2, <3>1, SteadyPromise
  <2>2. ASSUME NEW file, NEW op, StartUpload(c, file, op)
        PROVE  Held("STD")' + Cardinality(Connecting') <= Slots
    BY <2>2, StartUploadPromise
  <2>3. ASSUME NEW file, NEW op, TurnAway(c, file, op)
        PROVE  Held("STD")' + Cardinality(Connecting') <= Slots
    BY <1>3, <2>3 DEF TurnAway
  <2>4. CASE Send(c) \/ Failed(c) \/ UMFailed(c) \/ \E chunked \in BOOLEAN : TransmitDone(c, chunked)
    <3>1. KeepSlots
      BY <1>1, <2>4, SteadyCount
    <3>2. UNCHANGED connecting
      BY <2>4 DEF Send, Failed, UMFailed, TransmitDone
    <3> QED BY <1>2, <3>1, <3>2, SteadyPromise
  <2>5. CASE SlotLost(c)
    BY <2>5, SlotLostPromise
  <2>6. ~SlotRead(c) /\ ~SlotWritten(c)
    BY <1>1 DEF SlotRead, SlotWritten, CountInv, Orderly
  <2> QED BY <1>4, <2>1, <2>2, <2>3, <2>4, <2>5, <2>6 DEF ConnNext
<1>5. ASSUME NEW u \in Users, UserNext(u)
      PROVE  Held("STD")' + Cardinality(Connecting') <= Slots
  BY <1>3, <1>5
  DEF UserNext, UserOnline, UserOffline, UserDisconnected, ReserveSlot, UnreserveSlot
<1>6. CASE DelayedUploadsEnd
  <2>1. PICK c \in Conns : TRUE
    BY <1>1, <1>6 DEF DelayedUploadsEnd, CountInv, ConnType
  <2>2. KeepSlots /\ UNCHANGED connecting
    BY <1>1, <1>6, <2>1, SteadyCount DEF DelayedUploadsEnd
  <2> QED BY <1>2, <2>2, SteadyPromise
<1>7. CASE NotifyQueuedUsers
  BY <1>7, NotifyPromise
<1>8. CASE Minute
  BY <1>8, MinutePromise
<1>9. CASE UNCHANGED vars
  BY <1>3, <1>9 DEF vars
<1> QED BY <1>4, <1>5, <1>6, <1>7, <1>8, <1>9 DEF Next

LEMMA SlotInvInit ==
    ASSUME IsFiniteSet(Users), Init
    PROVE  SlotInv
<1>1. CountInv /\ Slots \in Nat
  BY CountInit, SlotAssumption
<1>2. Holders("STD") = {} /\ Connecting = {}
  BY DEF Init, Holders, NoConn, Connecting
<1>3. Held("STD") = 0 /\ Cardinality(Connecting) = 0
  BY <1>2, FS_EmptySet DEF Held
<1> QED BY <1>1, <1>3 DEF SlotInv, Init

LEMMA SlotInvNext ==
    ASSUME SlotInv, IsFiniteSet(Users), Favorites = {}, Env \cap {"race", "reserve", "auto"} = {},
           [Next]_vars
    PROVE  SlotInv'
<1>1. CountInv'
  BY CountNext DEF SlotInv
<1> QED BY <1>1, NobodyReserves, ConnectingFunction, PromiseNext DEF SlotInv

(* A free slot is promised once, for any number of users, connections and    *)
(* slots, if nobody may have a slot beside the queue and no decrement of the  *)
(* counters is lost: the slots in use and the users called back never add up  *)
(* to more than the slots there are.                                         *)
THEOREM PromisedSlotsExistAlways ==
    ASSUME IsFiniteSet(Users), Favorites = {}, Env \cap {"race", "reserve", "auto"} = {}
    PROVE  Spec => []PromisedSlotsExist
<1>1. Init => SlotInv
  BY SlotInvInit
<1>2. SlotInv /\ [Next]_vars => SlotInv'
  BY SlotInvNext
<1>3. SlotInv => PromisedSlotsExist
  <2> SUFFICES ASSUME SlotInv PROVE PromisedSlotsExist
    OBVIOUS
  <2>1. /\ Held("STD") \in Nat /\ Cardinality(Connecting) \in Nat
        /\ Slots \in Nat /\ Slots <= 255
    BY HeldType, ConnectingType, SlotAssumption DEF Taken
  <2>2. Held("STD") <= Slots
    BY <2>1 DEF SlotInv
  <2>3. count["STD"] = Held("STD")
    BY <2>1, <2>2, ExactCount DEF SlotInv, CountInv, Taken
  <2> QED BY <2>3 DEF SlotInv, PromisedSlotsExist
<1> QED BY <1>1, <1>2, <1>3, PTL DEF Spec

(* A granted small slot was free, or was this connection's already.          *)
LEMMA StartUploadSmall ==
    ASSUME CountInv, SmallSlotInv, ExtraSlots <= 255, PartialSlots <= 255, "auto" \notin Env,
           NEW c \in Conns, NEW file, NEW op, op = FALSE, StartUpload(c, file, op)
    PROVE  SmallSlotInv'
<1>1. PICK s \in Grants(c, file, op) :
          /\ s \in Taken /\ conn'[c].slot = s
          /\ \A d \in Conns \ {c} : conn'[d].slot = conn[d].slot
  BY StartUploadMoves
<1>2. ConnType /\ CountersMatch
  BY DEF CountInv
<1>3. ASSUME NEW t \in {"EXTRA", "PARTIAL"}, NEW limit \in Nat, limit <= 255, Held(t) <= limit,
             s = t => conn[c].slot = t \/ count[t] < limit
      PROVE  Held(t)' <= limit
  <2>1. t \in Taken
    BY DEF Taken
  <2>2. /\ Held(t) \in Nat /\ Held(t)' \in Nat
        /\ t # s \/ conn[c].slot = s => Held(t)' <= Held(t)
        /\ t = s => Held(t)' <= Held(t) + 1
    BY <1>1, <1>2, <2>1, HeldType, MoveHeld
  <2>3. count[t] = Held(t)
    BY <1>2, <1>3, <2>1, ExactCount
  <2> QED BY <1>3, <2>2, <2>3
<1>4. s = "EXTRA" => conn[c].slot = "EXTRA" \/ count["EXTRA"] < ExtraSlots
  BY <1>1 DEF Grants, SmallSlot
<1>5. s = "PARTIAL" => conn[c].slot = "PARTIAL" \/ count["PARTIAL"] < PartialSlots
  BY <1>1 DEF Grants, SmallSlot
<1> QED BY <1>3, <1>4, <1>5, SlotAssumption DEF SmallSlotInv

LEMMA SteadySmall ==
    ASSUME SmallSlotInv, KeepSlots
    PROVE  SmallSlotInv'
BY KeepHeld DEF SmallSlotInv, Taken

LEMMA SlotLostSmall ==
    ASSUME CountInv, SmallSlotInv, NEW c \in Conns, SlotLost(c)
    PROVE  SmallSlotInv'
<1>1. ConnType
  BY DEF CountInv
<1>2. /\ conn'[c].slot = "NO" /\ \A d \in Conns \ {c} : conn'[d].slot = conn[d].slot
  BY <1>1 DEF SlotLost, NoConn, ConnType
<1>3. \A t \in {"EXTRA", "PARTIAL"} :
          Held(t) \in Nat /\ Held(t)' \in Nat /\ Held(t)' <= Held(t)
  BY <1>1, <1>2, HeldType, MoveHeld DEF Taken
<1> QED BY <1>3, SlotAssumption DEF SmallSlotInv

LEMMA SmallNext ==
    ASSUME CountInv, SmallSlotInv, ExtraSlots <= 255, PartialSlots <= 255,
           Env \cap {"race", "auto", "op"} = {}, [Next]_vars
    PROVE  SmallSlotInv'
<1>1. ASSUME UNCHANGED conn PROVE SmallSlotInv'
  <2>1. KeepSlots
    BY <1>1 DEF KeepSlots
  <2> QED BY <2>1, SteadySmall
<1>2. ASSUME NEW c \in Conns, ConnNext(c) PROVE SmallSlotInv'
  <2>1. ASSUME NEW u \in Users, AddConnection(c, u) PROVE SmallSlotInv'
    BY <2>1, AddConnectionCount, SteadySmall
  <2>2. ASSUME NEW file, NEW op \in {FALSE, "op" \in Env}, StartUpload(c, file, op)
        PROVE  SmallSlotInv'
    <3>1. op = FALSE
      <4>1. "op" \notin Env
        OBVIOUS
      <4>2. op = FALSE \/ op = ("op" \in Env)
        BY Zenon
      <4>3. ("op" \in Env) = FALSE
        BY <4>1
      <4> QED BY <4>2, <4>3, Zenon
    <3>2. "auto" \notin Env
      OBVIOUS
    <3> QED BY <2>2, <3>1, <3>2, StartUploadSmall
  <2>3. ASSUME NEW file, NEW op, TurnAway(c, file, op) PROVE SmallSlotInv'
    BY <1>1, <2>3 DEF TurnAway
  <2>4. CASE Send(c) \/ Failed(c) \/ UMFailed(c) \/ \E chunked \in BOOLEAN : TransmitDone(c, chunked)
    BY <2>4, SteadyCount, SteadySmall
  <2>5. CASE SlotLost(c)
    BY <2>5, SlotLostSmall
  <2>6. ~SlotRead(c) /\ ~SlotWritten(c)
    BY DEF SlotRead, SlotWritten, CountInv, Orderly
  <2> QED BY <1>2, <2>1, <2>2, <2>3, <2>4, <2>5, <2>6 DEF ConnNext
<1>3. ASSUME NEW u \in Users, UserNext(u) PROVE SmallSlotInv'
  BY <1>1, <1>3
  DEF UserNext, UserOnline, UserOffline, UserDisconnected, ReserveSlot, UnreserveSlot
<1>4. CASE DelayedUploadsEnd
  <2>1. PICK c \in Conns : TRUE
    BY <1>4 DEF DelayedUploadsEnd, CountInv, ConnType
  <2> QED BY <1>4, <2>1, SteadyCount, SteadySmall
<1>5. CASE NotifyQueuedUsers \/ Minute \/ UNCHANGED vars
  BY <1>1, <1>5 DEF NotifyQueuedUsers, Minute, vars
<1> QED BY <1>2, <1>3, <1>4, <1>5 DEF Next

(* Unless the user or a setting grants more, no kind of slot is given to     *)
(* more connections than the settings say, as long as a byte can count them   *)
(* and no decrement is lost.                                                 *)
THEOREM SlotLimitsAlways ==
    ASSUME IsFiniteSet(Users), Favorites = {}, Env = {}, ExtraSlots <= 255, PartialSlots <= 255
    PROVE  Spec => []SlotLimits
<1> DEFINE Inv == SlotInv /\ SmallSlotInv
<1>1. Init => Inv
  <2> SUFFICES ASSUME Init PROVE SmallSlotInv
    BY SlotInvInit
  <2>1. Holders("EXTRA") = {} /\ Holders("PARTIAL") = {}
    BY DEF Init, Holders, NoConn
  <2> QED BY <2>1, FS_EmptySet, SlotAssumption DEF SmallSlotInv, Held
<1>2. Inv /\ [Next]_vars => Inv'
  BY SlotInvNext, SmallNext DEF SlotInv
<1>3. Inv => SlotLimits
  <2> SUFFICES ASSUME Inv PROVE SlotLimits
    OBVIOUS
  <2>1. Held("STD") \in Nat /\ Cardinality(Connecting) \in Nat /\ Slots \in Nat
    BY HeldType, ConnectingType, SlotAssumption DEF Taken
  <2>2. Held("STD") <= Slots
    BY <2>1 DEF SlotInv
  <2> QED BY <2>2 DEF SmallSlotInv, SlotLimits, Held
<1> HIDE DEF Inv
<1> QED BY <1>1, <1>2, <1>3, PTL DEF Spec

------------------------------------------------------------------------------
(* Slots that are opened while uploads are slow (MIN_UPLOAD_SPEED).          *)

AutoInv == CountInv /\ reservedSlots = {} /\ Held("STD") <= Slots + AutoSlots + 1

LEMMA StartUploadAuto ==
    ASSUME AutoInv, Favorites = {}, Slots + AutoSlots < 255,
           NEW c \in Conns, NEW file, NEW op, StartUpload(c, file, op)
    PROVE  Held("STD")' <= Slots + AutoSlots + 1
<1> PICK s \in Grants(c, file, op) \cup (IF AutoSlot THEN {"STD"} ELSE {}),
         state \in {"SEND", "RUNNING"} :
         conn' = [conn EXCEPT ![c] = [@ EXCEPT !.slot = s, !.state = state, !.upload = TRUE]]
  BY DEF StartUpload
<1>1. s \in Taken
  BY DEF Grants, SmallSlot, Taken
<1>2. ConnType /\ CountersMatch /\ conn[c] \in Conn /\ conn \in [Conns -> Conn]
  BY DEF AutoInv, CountInv, ConnType
<1>3. conn'[c].slot = s
  BY <1>1, <1>2 DEF Conn
<1>4. \A d \in Conns \ {c} : conn'[d].slot = conn[d].slot
  BY <1>2
<1>5. /\ Slots \in Nat /\ AutoSlots \in Nat
      /\ Held("STD") \in Nat /\ Held("STD")' \in Nat
      /\ s # "STD" \/ conn[c].slot = s => Held("STD")' <= Held("STD")
      /\ Held("STD")' <= Held("STD") + 1
  <2>1. "STD" \in Taken
    BY DEF Taken
  <2> QED BY <1>1, <1>2, <1>3, <1>4, <2>1, HeldType, MoveHeld, SlotAssumption
<1>6. count["STD"] = Held("STD")
  <2>1. /\ "STD" \in Taken /\ Slots + AutoSlots + 1 \in Nat
        /\ Held("STD") <= Slots + AutoSlots + 1 /\ Slots + AutoSlots + 1 <= 255
    BY <1>5 DEF Taken, AutoInv
  <2> HIDE DEF Held
  <2> QED BY <1>2, <2>1, ExactCount
<1>7. CASE s # "STD" \/ conn[c].slot = s
  BY <1>5, <1>7 DEF AutoInv
<1>8. CASE s = "STD" /\ conn[c].slot # s
  <2>1. AutoSlot \/ HasFreeSlot(conn[c].user)
    BY <1>8 DEF Grants, SmallSlot, Entitled, AutoInv
  <2>2. count["STD"] <= Slots + AutoSlots
    BY <1>5, <1>6, <2>1 DEF AutoSlot, HasFreeSlot, FreeSlots
  <2> QED BY <1>5, <1>6, <2>2
<1> QED BY <1>7, <1>8

LEMMA AutoNext ==
    ASSUME AutoInv, Favorites = {}, Env \cap {"race", "reserve"} = {}, Slots + AutoSlots < 255,
           [Next]_vars
    PROVE  AutoInv'
<1> DEFINE Bounded == Held("STD") <= Slots + AutoSlots + 1
<1>1. ASSUME KeepSlots PROVE Bounded'
  BY <1>1, KeepHeld DEF Taken, AutoInv
<1>2. ASSUME UNCHANGED conn PROVE Bounded'
  BY <1>1, <1>2 DEF KeepSlots
<1>3. CountInv
  BY DEF AutoInv
<1>4. ASSUME NEW c \in Conns, ConnNext(c) PROVE Bounded'
  <2>1. ASSUME NEW u \in Users, AddConnection(c, u) PROVE Bounded'
    BY <1>1, <1>3, <2>1, AddConnectionCount
  <2>2. ASSUME NEW file, NEW op, StartUpload(c, file, op) PROVE Bounded'
    BY <2>2, StartUploadAuto
  <2>3. ASSUME NEW file, NEW op, TurnAway(c, file, op) PROVE Bounded'
    BY <1>2, <2>3 DEF TurnAway
  <2>4. CASE Send(c) \/ Failed(c) \/ UMFailed(c) \/ \E chunked \in BOOLEAN : TransmitDone(c, chunked)
    BY <1>1, <1>3, <2>4, SteadyCount
  <2>5. CASE SlotLost(c)
    <3>1. /\ conn'[c].slot = "NO" /\ \A d \in Conns \ {c} : conn'[d].slot = conn[d].slot
      BY <1>3, <2>5 DEF SlotLost, NoConn, CountInv, ConnType
    <3>2. Held("STD") \in Nat /\ Held("STD")' \in Nat /\ Held("STD")' <= Held("STD")
      BY <1>3, <3>1, HeldType, MoveHeld DEF Taken, CountInv
    <3> QED BY <3>2, SlotAssumption DEF AutoInv
  <2>6. ~SlotRead(c) /\ ~SlotWritten(c)
    BY <1>3 DEF SlotRead, SlotWritten, CountInv, Orderly
  <2> QED BY <1>4, <2>1, <2>2, <2>3, <2>4, <2>5, <2>6 DEF ConnNext
<1>5. ASSUME NEW u \in Users, UserNext(u) PROVE Bounded'
  BY <1>2, <1>5
  DEF UserNext, UserOnline, UserOffline, UserDisconnected, ReserveSlot, UnreserveSlot
<1>6. ASSUME DelayedUploadsEnd PROVE Bounded'
  <2>1. PICK c \in Conns : TRUE
    BY <1>3, <1>6 DEF DelayedUploadsEnd, CountInv, ConnType
  <2> QED BY <1>1, <1>3, <1>6, <2>1, SteadyCount
<1>7. ASSUME NotifyQueuedUsers \/ Minute \/ UNCHANGED vars PROVE Bounded'
  BY <1>2, <1>7 DEF NotifyQueuedUsers, Minute, vars
<1>8. Bounded'
  BY <1>4, <1>5, <1>6, <1>7 DEF Next
<1>9. CountInv' /\ reservedSlots' = {}
  BY <1>3, CountNext, NobodyReserves DEF AutoInv
<1> QED BY <1>8, <1>9 DEF AutoInv

(* getAutoSlot compares with < where it ought to with <=, so the limit that    *)
(* AutoSlotsLimited states is exceeded, but by one slot only: however slow    *)
(* the uploads, however many users and connections, no more than one          *)
(* connection beyond "Maximum auto opened" has a standard slot, as long as a   *)
(* byte can count them and nobody is entitled to more.                        *)
THEOREM AutoSlotsOneTooMany ==
    ASSUME Favorites = {}, Env \cap {"race", "reserve"} = {}, Slots + AutoSlots < 255
    PROVE  Spec => [](Cardinality(Holders("STD")) <= Slots + AutoSlots + 1)
<1>1. Init => AutoInv
  <2> SUFFICES ASSUME Init PROVE AutoInv
    OBVIOUS
  <2>1. Holders("STD") = {}
    BY DEF Init, Holders, NoConn
  <2>2. Held("STD") = 0
    BY <2>1, FS_EmptySet DEF Held
  <2> QED BY <2>2, CountInit, SlotAssumption DEF AutoInv, Init
<1>2. AutoInv /\ [Next]_vars => AutoInv'
  BY AutoNext
<1>3. AutoInv => Cardinality(Holders("STD")) <= Slots + AutoSlots + 1
  BY DEF AutoInv, Held
<1> QED BY <1>1, <1>2, <1>3, PTL DEF Spec

------------------------------------------------------------------------------
(* SlotPromises.                                                             *)

LEMMA SameWithout ==
    ASSUME NEW queue, NEW S
    PROVE  Promises!Without(queue, S) = Without(queue, S)
BY DEF Promises!Without, Without

LEMMA SameCardinality ==
    ASSUME NEW S
    PROVE  Promises!Cardinality(S) = Cardinality(S)
BY DEF Promises!Cardinality, Cardinality

PromiseInv ==
    /\ SlotInv /\ OwnInv /\ uploadItems \subseteq Users
    /\ connecting \in [Users -> Absent..2]

LEMMA UploadItemsType ==
    ASSUME uploadItems \subseteq Users, [Next]_vars
    PROVE  uploadItems' \subseteq Users
<1>1. ASSUME NEW c \in Conns, ConnNext(c) PROVE uploadItems' \subseteq Users
  BY <1>1
  DEF ConnNext, AddConnection, StartUpload, TurnAway, Send, TransmitDone, Failed, UMFailed,
      SlotLost, SlotRead, SlotWritten
<1>2. ASSUME NEW u \in Users, UserNext(u) PROVE uploadItems' = uploadItems
  BY <1>2
  DEF UserNext, UserOnline, UserOffline, UserDisconnected, ReserveSlot, UnreserveSlot
<1>3. DelayedUploadsEnd \/ NotifyQueuedUsers \/ Minute \/ UNCHANGED vars
      => uploadItems' = uploadItems
  BY DEF DelayedUploadsEnd, NotifyQueuedUsers, Minute, vars
<1> QED BY <1>1, <1>2, <1>3 DEF Next

LEMMA PromiseStutter ==
    ASSUME KeepSlots, UNCHANGED <<uploadQueue, connecting>>
    PROVE  UNCHANGED Promises!vars
<1>1. Holders("STD")' = Holders("STD")
  BY DEF KeepSlots, Holders
<1> QED BY <1>1 DEF Promises!vars, Connecting

LEMMA PromiseGiveUp ==
    ASSUME KeepSlots, NEW S \in SUBSET Users, uploadQueue' = Without(uploadQueue, S),
           Connecting' = Connecting \ S
    PROVE  Promises!Next
<1>1. Holders("STD")' = Holders("STD")
  BY DEF KeepSlots, Holders
<1>2. Promises!GiveUp(S)
  BY <1>1, SameWithout DEF Promises!GiveUp
<1> QED BY <1>2 DEF Promises!Next

LEMMA PromiseStart ==
    ASSUME PromiseInv, IsFiniteSet(Users), Favorites = {}, "auto" \notin Env,
           NEW c \in Conns, NEW file, NEW op, StartUpload(c, file, op)
    PROVE  Promises!Next
<1> DEFINE u == conn[c].user
<1>1. PICK s \in Grants(c, file, op) :
          /\ s \in Taken /\ conn'[c].slot = s
          /\ \A d \in Conns \ {c} : conn'[d].slot = conn[d].slot
  BY StartUploadMoves DEF PromiseInv, SlotInv
<1>2. u \in Users
  BY DEF StartUpload, PromiseInv, OwnInv, OneUpload, Live
<1>3. /\ uploadQueue' = Without(uploadQueue, {u}) /\ Connecting' = Connecting \ {u}
  BY DEF StartUpload, PromiseInv, SlotInv, Connecting, Absent
<1>4. /\ Held("STD") \in Nat
      /\ Held("STD")' = IF conn[c].slot # s /\ "STD" = conn[c].slot THEN Held("STD") - 1
                        ELSE IF conn[c].slot # s /\ "STD" = s THEN Held("STD") + 1
                        ELSE Held("STD")
  BY <1>1, HoldersMove DEF Held, Taken, PromiseInv, SlotInv, CountInv
<1>5. CASE s = "STD" /\ conn[c].slot # "STD"
  <2>1. HasFreeSlot(u)
    BY <1>1, <1>5 DEF Grants, SmallSlot, Entitled, PromiseInv, SlotInv
  <2>2. count["STD"] = Held("STD") /\ Held("STD") <= Slots /\ Slots \in Nat
    <3>1. Slots \in Nat /\ Slots <= 255 /\ Cardinality(Connecting) \in Nat
      BY SlotAssumption, ConnectingType
    <3>2. Held("STD") <= Slots
      BY <1>4, <3>1 DEF PromiseInv, SlotInv
    <3> QED BY <3>1, <3>2, ExactCount DEF PromiseInv, SlotInv, CountInv, Taken
  <2>3. Promises!MayTake(u)
    BY <1>4, <2>1, <2>2 DEF HasFreeSlot, FreeSlots, Promises!MayTake, Held
  <2>4. Promises!Take(u)
    BY <1>3, <1>4, <1>5, <2>3, SameWithout DEF Promises!Take, Held
  <2> QED BY <1>2, <2>4 DEF Promises!Next
<1>6. CASE s # "STD" \/ conn[c].slot = "STD"
  <2>1. conn[c].slot = "STD" => s = "STD"
    BY <1>1 DEF Grants
  <2>2. Held("STD")' = Held("STD")
    BY <1>4, <1>6, <2>1
  <2>3. Promises!GiveUp({u})
    BY <1>3, <2>2, SameWithout DEF Promises!GiveUp, Held
  <2> QED BY <1>2, <2>3 DEF Promises!Next
<1> QED BY <1>5, <1>6

(* Who is turned away had no claim: the slots that are free are for others.   *)
LEMMA PromiseTurnAway ==
    ASSUME PromiseInv, IsFiniteSet(Users), NEW c \in Conns, NEW file, NEW op,
           TurnAway(c, file, op)
    PROVE  [Promises!Next]_(Promises!vars)
<1> DEFINE u == conn[c].user
<1>1. KeepSlots /\ UNCHANGED connecting
  BY DEF TurnAway, KeepSlots
<1>2. CASE u \in Waiting
  BY <1>1, <1>2, PromiseStutter DEF TurnAway
<1>3. CASE u \notin Waiting
  <2>1. u \in Users /\ ~HasFreeSlot(u)
    BY DEF TurnAway, PromiseInv, OwnInv, OneUpload, Live, Grants, Entitled
  <2>2. /\ Held("STD") \in Nat /\ Cardinality(Connecting) \in Nat /\ IsFiniteSet(Connecting)
        /\ Slots \in Nat /\ Slots <= 255 /\ Held("STD") + Cardinality(Connecting) <= Slots
    BY HeldType, ConnectingType, SlotAssumption DEF Taken, PromiseInv, SlotInv
  <2>3. count["STD"] = Held("STD")
    BY <2>2, ExactCount DEF PromiseInv, SlotInv, CountInv, Taken
  <2>4. u \notin Connecting
    <3>1. ASSUME u \in Connecting PROVE FALSE
      <4>1. Cardinality(Connecting) > 0
        BY <2>2, <3>1, FS_EmptySet
      <4>2. FreeSlots > 0
        BY <2>2, <2>3, <4>1 DEF FreeSlots
      <4> QED BY <2>1, <3>1, <4>2 DEF HasFreeSlot
    <3> QED BY <3>1
  <2>5. ~Promises!MayTake(u)
    BY <2>1, <2>2, <2>3, <2>4 DEF HasFreeSlot, FreeSlots, Promises!MayTake, Held
  <2>6. Promises!TurnAway(u)
    <3>1. Holders("STD")' = Holders("STD") /\ Connecting' = Connecting
      BY <1>1 DEF KeepSlots, Holders, Connecting
    <3>2. \A i \in 1 .. Len(uploadQueue) : uploadQueue[i] # u
      BY <1>3 DEF Waiting
    <3>3. uploadQueue' = Append(uploadQueue, u)
      BY <1>3 DEF TurnAway
    <3> QED BY <2>4, <2>5, <3>1, <3>2, <3>3 DEF Promises!TurnAway
  <2> QED BY <2>1, <2>6 DEF Promises!Next
<1> QED BY <1>2, <1>3

LEMMA PromiseCall ==
    ASSUME PromiseInv, IsFiniteSet(Users), NotifyQueuedUsers
    PROVE  Promises!Next
<1> DEFINE called(k) == {u \in {uploadQueue[i] : i \in 1..k} : online[u]}
<1>1. PICK k \in 1..Len(uploadQueue) :
          /\ Cardinality(called(k - 1)) < FreeSlots - Cardinality(Connecting)
          /\ uploadQueue' = SubSeq(uploadQueue, k + 1, Len(uploadQueue))
          /\ connecting' = [u \in Users |-> IF u \in called(k) THEN 0 ELSE connecting[u]]
  BY DEF NotifyQueuedUsers
<1>2. IsFiniteSet(called(k - 1))
  <2> DEFINE f == [i \in 1..(k - 1) |-> uploadQueue[i]]
             image == {uploadQueue[i] : i \in 1..(k - 1)}
  <2>1. f \in Surjection(1..(k - 1), image)
    BY DEF Surjection
  <2>2. IsFiniteSet(1..(k - 1))
    BY FS_Interval
  <2>3. IsFiniteSet(image)
    BY <2>1, <2>2, FS_Surjection
  <2> QED BY <2>3, FS_Subset
<1>3. Cardinality(called(k - 1)) \in Nat
  <2> DEFINE before == called(k - 1)
  <2>1. IsFiniteSet(before)
    BY <1>2
  <2> HIDE DEF before
  <2>2. Cardinality(before) \in Nat
    BY <2>1, FS_CardinalityType
  <2> QED BY <2>2 DEF before
<1>4. /\ Held("STD") \in Nat /\ Cardinality(Connecting) \in Nat /\ Slots \in Nat /\ Slots <= 255
      /\ Held("STD") + Cardinality(Connecting) <= Slots
  BY HeldType, ConnectingType, SlotAssumption DEF Taken, PromiseInv, SlotInv
<1>5. count["STD"] = Held("STD")
  BY <1>4, ExactCount DEF PromiseInv, SlotInv, CountInv, Taken
<1>6. Held("STD") + Cardinality(Connecting) < Slots
  <2>1. FreeSlots - Cardinality(Connecting) > 0 /\ FreeSlots \in Nat
    <3>1. FreeSlots \in Nat
      BY <1>4, <1>5 DEF FreeSlots
    <3> QED BY <1>1, <1>3, <1>4, <3>1
  <2> QED BY <1>4, <1>5, <2>1 DEF FreeSlots
<1>7. Holders("STD")' = Holders("STD")
  BY DEF NotifyQueuedUsers, Holders
<1>8. \E reached \in SUBSET {uploadQueue[i] : i \in 1..k} : Connecting' = Connecting \cup reached
  <2> DEFINE reached == called(k) \cap Users
  <2>1. Connecting' = Connecting \cup reached
    BY <1>1 DEF Connecting, Absent
  <2>2. reached \in SUBSET {uploadQueue[i] : i \in 1..k}
    OBVIOUS
  <2> QED BY <2>1, <2>2
<1>9. Held("STD")' + Cardinality(Connecting') <= Slots
  BY NotifyPromise DEF PromiseInv
<1> HIDE DEF called
<1>10. Promises!Call
  <2>1. Cardinality(Holders("STD"))' = Cardinality(Holders("STD"))
    BY <1>7
  <2>2. /\ Cardinality(Holders("STD")) + Cardinality(Connecting) < Slots
        /\ Cardinality(Holders("STD")) + Cardinality(Connecting') <= Slots
    BY <1>6, <1>9, <2>1 DEF Held
  <2>3. \E i \in 1 .. Len(uploadQueue) :
           /\ uploadQueue' = SubSeq(uploadQueue, i + 1, Len(uploadQueue))
           /\ \E reached \in SUBSET {uploadQueue[j] : j \in 1 .. i} :
                  Connecting' = Connecting \cup reached
    BY <1>1, <1>8
  <2> QED BY <2>1, <2>2, <2>3, SameCardinality DEF Promises!Call
<1> QED BY <1>10 DEF Promises!Next

LEMMA PromiseRelease ==
    ASSUME PromiseInv, NEW c \in Conns, SlotLost(c)
    PROVE  [Promises!Next]_(Promises!vars)
<1>1. /\ conn'[c].slot = "NO" /\ \A d \in Conns \ {c} : conn'[d].slot = conn[d].slot
      /\ conn[c].slot # "NO" /\ UNCHANGED <<uploadQueue, connecting>>
  BY DEF SlotLost, NoConn, PromiseInv, SlotInv, CountInv, ConnType, Orderly
<1>2. CASE conn[c].slot # "STD"
  <2>1. Holders("STD")' = Holders("STD")
    BY <1>1, <1>2 DEF Holders
  <2> QED BY <1>1, <2>1 DEF Promises!vars, Connecting
<1>3. CASE conn[c].slot = "STD"
  <2>1. Held("STD") \in Nat /\ Held("STD")' = Held("STD") - 1
    BY <1>1, <1>3, HoldersMove DEF Held, Taken, PromiseInv, SlotInv, CountInv
  <2>2. Held("STD") > 0
    <3>1. c \in Holders("STD") /\ IsFiniteSet(Holders("STD"))
      BY <1>3, HeldType DEF Holders, Taken
    <3> QED BY <2>1, <3>1, FS_EmptySet DEF Held
  <2>3. Promises!Release
    BY <1>1, <2>1, <2>2 DEF Promises!Release, Held, Connecting
  <2> QED BY <2>3 DEF Promises!Next
<1> QED BY <1>2, <1>3

LEMMA PromiseMinute ==
    ASSUME PromiseInv, Minute
    PROVE  Promises!Next
<1>1. PICK some \in SUBSET {u \in Users : connecting[u] = 1} :
          LET lapsed == some \cup {u \in Users : connecting[u] = 2}
          IN  /\ connecting' = [u \in Users |->
                     IF u \in lapsed \/ connecting[u] = Absent THEN Absent
                                                               ELSE connecting[u] + 1]
              /\ uploadQueue' = Without(uploadQueue, lapsed)
  BY DEF Minute
<1> DEFINE lapsed == some \cup {u \in Users : connecting[u] = 2}
<1>2. uploadQueue' = Without(uploadQueue, lapsed) /\ lapsed \in SUBSET Users
  BY <1>1
<1>3. PICK S : S = lapsed
  OBVIOUS
<1>4. connecting \in [Users -> Absent..2]
  BY DEF PromiseInv
<1>5. Connecting' = Connecting \ S
  BY <1>1, <1>3, <1>4 DEF Connecting, Absent
<1>6. KeepSlots
  BY DEF Minute, KeepSlots
<1> QED BY <1>2, <1>3, <1>5, <1>6, PromiseGiveUp

LEMMA ConnectingStays ==
    ASSUME connecting \in [Users -> Absent..2], [Next]_vars
    PROVE  connecting' \in [Users -> Absent..2]
<1> USE DEF Absent
<1>1. ASSUME NEW c \in Conns, ConnNext(c) PROVE connecting' \in [Users -> Absent..2]
  <2>1. connecting' = connecting \/ \E u : connecting' = [connecting EXCEPT ![u] = Absent]
    BY <1>1
    DEF ConnNext, AddConnection, StartUpload, TurnAway, Send, TransmitDone, Failed, UMFailed,
        SlotLost, SlotRead, SlotWritten
  <2> QED BY <2>1
<1>2. ASSUME NEW u \in Users, UserNext(u) PROVE connecting' = connecting
  BY <1>2
  DEF UserNext, UserOnline, UserOffline, UserDisconnected, ReserveSlot, UnreserveSlot
<1>3. DelayedUploadsEnd \/ UNCHANGED vars => connecting' = connecting
  BY DEF DelayedUploadsEnd, vars
<1>4. CASE NotifyQueuedUsers
  <2> DEFINE called(k) == {u \in {uploadQueue[i] : i \in 1..k} : online[u]}
  <2>1. PICK k \in 1..Len(uploadQueue) :
            connecting' = [u \in Users |-> IF u \in called(k) THEN 0 ELSE connecting[u]]
    BY <1>4 DEF NotifyQueuedUsers
  <2> HIDE DEF called
  <2> QED BY <2>1
<1>5. CASE Minute
  <2>1. PICK some \in SUBSET {u \in Users : connecting[u] = 1} :
            connecting' = [u \in Users |->
                IF u \in some \cup {w \in Users : connecting[w] = 2} \/ connecting[u] = Absent
                THEN Absent ELSE connecting[u] + 1]
    BY <1>5 DEF Minute
  <2> QED BY <2>1
<1> QED BY <1>1, <1>2, <1>3, <1>4, <1>5 DEF Next

LEMMA PromiseInvNext ==
    ASSUME PromiseInv, IsFiniteSet(Users), Favorites = {},
           Env \cap {"race", "reserve", "auto"} = {}, [Next]_vars
    PROVE  PromiseInv'
BY SlotInvNext, OwnNext, UploadItemsType, ConnectingStays DEF PromiseInv

LEMMA PromiseSteps ==
    ASSUME PromiseInv, IsFiniteSet(Users), Favorites = {},
           Env \cap {"race", "reserve", "auto"} = {}, [Next]_vars
    PROVE  [Promises!Next]_(Promises!vars)
<1>1. CountInv
  BY DEF PromiseInv, SlotInv
<1>2. ASSUME NEW c \in Conns, ConnNext(c) PROVE [Promises!Next]_(Promises!vars)
  <2>1. ASSUME NEW u \in Users, AddConnection(c, u) PROVE [Promises!Next]_(Promises!vars)
    <3>1. KeepSlots
      BY <1>1, <2>1, AddConnectionCount
    <3> QED BY <2>1, <3>1, PromiseStutter DEF AddConnection
  <2>2. ASSUME NEW file, NEW op, StartUpload(c, file, op) PROVE [Promises!Next]_(Promises!vars)
    BY <2>2, PromiseStart
  <2>3. ASSUME NEW file, NEW op, TurnAway(c, file, op) PROVE [Promises!Next]_(Promises!vars)
    BY <2>3, PromiseTurnAway
  <2>4. CASE Send(c) \/ Failed(c) \/ UMFailed(c) \/ \E chunked \in BOOLEAN : TransmitDone(c, chunked)
    <3>1. KeepSlots
      BY <1>1, <2>4, SteadyCount
    <3>2. UNCHANGED <<uploadQueue, connecting>>
      BY <2>4 DEF Send, Failed, UMFailed, TransmitDone
    <3> QED BY <3>1, <3>2, PromiseStutter
  <2>5. CASE SlotLost(c)
    BY <2>5, PromiseRelease
  <2>6. ~SlotRead(c) /\ ~SlotWritten(c)
    BY <1>1 DEF SlotRead, SlotWritten, CountInv, Orderly
  <2> QED BY <1>2, <2>1, <2>2, <2>3, <2>4, <2>5, <2>6 DEF ConnNext
<1>3. ASSUME NEW u \in Users, UserNext(u) PROVE [Promises!Next]_(Promises!vars)
  <2>1. KeepSlots /\ UNCHANGED connecting
    BY <1>3
    DEF UserNext, UserOnline, UserOffline, UserDisconnected, ReserveSlot, UnreserveSlot, KeepSlots
  <2>2. CASE UNCHANGED uploadQueue
    BY <2>1, <2>2, PromiseStutter
  <2>3. CASE UserDisconnected(u)
    <3>1. Holders("STD")' = Holders("STD") /\ Connecting' = Connecting
      BY <2>1 DEF KeepSlots, Holders, Connecting
    <3>2. Promises!GiveUp({u})
      BY <2>3, <3>1, SameWithout DEF UserDisconnected, Promises!GiveUp
    <3> QED BY <3>2 DEF Promises!Next
  <2> QED BY <1>3, <2>2, <2>3
          DEF UserNext, UserOnline, UserOffline, ReserveSlot, UnreserveSlot
<1>4. CASE DelayedUploadsEnd
  <2>1. PICK c \in Conns : TRUE
    BY <1>1, <1>4 DEF DelayedUploadsEnd, CountInv, ConnType
  <2>2. KeepSlots /\ UNCHANGED <<uploadQueue, connecting>>
    BY <1>1, <1>4, <2>1, SteadyCount DEF DelayedUploadsEnd
  <2> QED BY <2>2, PromiseStutter
<1>5. CASE NotifyQueuedUsers
  BY <1>5, PromiseCall
<1>6. CASE Minute
  BY <1>6, PromiseMinute
<1>7. CASE UNCHANGED vars
  <2>1. KeepSlots
    BY <1>7 DEF vars, KeepSlots
  <2> QED BY <1>7, <2>1, PromiseStutter DEF vars
<1> QED BY <1>2, <1>3, <1>4, <1>5, <1>6, <1>7 DEF Next

(* Whatever becomes of connections, counters and clocks, those who download    *)
(* from us see the policy of SlotPromises: called back in the order in which   *)
(* they were turned away, a slot kept for whoever was called, and newcomers     *)
(* served at once only when nobody has a claim (UploadManager::hasFreeSlot,     *)
(* notifyQueuedUsers), unless slots are given past the queue or a decrement is  *)
(* lost.                                                                     *)
THEOREM PromisesAreKept ==
    ASSUME IsFiniteSet(Users), Favorites = {}, Env \cap {"race", "reserve", "auto"} = {}
    PROVE  Spec => Promises!Spec
<1>1. Init => PromiseInv
  <2> SUFFICES ASSUME Init PROVE PromiseInv
    OBVIOUS
  <2>1. uploadItems \subseteq Users /\ connecting \in [Users -> Absent..2]
    BY DEF Init, Absent
  <2> QED BY <2>1, SlotInvInit, OwnInit DEF PromiseInv
<1>2. PromiseInv /\ [Next]_vars => PromiseInv'
  BY PromiseInvNext
<1>3. PromiseInv /\ [Next]_vars => [Promises!Next]_(Promises!vars)
  BY PromiseSteps
<1>4. Init => Promises!Init
  <2> SUFFICES ASSUME Init PROVE Promises!Init
    OBVIOUS
  <2>1. Holders("STD") = {} /\ Connecting = {}
    BY DEF Init, Holders, NoConn, Connecting
  <2> QED BY <2>1, FS_EmptySet DEF Init, Promises!Init
<1> QED BY <1>1, <1>2, <1>3, <1>4, PTL DEF Spec, Promises!Spec

------------------------------------------------------------------------------
(* The queue: who is taken out of it, by induction over its length.          *)

LEMMA WithoutSteps ==
    ASSUME NEW queue \in Seq(Users), NEW S
    PROVE  \E kept \in [0 .. Len(queue) -> Seq(Users)] :
               /\ kept[0] = <<>> /\ Without(queue, S) = kept[Len(queue)]
               /\ \A n \in 1 .. Len(queue) :
                      kept[n] = IF queue[n] \in S THEN kept[n - 1] ELSE Append(kept[n - 1], queue[n])
<1> DEFINE N == Len(queue)
           step == [p \in Nat \X Seq(Users) |->
                       IF p[1] + 1 \in 1 .. N /\ queue[p[1] + 1] \notin S
                       THEN Append(p[2], queue[p[1] + 1]) ELSE p[2]]
           Is(kept) == kept = [n \in 0 .. N |->
                                  IF n = 0 THEN <<>>
                                  ELSE IF queue[n] \in S THEN kept[n - 1] ELSE Append(kept[n - 1], queue[n])]
           kept == CHOOSE k : Is(k)
<1>1. N \in Nat /\ \A n \in 1 .. N : queue[n] \in Users
  BY ElementOfSeq
<1>2. step \in [Nat \X Seq(Users) -> Seq(Users)]
  <2> SUFFICES ASSUME NEW p \in Nat \X Seq(Users) PROVE step[p] \in Seq(Users)
    OBVIOUS
  <2> QED BY <1>1
<1>3. PICK f \in [0 .. N -> Seq(Users)] : Recurs(f, N, <<>>, step)
  <2>1. <<>> \in Seq(Users)
    OBVIOUS
  <2> HIDE DEF step, Is
  <2> QED BY <1>1, <1>2, <2>1, RecursionExists
<1>4. \A n \in 1 .. N : f[n] = IF queue[n] \in S THEN f[n - 1] ELSE Append(f[n - 1], queue[n])
  <2> SUFFICES ASSUME NEW n \in 1 .. N
               PROVE  f[n] = IF queue[n] \in S THEN f[n - 1] ELSE Append(f[n - 1], queue[n])
    OBVIOUS
  <2>1. n - 1 \in 0 .. N /\ n - 1 \in Nat /\ n - 1 + 1 = n /\ n \in 0 .. N /\ n # 0
    BY <1>1
  <2>2. <<n - 1, f[n - 1]>> \in Nat \X Seq(Users)
    BY <2>1
  <2>3. step[<<n - 1, f[n - 1]>>] = IF queue[n] \in S THEN f[n - 1] ELSE Append(f[n - 1], queue[n])
    BY <2>1, <2>2
  <2>4. f[n] = step[<<n - 1, f[n - 1]>>]
    BY <1>3, <2>1 DEF Recurs
  <2> HIDE DEF step
  <2> QED BY <2>3, <2>4
<1>5. Is(f)
  <2>1. f = [n \in 0 .. N |-> f[n]]
    OBVIOUS
  <2>2. \A n \in 0 .. N : f[n] = IF n = 0 THEN <<>>
                                 ELSE IF queue[n] \in S THEN f[n - 1] ELSE Append(f[n - 1], queue[n])
    <3>1. f[0] = <<>>
      BY <1>3 DEF Recurs
    <3>2. \A n \in 0 .. N : n = 0 \/ n \in 1 .. N
      BY <1>1
    <3> HIDE DEF step, N
    <3> QED BY <1>4, <3>1, <3>2
  <2> QED BY <2>1, <2>2
<1>6. Is(kept)
  <2> HIDE DEF Is
  <2> QED BY <1>5
<1>7. Without(queue, S) = kept[N]
  BY DEF Without
<1>8. DOMAIN kept = 0 .. N /\ kept = [n \in 0 .. N |-> kept[n]]
  <2>1. kept = [n \in 0 .. N |-> IF n = 0 THEN <<>>
                                 ELSE IF queue[n] \in S THEN kept[n - 1] ELSE Append(kept[n - 1], queue[n])]
    BY <1>6
  <2> HIDE DEF kept, N, Is
  <2>2. DOMAIN kept = 0 .. N
    BY <2>1
  <2>3. \A n \in 0 .. N : kept[n] = IF n = 0 THEN <<>>
                                    ELSE IF queue[n] \in S THEN kept[n - 1] ELSE Append(kept[n - 1], queue[n])
    BY <2>1
  <2>4. kept = [n \in 0 .. N |-> kept[n]]
    BY <2>1, <2>3
  <2> QED BY <2>2, <2>4
<1>9. /\ kept[0] = <<>>
      /\ \A n \in 1 .. N : kept[n] = IF queue[n] \in S THEN kept[n - 1] ELSE Append(kept[n - 1], queue[n])
  <2> HIDE DEF kept
  <2>1. 0 \in 0 .. N /\ \A n \in 1 .. N : n \in 0 .. N /\ n # 0
    BY <1>1
  <2> QED BY <1>6, <2>1
<1> HIDE DEF kept
<1>10. \A n \in 0 .. N : kept[n] \in Seq(Users)
  <2> DEFINE T == {n \in Nat : n <= N => kept[n] \in Seq(Users)}
  <2>1. 0 \in T
    <3>1. <<>> \in Seq(Users)
      OBVIOUS
    <3> QED BY <1>9, <3>1
  <2>2. ASSUME NEW n \in Nat, n \in T PROVE n + 1 \in T
    <3> SUFFICES ASSUME n + 1 <= N PROVE kept[n + 1] \in Seq(Users)
      OBVIOUS
    <3>1. n <= N /\ n + 1 \in 1 .. N /\ n + 1 - 1 = n
      BY <1>1
    <3>2. kept[n] \in Seq(Users) /\ queue[n + 1] \in Users
      BY <1>1, <2>2, <3>1
    <3>3. kept[n + 1] = IF queue[n + 1] \in S THEN kept[n] ELSE Append(kept[n], queue[n + 1])
      BY <1>9, <3>1
    <3> QED BY <3>2, <3>3
  <2>3. Nat \subseteq T
    <3> HIDE DEF T
    <3> QED BY <2>1, <2>2, SetInduction
  <2> QED BY <1>1, <2>3
<1>11. kept \in [0 .. N -> Seq(Users)]
  BY <1>8, <1>10
<1> QED BY <1>7, <1>9, <1>11

LEMMA WithoutType ==
    ASSUME NEW queue \in Seq(Users), NEW S PROVE Without(queue, S) \in Seq(Users)
<1>1. Len(queue) \in 0 .. Len(queue)
  OBVIOUS
<1> QED BY <1>1, WithoutSteps

In(queue) == {queue[i] : i \in 1 .. Len(queue)}
Distinct(queue) == \A i, j \in 1 .. Len(queue) : queue[i] = queue[j] => i = j

LEMMA InAppend ==
    ASSUME NEW queue \in Seq(Users), NEW u \in Users
    PROVE  /\ Append(queue, u) \in Seq(Users) /\ In(Append(queue, u)) = In(queue) \cup {u}
           /\ Distinct(queue) /\ u \notin In(queue) => Distinct(Append(queue, u))
<1> DEFINE q == Append(queue, u)
<1>1. /\ q \in Seq(Users) /\ Len(queue) \in Nat /\ Len(q) = Len(queue) + 1 /\ q[Len(queue) + 1] = u
      /\ \A i \in 1 .. Len(queue) : q[i] = queue[i]
  BY AppendProperties
<1> HIDE DEF q
<1>2. 1 .. Len(q) = 1 .. Len(queue) \cup {Len(queue) + 1}
  BY <1>1
<1>3. In(q) = In(queue) \cup {u}
  BY <1>1, <1>2 DEF In
<1>4. ASSUME Distinct(queue), u \notin In(queue) PROVE Distinct(q)
  <2>1. \A i \in 1 .. Len(queue) : q[i] # u
    BY <1>1, <1>4 DEF In
  <2> QED BY <1>1, <1>2, <1>4, <2>1 DEF Distinct
<1> QED BY <1>1, <1>3, <1>4 DEF q

(* Who is not in S stays, once if it was there once.                          *)
LEMMA WithoutIs ==
    ASSUME NEW queue \in Seq(Users), NEW S
    PROVE  /\ In(Without(queue, S)) = In(queue) \ S
           /\ Distinct(queue) => Distinct(Without(queue, S))
<1> DEFINE front(n) == {queue[i] : i \in 1 .. n}
<1>1. PICK kept \in [0 .. Len(queue) -> Seq(Users)] :
          /\ kept[0] = <<>> /\ Without(queue, S) = kept[Len(queue)]
          /\ \A n \in 1 .. Len(queue) :
                 kept[n] = IF queue[n] \in S THEN kept[n - 1] ELSE Append(kept[n - 1], queue[n])
  BY WithoutSteps
<1> DEFINE T == {n \in Nat : n <= Len(queue) =>
                                /\ In(kept[n]) = front(n) \ S
                                /\ Distinct(queue) => Distinct(kept[n])}
<1>2. Len(queue) \in Nat /\ \A n \in 1 .. Len(queue) : queue[n] \in Users
  BY ElementOfSeq
<1>3. 0 \in T
  <2>1. Len(<<>>) = 0 /\ 1 .. 0 = {}
    OBVIOUS
  <2> QED BY <1>1, <2>1 DEF In, Distinct
<1>4. ASSUME NEW n \in Nat, n \in T PROVE n + 1 \in T
  <2> SUFFICES ASSUME n + 1 <= Len(queue)
               PROVE  /\ In(kept[n + 1]) = front(n + 1) \ S
                      /\ Distinct(queue) => Distinct(kept[n + 1])
    OBVIOUS
  <2> DEFINE u == queue[n + 1]
  <2>1. n <= Len(queue) /\ n \in 0 .. Len(queue) /\ n + 1 \in 1 .. Len(queue) /\ n + 1 - 1 = n
    BY <1>2
  <2>2. /\ kept[n] \in Seq(Users) /\ u \in Users /\ In(kept[n]) = front(n) \ S
        /\ Distinct(queue) => Distinct(kept[n])
    BY <1>2, <1>4, <2>1
  <2>3. kept[n + 1] = IF u \in S THEN kept[n] ELSE Append(kept[n], u)
    BY <1>1, <2>1
  <2>4. 1 .. n + 1 = 1 .. n \cup {n + 1}
    OBVIOUS
  <2>5. front(n + 1) = front(n) \cup {u}
    BY <2>4
  <2>6. Distinct(queue) => u \notin front(n)
    <3>1. \A i \in 1 .. n : i \in 1 .. Len(queue) /\ i # n + 1
      BY <1>2, <2>1
    <3> QED BY <2>1, <3>1 DEF Distinct
  <2> HIDE DEF front, u
  <2>7. CASE u \in S
    BY <2>2, <2>3, <2>5, <2>7
  <2>8. CASE u \notin S
    <3>1. /\ In(Append(kept[n], u)) = In(kept[n]) \cup {u}
          /\ Distinct(kept[n]) /\ u \notin In(kept[n]) => Distinct(Append(kept[n], u))
      BY <2>2, InAppend
    <3> QED BY <2>2, <2>3, <2>5, <2>6, <2>8, <3>1
  <2> QED BY <2>7, <2>8
<1>5. Nat \subseteq T
  <2> HIDE DEF T
  <2> QED BY <1>3, <1>4, SetInduction
<1>6. front(Len(queue)) = In(queue)
  BY DEF In
<1>7. Len(queue) \in T
  BY <1>2, <1>5
<1> QED BY <1>1, <1>2, <1>6, <1>7

------------------------------------------------------------------------------
(* Types.  A connection in use belongs to a user, and what is to be given back  *)
(* is a slot.                                                                *)

SoundConn == {r \in Conn : /\ r.state # "FREE" => r.user \in Users
                           /\ r.pc \in {"lost", "store"} => r.slot # "NO"}

UserTypes ==
    /\ online \in [Users -> BOOLEAN]
    /\ uploadItems \subseteq Users /\ reservedSlots \subseteq Users
    /\ connecting \in [Users -> Absent..2]
QueueTypes == uploadQueue \in Seq(Users) /\ Distinct(uploadQueue)
ConnTypes ==
    /\ conn \in [Conns -> SoundConn]
    /\ uploads \subseteq Conns /\ delayUploads \subseteq Conns
    /\ count \in [Taken -> 0..255]

TypeInv == UserTypes /\ QueueTypes /\ ConnTypes

LEMMA TypeParts == TypeInv => TypeOK
<1>1. SoundConn \subseteq Conn
  BY DEF SoundConn
<1> QED BY <1>1 DEF TypeInv, UserTypes, QueueTypes, ConnTypes, TypeOK

LEMMA TypeInit == Init => TypeInv
<1> SUFFICES ASSUME Init PROVE TypeInv
  OBVIOUS
<1>1. NoConn \in SoundConn
  BY NoConnType DEF SoundConn, NoConn
<1>2. QueueTypes
  <2>1. <<>> \in Seq(Users) /\ 1 .. Len(<<>>) = {}
    OBVIOUS
  <2> QED BY <2>1 DEF Init, QueueTypes, Distinct
<1>3. UserTypes
  BY DEF Init, UserTypes, Absent
<1>4. ConnTypes
  BY <1>1 DEF Init, ConnTypes
<1> QED BY <1>2, <1>3, <1>4 DEF TypeInv

LEMMA UsersUnchanged ==
    ASSUME UserTypes, UNCHANGED <<online, uploadItems, reservedSlots, connecting>> PROVE UserTypes'
BY DEF UserTypes

LEMMA QueueUnchanged == ASSUME QueueTypes, UNCHANGED uploadQueue PROVE QueueTypes'
BY DEF QueueTypes, Distinct

LEMMA QueueCut == ASSUME QueueTypes, NEW S, uploadQueue' = Without(uploadQueue, S) PROVE QueueTypes'
<1>1. Without(uploadQueue, S) \in Seq(Users) /\ Distinct(Without(uploadQueue, S))
  BY WithoutType, WithoutIs DEF QueueTypes
<1>2. Distinct(uploadQueue)' <=> Distinct(uploadQueue')
  BY DEF Distinct
<1> QED BY <1>1, <1>2 DEF QueueTypes

(* What handlers make of a connection.                                        *)
LEMMA SoundSteps ==
    ASSUME NEW r \in SoundConn
    PROVE  /\ r \in Conn /\ r.slot \in Taken \cup {"NO"} /\ r.state \in {"FREE", "GET", "SEND", "RUNNING"}
           /\ r.state # "FREE" => r.user \in Users
           /\ r.pc \in {"lost", "store"} => r.slot \in Taken
           /\ NoConn \in SoundConn
           /\ \A s \in Taken, state \in {"SEND", "RUNNING"} :
                  r.state = "GET" => [r EXCEPT !.slot = s, !.state = state, !.upload = TRUE] \in SoundConn
           /\ r.state # "FREE" => [r EXCEPT !.state = "RUNNING"] \in SoundConn
           /\ \A b \in BOOLEAN :
                  /\ [r EXCEPT !.upload = b] \in SoundConn
                  /\ r.state # "FREE" => [r EXCEPT !.state = "GET", !.upload = b] \in SoundConn
                  /\ [r EXCEPT !.upload = b, !.pc = "failed"] \in SoundConn
                  /\ [r EXCEPT !.upload = b, !.pc = r.pc] \in SoundConn
           /\ [r EXCEPT !.pc = "failed"] \in SoundConn
           /\ r.slot # "NO" => [r EXCEPT !.upload = FALSE, !.pc = "lost"] \in SoundConn
           /\ \A n \in 0..255 :
                  r.pc = "lost" => [r EXCEPT !.pc = "store", !.old = n] \in SoundConn
<1>1. NoConn \in SoundConn
  BY NoConnType DEF SoundConn, NoConn
<1>2. /\ r \in Conn /\ r.slot \in Taken \cup {"NO"} /\ r.state \in {"FREE", "GET", "SEND", "RUNNING"}
      /\ r.state # "FREE" => r.user \in Users
      /\ r.pc \in {"lost", "store"} => r.slot \in Taken
  BY DEF SoundConn, Conn, Taken
<1>3. ASSUME NEW s \in Taken, NEW state \in {"SEND", "RUNNING"}, r.state = "GET"
      PROVE  [r EXCEPT !.slot = s, !.state = state, !.upload = TRUE] \in SoundConn
  BY <1>3 DEF SoundConn, Conn, Taken
<1>4. r.state # "FREE" => [r EXCEPT !.state = "RUNNING"] \in SoundConn
  BY DEF SoundConn, Conn
<1>5. ASSUME NEW b \in BOOLEAN
      PROVE  /\ [r EXCEPT !.upload = b] \in SoundConn
             /\ r.state # "FREE" => [r EXCEPT !.state = "GET", !.upload = b] \in SoundConn
             /\ [r EXCEPT !.upload = b, !.pc = "failed"] \in SoundConn
             /\ [r EXCEPT !.upload = b, !.pc = r.pc] \in SoundConn
  <2>1. [r EXCEPT !.upload = b] \in SoundConn
    BY DEF SoundConn, Conn
  <2>2. r.state # "FREE" => [r EXCEPT !.state = "GET", !.upload = b] \in SoundConn
    BY DEF SoundConn, Conn
  <2>3. [r EXCEPT !.upload = b, !.pc = "failed"] \in SoundConn
    BY DEF SoundConn, Conn
  <2>4. [r EXCEPT !.upload = b, !.pc = r.pc] = [r EXCEPT !.upload = b]
    BY UploadType DEF SoundConn
  <2> QED BY <2>1, <2>2, <2>3, <2>4
<1>6. [r EXCEPT !.pc = "failed"] \in SoundConn
  BY DEF SoundConn, Conn
<1>7. r.slot # "NO" => [r EXCEPT !.upload = FALSE, !.pc = "lost"] \in SoundConn
  BY DEF SoundConn, Conn
<1>8. ASSUME NEW n \in 0..255, r.pc = "lost" PROVE [r EXCEPT !.pc = "store", !.old = n] \in SoundConn
  BY <1>8 DEF SoundConn, Conn
<1> QED BY <1>1, <1>2, <1>3, <1>4, <1>5, <1>6, <1>7, <1>8

LEMMA OneSound ==
    ASSUME ConnTypes, NEW c \in Conns, NEW r \in SoundConn, conn' = [conn EXCEPT ![c] = r]
    PROVE  conn' \in [Conns -> SoundConn]
BY DEF ConnTypes

LEMMA StartUploadTypes ==
    ASSUME TypeInv, NEW c \in Conns, NEW file, NEW op, StartUpload(c, file, op)
    PROVE  TypeInv'
<1> DEFINE u == conn[c].user
<1>1. conn[c] \in SoundConn /\ conn[c].state = "GET" /\ u \in Users
  BY SoundSteps DEF TypeInv, ConnTypes, StartUpload
<1>2. Grants(c, file, op) \subseteq Taken /\ "STD" \in Taken
  BY DEF Grants, SmallSlot, Taken
<1>3. PICK s \in Taken, state \in {"SEND", "RUNNING"} :
          /\ conn' = [conn EXCEPT ![c] = [@ EXCEPT !.slot = s, !.state = state, !.upload = TRUE]]
          /\ count' = Moved(conn[c].slot, s)
  BY <1>2 DEF StartUpload
<1> DEFINE r == [conn[c] EXCEPT !.slot = s, !.state = state, !.upload = TRUE]
<1>4. r \in SoundConn
  BY <1>1, SoundSteps
<1>5. conn' \in [Conns -> SoundConn]
  <2>1. conn' = [conn EXCEPT ![c] = r]
    BY <1>3
  <2> HIDE DEF r
  <2> QED BY <1>4, <2>1, OneSound DEF TypeInv
<1>6. count' \in [Taken -> 0..255]
  BY <1>3, MovedType DEF TypeInv, ConnTypes
<1>7. ConnTypes'
  BY <1>5, <1>6 DEF TypeInv, ConnTypes, StartUpload
<1>8. UserTypes'
  BY <1>1 DEF TypeInv, UserTypes, StartUpload, Absent
<1>9. QueueTypes'
  BY QueueCut DEF TypeInv, StartUpload
<1> QED BY <1>7, <1>8, <1>9 DEF TypeInv

LEMMA TurnAwayTypes ==
    ASSUME TypeInv, NEW c \in Conns, NEW file, NEW op, TurnAway(c, file, op)
    PROVE  TypeInv'
<1> DEFINE u == conn[c].user
<1>1. u \in Users
  BY SoundSteps DEF TypeInv, ConnTypes, TurnAway
<1>2. QueueTypes'
  <2>1. CASE u \in Waiting
    BY <2>1, QueueUnchanged DEF TypeInv, TurnAway
  <2>2. CASE u \notin Waiting
    <3>1. u \notin In(uploadQueue) /\ uploadQueue' = Append(uploadQueue, u)
      BY <2>2 DEF Waiting, In, TurnAway
    <3> HIDE DEF u
    <3>2. Append(uploadQueue, u) \in Seq(Users) /\ Distinct(Append(uploadQueue, u))
      BY <1>1, <3>1, InAppend DEF TypeInv, QueueTypes
    <3>3. Distinct(uploadQueue)' <=> Distinct(uploadQueue')
      BY DEF Distinct
    <3> QED BY <3>1, <3>2, <3>3 DEF QueueTypes
  <2> QED BY <2>1, <2>2
<1> QED BY <1>2, UsersUnchanged DEF TypeInv, ConnTypes, TurnAway

LEMMA FailedTypes ==
    ASSUME TypeInv, NEW c \in Conns, Failed(c)
    PROVE  TypeInv'
<1> DEFINE mine == {d \in delayUploads : conn[d].user = conn[c].user}
<1>1. \A d \in Conns : conn[d] \in SoundConn
  BY DEF TypeInv, ConnTypes
<1>2. conn' \in [Conns -> SoundConn] /\ delayUploads' \subseteq delayUploads
  <2>1. CASE mine = {} /\ delayUploads' = delayUploads /\ conn' = [conn EXCEPT ![c].pc = "failed"]
    <3>1. [conn[c] EXCEPT !.pc = "failed"] \in SoundConn
      BY <1>1, SoundSteps
    <3> QED BY <2>1, <3>1, OneSound DEF TypeInv
  <2>2. CASE \E d \in mine :
                 /\ delayUploads' = delayUploads \ {d}
                 /\ conn' = [e \in Conns |-> [conn[e] EXCEPT !.upload = @ /\ e # d,
                                                             !.pc = IF e = c THEN "failed" ELSE @]]
    <3>1. PICK d \in mine :
              /\ delayUploads' = delayUploads \ {d}
              /\ conn' = [e \in Conns |-> [conn[e] EXCEPT !.upload = @ /\ e # d,
                                                          !.pc = IF e = c THEN "failed" ELSE @]]
      BY <2>2
    <3>2. ASSUME NEW e \in Conns
          PROVE  [conn[e] EXCEPT !.upload = @ /\ e # d, !.pc = IF e = c THEN "failed" ELSE @] \in SoundConn
      <4>1. PICK b \in BOOLEAN : b = (conn[e].upload /\ e # d)
        OBVIOUS
      <4>2. CASE e = c
        BY <1>1, <4>1, <4>2, SoundSteps
      <4>3. CASE e # c
        BY <1>1, <4>1, <4>3, SoundSteps
      <4> QED BY <4>2, <4>3
    <3> QED BY <3>1, <3>2
  <2> QED BY <2>1, <2>2 DEF Failed
<1>3. ConnTypes'
  BY <1>2 DEF TypeInv, ConnTypes, Failed
<1>4. UserTypes'
  BY DEF TypeInv, UserTypes, Failed
<1> QED BY <1>3, <1>4, QueueUnchanged DEF TypeInv, Failed

(* Handlers of a connection that change nothing else than it and the counters.   *)
LEMMA OneConnTypes ==
    ASSUME TypeInv, NEW c \in Conns, NEW r \in SoundConn, conn' = [conn EXCEPT ![c] = r],
           uploads' \subseteq Conns, delayUploads' \subseteq Conns, count' \in [Taken -> 0..255],
           UNCHANGED <<online, uploadQueue, connecting, reservedSlots>>, uploadItems' \subseteq Users
    PROVE  TypeInv'
<1>1. ConnTypes'
  BY OneSound DEF TypeInv, ConnTypes
<1>2. UserTypes'
  BY DEF TypeInv, UserTypes
<1> QED BY <1>1, <1>2, QueueUnchanged DEF TypeInv

LEMMA ConnTypesNext ==
    ASSUME TypeInv, NEW c \in Conns, ConnNext(c)
    PROVE  TypeInv'
<1> DEFINE r == conn[c]
<1>1. /\ r \in SoundConn /\ uploads \subseteq Conns /\ delayUploads \subseteq Conns
      /\ count \in [Taken -> 0..255] /\ uploadItems \subseteq Users
  BY DEF TypeInv, ConnTypes, UserTypes
<1>2. \A n \in 0..255 : Byte(n - 1) \in 0..255
  BY DEF Byte
<1>3. ASSUME NEW u \in Users, AddConnection(c, u) PROVE TypeInv'
  <2> DEFINE new == [NoConn EXCEPT !.user = u, !.state = "GET"]
  <2>1. new \in SoundConn
    BY NewConnType DEF SoundConn
  <2>2. conn' = [conn EXCEPT ![c] = new]
    BY <1>3 DEF AddConnection
  <2> HIDE DEF new
  <2> QED BY <1>1, <1>3, <2>1, <2>2, OneConnTypes DEF AddConnection
<1>4. CASE Send(c)
  <2>1. [r EXCEPT !.state = "RUNNING"] \in SoundConn
    BY <1>1, <1>4, SoundSteps DEF Send
  <2> QED BY <1>1, <1>4, <2>1, OneConnTypes DEF Send
<1>5. ASSUME NEW chunked \in BOOLEAN, TransmitDone(c, chunked) PROVE TypeInv'
  <2>1. [r EXCEPT !.state = "GET", !.upload = chunked] \in SoundConn
    BY <1>1, <1>5, SoundSteps DEF TransmitDone
  <2> QED BY <1>1, <1>5, <2>1, OneConnTypes DEF TransmitDone
<1>6. CASE UMFailed(c)
  <2> DEFINE new == IF r.slot = "NO" THEN NoConn ELSE [r EXCEPT !.upload = FALSE, !.pc = "lost"]
  <2>1. new \in SoundConn
    BY <1>1, SoundSteps
  <2>2. conn' = [conn EXCEPT ![c] = new]
    BY <1>6 DEF UMFailed
  <2> HIDE DEF new
  <2> QED BY <1>1, <1>6, <2>1, <2>2, OneConnTypes DEF UMFailed
<1>7. CASE SlotLost(c)
  <2>1. NoConn \in SoundConn /\ r.slot \in Taken
    BY <1>1, <1>7, SoundSteps DEF SlotLost
  <2>2. count' \in [Taken -> 0..255]
    BY <1>1, <1>2, <1>7, <2>1 DEF SlotLost
  <2> QED BY <1>1, <1>7, <2>1, <2>2, OneConnTypes DEF SlotLost
<1>8. CASE SlotRead(c)
  <2>1. count[r.slot] \in 0..255
    BY <1>1, <1>8, SoundSteps DEF SlotRead
  <2>2. [r EXCEPT !.pc = "store", !.old = count[r.slot]] \in SoundConn
    BY <1>1, <1>8, <2>1, SoundSteps DEF SlotRead
  <2>3. conn' = [conn EXCEPT ![c] = [r EXCEPT !.pc = "store", !.old = count[r.slot]]]
    BY <1>8 DEF SlotRead, ConnTypes, TypeInv
  <2> QED BY <1>1, <1>8, <2>2, <2>3, OneConnTypes DEF SlotRead
<1>9. CASE SlotWritten(c)
  <2>1. NoConn \in SoundConn /\ r.slot \in Taken /\ r.old \in 0..255
    BY <1>1, <1>9, SoundSteps DEF SlotWritten, Conn
  <2>2. count' \in [Taken -> 0..255]
    BY <1>1, <1>2, <1>9, <2>1 DEF SlotWritten
  <2> QED BY <1>1, <1>9, <2>1, <2>2, OneConnTypes DEF SlotWritten
<1> QED BY <1>3, <1>4, <1>5, <1>6, <1>7, <1>8, <1>9, StartUploadTypes, TurnAwayTypes, FailedTypes
        DEF ConnNext

LEMMA TimerTypes == TypeInv /\ (DelayedUploadsEnd \/ NotifyQueuedUsers \/ Minute) => TypeInv'
<1> SUFFICES ASSUME TypeInv, DelayedUploadsEnd \/ NotifyQueuedUsers \/ Minute PROVE TypeInv'
  OBVIOUS
<1>1. CASE DelayedUploadsEnd
  <2>1. PICK gone \in (SUBSET delayUploads) \ {{}} :
            /\ delayUploads' = delayUploads \ gone
            /\ conn' = [c \in Conns |-> IF c \in gone THEN [conn[c] EXCEPT !.upload = FALSE] ELSE conn[c]]
    BY <1>1 DEF DelayedUploadsEnd
  <2>2. \A c \in Conns : conn[c] \in SoundConn /\ [conn[c] EXCEPT !.upload = FALSE] \in SoundConn
    BY SoundSteps DEF TypeInv, ConnTypes
  <2>3. ConnTypes'
    BY <1>1, <2>1, <2>2 DEF TypeInv, ConnTypes, DelayedUploadsEnd
  <2> QED BY <1>1, <2>3, UsersUnchanged, QueueUnchanged DEF TypeInv, DelayedUploadsEnd
<1>2. CASE NotifyQueuedUsers
  <2>1. PICK k \in 1 .. Len(uploadQueue) : uploadQueue' = SubSeq(uploadQueue, k + 1, Len(uploadQueue))
    BY <1>2 DEF NotifyQueuedUsers
  <2> DEFINE q == SubSeq(uploadQueue, k + 1, Len(uploadQueue))
  <2>2. /\ uploadQueue \in Seq(Users) /\ Len(uploadQueue) \in Nat /\ k \in Nat
        /\ \A i \in k + 1 .. Len(uploadQueue) : uploadQueue[i] \in Users
    BY ElementOfSeq DEF TypeInv, QueueTypes
  <2>3. /\ q \in Seq(Users) /\ Len(q) = Len(uploadQueue) - k
        /\ \A i \in 1 .. Len(q) : q[i] = uploadQueue[k + i]
    <3>1. /\ q \in Seq(Users)
          /\ Len(q) = IF k + 1 <= Len(uploadQueue) THEN Len(uploadQueue) - (k + 1) + 1 ELSE 0
          /\ \A i \in 1 .. Len(uploadQueue) - (k + 1) + 1 : q[i] = uploadQueue[k + 1 + i - 1]
      BY <2>2, SubSeqProperties
    <3>2. k <= Len(uploadQueue)
      OBVIOUS
    <3> HIDE DEF q
    <3> QED BY <2>2, <3>1, <3>2
  <2> HIDE DEF q
  <2>4. Distinct(q)
    <3> SUFFICES ASSUME NEW i \in 1 .. Len(q), NEW j \in 1 .. Len(q), q[i] = q[j] PROVE i = j
      BY DEF Distinct
    <3>1. k + i \in 1 .. Len(uploadQueue) /\ k + j \in 1 .. Len(uploadQueue) /\ (k + i = k + j => i = j)
      BY <2>2, <2>3
    <3> QED BY <2>3, <3>1 DEF TypeInv, QueueTypes, Distinct
  <2>5. QueueTypes'
    <3>1. uploadQueue' = q
      BY <2>1 DEF q
    <3>2. Distinct(uploadQueue)' <=> Distinct(uploadQueue')
      BY DEF Distinct
    <3> QED BY <2>3, <2>4, <3>1, <3>2 DEF QueueTypes
  <2>6. UserTypes'
    <3>1. connecting' \in [Users -> Absent..2]
      BY <1>2 DEF TypeInv, UserTypes, NotifyQueuedUsers, Absent
    <3> QED BY <1>2, <3>1 DEF TypeInv, UserTypes, NotifyQueuedUsers
  <2> QED BY <1>2, <2>5, <2>6 DEF TypeInv, ConnTypes, NotifyQueuedUsers
<1>3. CASE Minute
  <2>1. QueueTypes' /\ UserTypes'
    <3>1. PICK some \in SUBSET {u \in Users : connecting[u] = 1} :
              LET lapsed == some \cup {u \in Users : connecting[u] = 2}
              IN  /\ connecting' = [u \in Users |->
                         IF u \in lapsed \/ connecting[u] = Absent THEN Absent ELSE connecting[u] + 1]
                  /\ uploadQueue' = Without(uploadQueue, lapsed)
      BY <1>3 DEF Minute
    <3> DEFINE lapsed == some \cup {u \in Users : connecting[u] = 2}
    <3>2. QueueTypes'
      <4>1. uploadQueue' = Without(uploadQueue, lapsed)
        BY <3>1
      <4> HIDE DEF lapsed
      <4> QED BY <4>1, QueueCut DEF TypeInv
    <3>3. \A u \in Users : u \notin lapsed /\ connecting[u] # Absent => connecting[u] + 1 \in Absent..2
      BY DEF TypeInv, UserTypes, Absent
    <3>4. connecting' \in [Users -> Absent..2]
      <4>1. connecting' = [u \in Users |->
                              IF u \in lapsed \/ connecting[u] = Absent THEN Absent ELSE connecting[u] + 1]
        BY <3>1
      <4>2. Absent \in Absent..2
        BY DEF Absent
      <4> HIDE DEF lapsed
      <4> QED BY <3>3, <4>1, <4>2
    <3> QED BY <1>3, <3>2, <3>4 DEF TypeInv, UserTypes, Minute
  <2> QED BY <1>3, <2>1 DEF TypeInv, ConnTypes, Minute
<1> QED BY <1>1, <1>2, <1>3

LEMMA UserTypesNext ==
    ASSUME TypeInv, NEW u \in Users, UserNext(u)
    PROVE  TypeInv'
<1>1. ConnTypes'
  BY DEF TypeInv, ConnTypes, UserNext, UserOnline, UserOffline, UserDisconnected, ReserveSlot, UnreserveSlot
<1>2. UserTypes'
  BY DEF TypeInv, UserTypes, UserNext, UserOnline, UserOffline, UserDisconnected, ReserveSlot, UnreserveSlot
<1>3. QueueTypes'
  <2>1. CASE UserDisconnected(u)
    BY <2>1, QueueCut DEF TypeInv, UserDisconnected
  <2>2. CASE ~UserDisconnected(u)
    BY <2>2, QueueUnchanged
    DEF TypeInv, UserNext, UserOnline, UserOffline, ReserveSlot, UnreserveSlot
  <2> QED BY <2>1, <2>2
<1> QED BY <1>1, <1>2, <1>3 DEF TypeInv

LEMMA TypeNext == TypeInv /\ [Next]_vars => TypeInv'
<1> SUFFICES ASSUME TypeInv, [Next]_vars PROVE TypeInv'
  OBVIOUS
<1>1. CASE UNCHANGED vars
  BY <1>1, UsersUnchanged, QueueUnchanged DEF TypeInv, ConnTypes, vars
<1> QED BY <1>1, ConnTypesNext, UserTypesNext, TimerTypes DEF Next

(* Types hold for any users, connections and settings, races of removeConnection  *)
(* included.                                                                  *)
THEOREM TypesAlways == Spec => []TypeOK
BY TypeInit, TypeNext, TypeParts, PTL DEF Spec

(* Nobody waits twice, so clearUserFiles, which erases the first entry of a user   *)
(* (UploadManager.cpp), leaves none, and who has got a slot is not called again.   *)
THEOREM WaitsOnceAlways == Spec => []Distinct(uploadQueue)
<1>1. TypeInv => Distinct(uploadQueue)
  BY DEF TypeInv, QueueTypes
<1> QED BY <1>1, TypeInit, TypeNext, PTL DEF Spec

(* What clearUserFiles does is what the model says: with nobody twice in the queue,  *)
(* erasing the first entry of u is taking u out of it (UploadManager.cpp:527).      *)
LEMMA WithoutOne ==
    ASSUME NEW queue \in Seq(Users), Distinct(queue), NEW i \in 1 .. Len(queue)
    PROVE  Without(queue, {queue[i]}) = SubSeq(queue, 1, i - 1) \o SubSeq(queue, i + 1, Len(queue))
<1> DEFINE N == Len(queue)
           Rest(n) == IF n < i THEN SubSeq(queue, 1, n)
                      ELSE SubSeq(queue, 1, i - 1) \o SubSeq(queue, i + 1, n)
<1>1. PICK kept \in [0 .. N -> Seq(Users)] :
          /\ kept[0] = <<>> /\ Without(queue, {queue[i]}) = kept[N]
          /\ \A n \in 1 .. N : kept[n] = IF queue[n] \in {queue[i]} THEN kept[n - 1]
                                         ELSE Append(kept[n - 1], queue[n])
  BY WithoutSteps
<1>2. N \in Nat /\ i \in 1 .. N /\ \A n \in 1 .. N : queue[n] \in Users /\ (queue[n] = queue[i] => n = i)
  BY ElementOfSeq DEF Distinct
<1>r. \A n \in 0 .. N :
          /\ n < i => Rest(n) = SubSeq(queue, 1, n)
          /\ n >= i => Rest(n) = SubSeq(queue, 1, i - 1) \o SubSeq(queue, i + 1, n)
  BY <1>2
<1>z. Rest(0) = <<>>
  BY <1>2
<1> HIDE DEF Rest
<1> DEFINE S == {n \in Nat : n <= N => kept[n] = Rest(n)}
<1>3. 0 \in S
  BY <1>1, <1>z
<1>4. ASSUME NEW n \in Nat, n \in S PROVE n + 1 \in S
  <2> SUFFICES ASSUME n + 1 <= N PROVE kept[n + 1] = Rest(n + 1)
    OBVIOUS
  <2>1. kept[n] = Rest(n) /\ n + 1 \in 1 .. N /\ n + 1 - 1 = n
    BY <1>4
  <2>2. kept[n + 1] = IF n + 1 = i THEN kept[n] ELSE Append(kept[n], queue[n + 1])
    BY <1>1, <1>2, <2>1
  <2>3. CASE n + 1 < i
    <3>1. SubSeq(queue, 1, n + 1) = Append(SubSeq(queue, 1, n), queue[n + 1])
      BY <1>2, <2>1
    <3>2. Rest(n) = SubSeq(queue, 1, n) /\ Rest(n + 1) = SubSeq(queue, 1, n + 1)
      BY <1>r, <2>1, <2>3
    <3>3. n + 1 # i
      BY <2>3
    <3> QED BY <2>1, <2>2, <3>1, <3>2, <3>3
  <2>4. CASE n + 1 = i
    <3>1. SubSeq(queue, i + 1, n + 1) = <<>>
      BY <2>4
    <3>2. SubSeq(queue, 1, i - 1) \o <<>> = SubSeq(queue, 1, i - 1)
      <4>1. SubSeq(queue, 1, i - 1) \in Seq(Users)
        BY <1>2
      <4> QED BY <4>1
    <3>3. Rest(n) = SubSeq(queue, 1, n) /\ n = i - 1
      BY <1>r, <2>1, <2>4
    <3>4. Rest(n + 1) = SubSeq(queue, 1, i - 1) \o SubSeq(queue, i + 1, n + 1)
      BY <1>r, <2>1, <2>4
    <3>5. kept[n + 1] = kept[n]
      BY <2>2, <2>4
    <3>6. Rest(n + 1) = SubSeq(queue, 1, i - 1)
      BY <3>1, <3>2, <3>4
    <3>7. Rest(n) = SubSeq(queue, 1, i - 1)
      BY <3>3
    <3> QED BY <2>1, <3>5, <3>6, <3>7
  <2>5. CASE n + 1 > i
    <3>1. SubSeq(queue, i + 1, n + 1) = Append(SubSeq(queue, i + 1, n), queue[n + 1])
      BY <1>2, <2>1, <2>5
    <3>2. SubSeq(queue, 1, i - 1) \in Seq(Users) /\ SubSeq(queue, i + 1, n) \in Seq(Users)
      BY <1>2, <2>1, <2>5
    <3>3. SubSeq(queue, 1, i - 1) \o Append(SubSeq(queue, i + 1, n), queue[n + 1])
              = Append(SubSeq(queue, 1, i - 1) \o SubSeq(queue, i + 1, n), queue[n + 1])
      BY <1>2, <2>1, <3>2
    <3>4. Rest(n) = SubSeq(queue, 1, i - 1) \o SubSeq(queue, i + 1, n)
      <4>1. n \in 0 .. N /\ n >= i
        BY <1>2, <2>1, <2>5
      <4> QED BY <1>r, <4>1
    <3>5. Rest(n + 1) = SubSeq(queue, 1, i - 1) \o SubSeq(queue, i + 1, n + 1)
      <4>1. n + 1 \in 0 .. N /\ n + 1 >= i
        BY <1>2, <2>1, <2>5
      <4> QED BY <1>r, <4>1
    <3>6. kept[n + 1] = Append(kept[n], queue[n + 1])
      BY <2>2, <2>5
    <3> QED BY <2>1, <3>1, <3>3, <3>4, <3>5, <3>6
  <2> QED BY <1>2, <2>3, <2>4, <2>5
<1>5. Nat \subseteq S
  <2> HIDE DEF S
  <2> QED BY <1>3, <1>4, SetInduction
<1>6. kept[N] = Rest(N)
  <2>1. \A n \in S : n <= N => kept[n] = Rest(n)
    OBVIOUS
  <2>2. N \in S /\ N <= N
    BY <1>2, <1>5
  <2> HIDE DEF S
  <2> QED BY <2>1, <2>2
<1>7. Rest(N) = SubSeq(queue, 1, i - 1) \o SubSeq(queue, i + 1, N)
  <2>1. N \in 0 .. N /\ N >= i
    BY <1>2
  <2> HIDE DEF S
  <2> QED BY <1>r, <2>1
<1> QED BY <1>1, <1>6, <1>7
==============================================================================
