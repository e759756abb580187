--------------------------- MODULE ConnectionsProofs ---------------------------
(***************************************************************************)
(* Proofs about Connections, for any number of users and connections: its    *)
(* type invariant, the bond between queue items and connections, between     *)
(* running users and downloads, and between wanted users and queue items.    *)
(***************************************************************************)
EXTENDS Connections, TLAPS

(* A connection past the point where its user is named has one.              *)
OwnerKnown ==
    \A c \in Conns :
        \/ conn[c].pc # "events" \/ conn[c].listening
        \/ conn[c].state \in {"LOCK", "DIRECTION", "KEY", "IDLE"}
        => Owner(c) \in Users

TypeInv == Typed /\ OwnerKnown

LEMMA Clock == LongAgo \in Nat \ {0}
BY TimerAssumption DEF LongAgo

LEMMA NoConnType == NoConn \in Conn
BY DEF NoConn, Conn

LEMMA NoCQIType == NoCQI \in CQI /\ NewCQI \in CQI
BY TimerAssumption, Clock DEF NoCQI, NewCQI, CQI, Never

LEMMA TypeInit == Init => TypeInv
<1> SUFFICES ASSUME Init PROVE TypeInv
  OBVIOUS
<1>1. Typed
  BY NoConnType, NoCQIType DEF Init, Typed, Wanted
<1>2. OwnerKnown
  BY DEF Init, OwnerKnown, NoConn
<1> QED BY <1>1, <1>2 DEF TypeInv

LEMMA TickedType ==
    ASSUME NEW u \in Users, NEW pass, NEW slots, Typed
    PROVE  Ticked(u, pass, slots) \in CQI
<1> DEFINE q == [downloads[u] EXCEPT !.since = OneTickOlder(@)]
<1> USE TimerAssumption, Clock
<1>0. downloads[u] \in CQI
  BY DEF Typed
<1>1. q \in CQI
  <2>1. OneTickOlder(downloads[u].since) \in Never..LongAgo
    BY <1>0 DEF CQI, OneTickOlder, Never
  <2> QED BY <1>0, <2>1 DEF CQI
<1>2. Attempt(q, u \in slots) \in CQI
  <2> HIDE DEF q
  <2>1. q.state \in {"NONE", "WAITING", "CONNECTING", "NO_DOWNLOAD_SLOTS", "ACTIVE"}
    BY <1>1 DEF CQI
  <2>2. AttemptState(q.state, u \in slots)
            \in {"NONE", "WAITING", "CONNECTING", "NO_DOWNLOAD_SLOTS", "ACTIVE"}
    BY <2>1 DEF AttemptState
  <2>3. 0 \in Never..LongAgo
    BY DEF Never
  <2> QED BY <1>1, <2>2, <2>3 DEF CQI, Attempt
<1>3. [q EXCEPT !.errors = OneMoreError(@), !.state = "WAITING"] \in CQI
  <2> HIDE DEF q
  <2>1. OneMoreError(q.errors) \in -1..MaxErrors
    BY <1>1 DEF CQI, OneMoreError
  <2> QED BY <1>1, <2>1 DEF CQI
<1> QED BY <1>1, <1>2, <1>3, NoCQIType DEF Ticked, Pending

LEMMA QueueType ==
    ASSUME NEW u \in Users, TypeInv,
           \/ QueueAdd(u) \/ QueueResume(u) \/ QueueDrop(u) \/ QueueFreed(u)
           \/ UserOnline(u) \/ QueueUserConnected(u)
    PROVE  TypeInv'
BY DEF TypeInv, Typed, OwnerKnown, Owner, QueueAdd, QueueResume, QueueDrop, QueueFreed,
       UserOnline, QueueUserConnected, Wanted, clientVars, queueVars, itemVars, connVars

LEMMA QueuedTask ==
    ASSUME TypeInv, NEW S \in SUBSET Conns, NEW t \in {"DISCONNECT", "UPDATED"},
           conn' = [c \in Conns |-> IF c \in S THEN Queue(c, t) ELSE conn[c]]
    PROVE  conn' \in [Conns -> Conn] /\ OwnerKnown'
BY DEF TypeInv, Typed, OwnerKnown, Owner, Queue, Conn

LEMMA OneQueuedTask ==
    ASSUME TypeInv, NEW c \in Conns, NEW t \in {"DISCONNECT", "UPDATED"},
           conn' = [conn EXCEPT ![c] = Queue(c, t)]
    PROVE  conn' \in [Conns -> Conn] /\ OwnerKnown'
BY DEF TypeInv, Typed, OwnerKnown, Owner, Queue, Conn

LEMMA AfterRemovalType ==
    ASSUME TypeInv, NEW u \in Users, NEW new \in AfterRemoval(u)
    PROVE  /\ new \in [Conns -> Conn]
           /\ \A c \in Conns : new[c] = conn[c] \/ new[c] = Queue(c, "DISCONNECT")
<1>1. \/ new = conn
      \/ \E d \in Conns : new = [conn EXCEPT ![d] = Queue(d, "DISCONNECT")]
  BY DEF TypeInv, Typed, AfterRemoval, DisconnectOne, DownloadConns
<1>2. ASSUME NEW d \in Conns PROVE Queue(d, "DISCONNECT") \in Conn
  <2>1. conn[d] \in Conn
    BY DEF TypeInv, Typed
  <2> QED BY <2>1 DEF Queue, Conn
<1> QED BY <1>1, <1>2 DEF TypeInv, Typed

LEMMA DisconnectType ==
    ASSUME TypeInv, NEW u \in Users,
           RemoveSource(u) \/ UserOffline(u) \/ GetDownloadConnection(u) \/ ForceAttempt(u)
    PROVE  TypeInv'
<1>1. CASE RemoveSource(u)
  <2>1. conn' \in [Conns -> Conn] /\ OwnerKnown'
    <3>1. /\ conn' \in [Conns -> Conn]
          /\ \A c \in Conns : conn'[c] = conn[c] \/ conn'[c] = Queue(c, "DISCONNECT")
      BY <1>1, AfterRemovalType DEF RemoveSource
    <3> QED BY <3>1 DEF TypeInv, Typed, OwnerKnown, Owner, Queue, Conn
  <2> QED BY <1>1, <2>1 DEF RemoveSource, RemovedSource, TypeInv, Typed, Wanted, clientVars, itemVars
<1>2. CASE UserOffline(u)
  <2>1. conn' \in [Conns -> Conn] /\ OwnerKnown'
    BY <1>2 DEF UserOffline, DisconnectAll, TypeInv, Typed, OwnerKnown, Owner, Queue, Conn
  <2> QED BY <1>2, <2>1 DEF UserOffline, TypeInv, Typed, queueVars, itemVars
<1>3. CASE GetDownloadConnection(u)
  <2>1. conn' \in [Conns -> Conn] /\ OwnerKnown'
    BY <1>3, OneQueuedTask DEF GetDownloadConnection, TypeInv, Typed, OwnerKnown, Owner
  <2> QED BY <1>3, <2>1, NoCQIType DEF GetDownloadConnection, TypeInv, Typed, clientVars
<1>4. CASE ForceAttempt(u)
  <2>1. downloads' \in [Users -> CQI]
    BY <1>4, Clock DEF ForceAttempt, TypeInv, Typed, CQI, Never
  <2> QED BY <1>4, <2>1 DEF ForceAttempt, TypeInv, Typed, OwnerKnown, Owner, clientVars, queueVars, connVars
<1> QED BY <1>1, <1>2, <1>3, <1>4

LEMMA TimerType ==
    ASSUME TypeInv, Second \/ Shutdown \/ \E c \in Conns : Minute(c) \/ BadCommand(c)
    PROVE  TypeInv'
<1>1. CASE Second
  <2>1. downloads' \in [Users -> CQI]
    <3>1. \A u \in Users, pass \in SUBSET Users, slots \in SUBSET Users :
             Ticked(u, pass, slots) \in CQI
      BY TickedType DEF TypeInv
    <3>2. PICK pass \in SUBSET Users, slots \in SUBSET Users :
             downloads' = [u \in Users |-> Ticked(u, pass, slots)]
      BY <1>1 DEF Second
    <3> QED BY <3>1, <3>2
  <2> QED BY <1>1, <2>1 DEF Second, TypeInv, Typed, OwnerKnown, Owner, clientVars, queueVars, connVars
<1>2. CASE Shutdown
  <2>1. conn' \in [Conns -> Conn] /\ OwnerKnown'
    BY <1>2, QueuedTask DEF Shutdown, TypeInv, Typed
  <2> QED BY <1>2, <2>1 DEF Shutdown, TypeInv, Typed, clientVars, queueVars, itemVars
<1>3. ASSUME NEW c \in Conns, Minute(c) \/ BadCommand(c) PROVE TypeInv'
  <2>1. conn' \in [Conns -> Conn] /\ OwnerKnown'
    BY <1>3, OneQueuedTask DEF Minute, BadCommand
  <2> QED BY <1>3, <2>1 DEF Minute, BadCommand, TypeInv, Typed, clientVars, queueVars, itemVars
<1> QED BY <1>1, <1>2, <1>3

LEMMA OpeningType ==
    ASSUME TypeInv, NEW c \in Conns,
           \/ Accept(c) \/ ConnectCheck(c) \/ Connect(c) \/ Connected(c) \/ SUP(c)
           \/ UnexpectedNick(c) \/ CLock(c) \/ UnknownINF(c)
    PROVE  TypeInv'
<1>1. conn' \in [Conns -> Conn]
  BY NoConnType DEF TypeInv, Typed, Accept, ConnectCheck, Connect, Connected, SUP,
     UnexpectedNick, CLock, UnknownINF, PutConnection, Gone, Conn
<1>2. OwnerKnown'
  BY DEF TypeInv, Typed, Accept, ConnectCheck, Connect, Connected, SUP, UnexpectedNick,
     CLock, UnknownINF, PutConnection, Gone, Conn, NoConn, OwnerKnown, Owner, Ready
<1> QED BY <1>1, <1>2 DEF TypeInv, Typed, Accept, ConnectCheck, Connect, Connected, SUP,
     UnexpectedNick, CLock, UnknownINF, PutConnection, clientVars, queueVars, itemVars

LEMMA NickType ==
    ASSUME TypeInv, NEW c \in Conns, NEW u \in Users, MyNick(c, u)
    PROVE  TypeInv'
<1>1. conn' \in [Conns -> Conn]
  BY SMTT(30), NoConnType DEF TypeInv, Typed, MyNick, PutConnection, Gone, Conn
<1>2. OwnerKnown'
  BY DEF TypeInv, Typed, MyNick, PutConnection, Gone, Conn, NoConn, OwnerKnown, Owner
<1>3. downloads' \in [Users -> CQI]
  BY SMTT(30), TimerAssumption DEF TypeInv, Typed, MyNick, NickErrors, CQI
<1> QED BY <1>1, <1>2, <1>3 DEF TypeInv, Typed, MyNick, PutConnection, clientVars, queueVars

LEMMA DirectionType ==
    ASSUME TypeInv, NEW c \in Conns, NEW dir \in {"Upload", "Download"},
           NEW ours \in {"lower", "equal", "higher"}, Direction(c, dir, ours)
    PROVE  TypeInv'
<1>1. conn' \in [Conns -> Conn]
  BY NoConnType DEF TypeInv, Typed, Direction, PutConnection, Gone, Conn
<1>2. OwnerKnown'
  BY DEF TypeInv, Typed, Direction, PutConnection, Gone, Conn, NoConn, OwnerKnown, Owner
<1> QED BY <1>1, <1>2 DEF TypeInv, Typed, Direction, PutConnection, clientVars, queueVars, itemVars

LEMMA INFType ==
    ASSUME TypeInv, NEW c \in Conns, NEW u \in Users, NEW use \in {"DOWNLOAD", "UPLOAD"},
           INF(c, u, use)
    PROVE  TypeInv'
<1>1. conn' \in [Conns -> Conn]
  <2> DEFINE flags == conn[c].flags \cup {use}
             pc == IF use = "DOWNLOAD" THEN "addDown" ELSE "addUp"
             new == [conn[c] EXCEPT !.user = u, !.flags = flags, !.pc = pc]
  <2>1. conn[c] \in Conn /\ conn \in [Conns -> Conn]
    BY DEF TypeInv, Typed
  <2>2. flags \in SUBSET {"UPLOAD", "DOWNLOAD", "ASSOCIATED"} /\ pc \in {"addDown", "addUp"}
    BY <2>1 DEF Conn
  <2>3. conn' = [conn EXCEPT ![c] = new]
    BY <2>1 DEF INF
  <2> HIDE DEF flags, pc
  <2>4. new \in Conn
    BY <2>1, <2>2 DEF Conn
  <2> QED BY <2>1, <2>3, <2>4
<1>2. OwnerKnown'
  BY <1>1 DEF TypeInv, Typed, INF, Conn, OwnerKnown, Owner
<1>3. downloads' \in [Users -> CQI]
  <2>1. [downloads[u] EXCEPT !.errors = 0] \in CQI
    BY SMTT(30), TimerAssumption DEF TypeInv, Typed, CQI
  <2>2. CASE downloads[u].state # "NONE"
    BY <2>1, <2>2 DEF INF, TypeInv, Typed
  <2>3. CASE downloads[u].state = "NONE"
    BY <2>3 DEF INF, TypeInv, Typed
  <2> QED BY <2>2, <2>3
<1> QED BY <1>1, <1>2, <1>3 DEF TypeInv, Typed, INF, clientVars, queueVars

LEMMA UntrustedType ==
    ASSUME TypeInv, NEW c \in Conns, NEW u \in Users, UntrustedINF(c, u)
    PROVE  TypeInv'
<1> PICK new \in AfterRemoval(u) : conn' = [new EXCEPT ![c] = Gone(@)]
  BY DEF UntrustedINF
<1>1. new \in [Conns -> Conn]
      /\ \A d \in Conns : new[d] = conn[d] \/ new[d] = Queue(d, "DISCONNECT")
  BY AfterRemovalType
<1>2. conn' \in [Conns -> Conn]
  BY <1>1, NoConnType DEF Gone, Conn
<1>3. OwnerKnown'
  BY <1>1 DEF TypeInv, Typed, OwnerKnown, Owner, Gone, NoConn, Queue, Conn
<1> QED BY <1>2, <1>3 DEF TypeInv, Typed, UntrustedINF, RemovedSource, Wanted, clientVars, itemVars

LEMMA NewRecord ==
    ASSUME TypeInv, NEW c \in Conns, NEW r \in Conn, conn' = [conn EXCEPT ![c] = r],
           \/ r.user \in Users
           \/ r = NoConn
           \/ r.user = conn[c].user /\ r.pc = conn[c].pc /\ r.state = conn[c].state
              /\ r.listening = conn[c].listening
    PROVE  conn' \in [Conns -> Conn] /\ OwnerKnown'
BY DEF TypeInv, Typed, OwnerKnown, Owner, NoConn

LEMMA RecordTypes ==
    ASSUME NEW r \in Conn, NEW c
    PROVE  /\ RemoveConnection(c, r) \in Conn
           /\ [r EXCEPT !.download = FALSE] \in Conn
           /\ [r EXCEPT !.listening = TRUE, !.pc = "check"] \in Conn
           /\ [r EXCEPT !.download = FALSE, !.pc = "check"] \in Conn
           /\ [r EXCEPT !.download = TRUE, !.state = "SND", !.pc = "events"] \in Conn
           /\ [r EXCEPT !.state = "IDLE", !.pc = "events"] \in Conn
           /\ [r EXCEPT !.tasks = @ \ {"UPDATED"}, !.pc = "check"] \in Conn
           /\ [r EXCEPT !.tasks = @ \ {"UPDATED"}] \in Conn
           /\ [r EXCEPT !.tasks = @ \cup {"DISCONNECT"}, !.pc = "events"] \in Conn
           /\ [r EXCEPT !.pc = "park"] \in Conn
           /\ [r EXCEPT !.pc = "dmFailed"] \in Conn
<1>1. RemoveConnection(c, r) \in Conn
  BY DEF Conn, RemoveConnection
<1>2. [r EXCEPT !.download = FALSE] \in Conn
  BY DEF Conn
<1>3. [r EXCEPT !.listening = TRUE, !.pc = "check"] \in Conn
  BY DEF Conn
<1>4. [r EXCEPT !.download = FALSE, !.pc = "check"] \in Conn
  BY DEF Conn
<1>5. [r EXCEPT !.download = TRUE, !.state = "SND", !.pc = "events"] \in Conn
  BY DEF Conn
<1>6. [r EXCEPT !.state = "IDLE", !.pc = "events"] \in Conn
  BY DEF Conn
<1>7. [r EXCEPT !.tasks = @ \ {"UPDATED"}, !.pc = "check"] \in Conn
  BY DEF Conn
<1>8. [r EXCEPT !.tasks = @ \ {"UPDATED"}] \in Conn
  BY DEF Conn
<1>9. [r EXCEPT !.tasks = @ \cup {"DISCONNECT"}, !.pc = "events"] \in Conn
  BY DEF Conn
<1>10. /\ [r EXCEPT !.pc = "park"] \in Conn
       /\ [r EXCEPT !.pc = "dmFailed"] \in Conn
  BY DEF Conn
<1> QED BY <1>1, <1>2, <1>3, <1>4, <1>5, <1>6, <1>7, <1>8, <1>9, <1>10

LEMMA RecordOwner ==
    ASSUME NEW r \in Conn, NEW c
    PROVE  /\ RemoveConnection(c, r).user = r.user
           /\ [r EXCEPT !.download = FALSE].user = r.user
           /\ [r EXCEPT !.listening = TRUE, !.pc = "check"].user = r.user
           /\ [r EXCEPT !.download = FALSE, !.pc = "check"].user = r.user
           /\ [r EXCEPT !.download = TRUE, !.state = "SND", !.pc = "events"].user = r.user
           /\ [r EXCEPT !.state = "IDLE", !.pc = "events"].user = r.user
           /\ [r EXCEPT !.tasks = @ \ {"UPDATED"}, !.pc = "check"].user = r.user
           /\ [r EXCEPT !.tasks = @ \cup {"DISCONNECT"}, !.pc = "events"].user = r.user
           /\ [r EXCEPT !.pc = "park"].user = r.user
           /\ [r EXCEPT !.pc = "dmFailed"].user = r.user
BY DEF Conn, RemoveConnection

LEMMA AddDownloadType ==
    ASSUME NEW c \in Conns, TypeInv, AddDownloadConnection(c), Owner(c) \in Users
    PROVE  TypeInv'
<1>1. conn' \in [Conns -> Conn]
  BY NoConnType DEF TypeInv, Typed, AddDownloadConnection, PutConnection, Gone, Conn
<1>2. OwnerKnown'
  BY DEF TypeInv, Typed, AddDownloadConnection, PutConnection, Gone, OwnerKnown, Owner, NoConn, Conn
<1>3. downloads' \in [Users -> CQI]
  BY DEF TypeInv, Typed, AddDownloadConnection, CQI
<1> QED BY <1>1, <1>2, <1>3 DEF TypeInv, Typed, AddDownloadConnection, PutConnection, clientVars, queueVars

LEMMA AddUploadType ==
    ASSUME NEW c \in Conns, TypeInv, AddUploadConnection(c), Owner(c) \in Users
    PROVE  TypeInv'
<1>1. conn' \in [Conns -> Conn]
  BY NoConnType DEF TypeInv, Typed, AddUploadConnection, PutConnection, Gone, Conn
<1>2. OwnerKnown'
  BY DEF TypeInv, Typed, AddUploadConnection, PutConnection, Gone, OwnerKnown, Owner, NoConn, Conn
<1> QED BY <1>1, <1>2 DEF TypeInv, Typed, AddUploadConnection, PutConnection, clientVars, queueVars

LEMMA AssociationType ==
    ASSUME TypeInv, NEW c \in Conns, Key(c) \/ AddConnection(c)
    PROVE  TypeInv'
<1>1. Owner(c) \in Users
  BY DEF TypeInv, OwnerKnown, Key, AddConnection
<1>2. AddDownloadConnection(c) \/ AddUploadConnection(c)
  BY DEF Key, AddConnection
<1> QED BY <1>1, <1>2, AddDownloadType, AddUploadType

LEMMA QueueFields ==
    ASSUME TypeInv, NEW d \in Conns, NEW t
    PROVE  LET q == Queue(d, t)
           IN  /\ q.user = conn[d].user /\ q.pc = conn[d].pc /\ q.flags = conn[d].flags
               /\ q.listening = conn[d].listening /\ q.state = conn[d].state
               /\ q.download = conn[d].download
<1>1. conn[d] \in Conn
  BY DEF TypeInv, Typed
<1> QED BY <1>1 DEF Queue, Conn

LEMMA DMAddType ==
    ASSUME TypeInv, NEW c \in Conns, DMAddConnection(c)
    PROVE  TypeInv'
<1>1. Owner(c) \in Users /\ conn[c] \in Conn
  BY DEF TypeInv, Typed, OwnerKnown, DMAddConnection
<1>2. CASE RemovedSource(Owner(c))
           /\ \E new \in AfterRemoval(Owner(c)) :
                 conn' = [new EXCEPT ![c] = [new[c] EXCEPT !.tasks = @ \cup {"DISCONNECT"},
                                                      !.pc = "events"]]
  <2> PICK new \in AfterRemoval(Owner(c)) :
         conn' = [new EXCEPT ![c] = [new[c] EXCEPT !.tasks = @ \cup {"DISCONNECT"}, !.pc = "events"]]
    BY <1>2
  <2>1. new \in [Conns -> Conn]
        /\ \A d \in Conns : new[d] = conn[d] \/ new[d] = Queue(d, "DISCONNECT")
    BY <1>1, AfterRemovalType
  <2>2. conn' \in [Conns -> Conn]
    <3>1. new[c] \in Conn
      BY <2>1
    <3>2. [new[c] EXCEPT !.tasks = @ \cup {"DISCONNECT"}, !.pc = "events"] \in Conn
      BY <3>1, RecordTypes
    <3> QED BY <2>1, <3>2
  <2>3. OwnerKnown'
    <3>1. \A d \in Conns \ {c} : conn'[d] = conn[d] \/ conn'[d] = Queue(d, "DISCONNECT")
      BY <2>1
    <3>2. conn'[c].user = conn[c].user
      <4>1. new[c] \in Conn /\ new[c].user = conn[c].user
        BY <2>1 DEF TypeInv, Typed, Queue, Conn
      <4>2. [new[c] EXCEPT !.tasks = @ \cup {"DISCONNECT"}, !.pc = "events"].user = new[c].user
        BY <4>1, RecordOwner
      <4> QED BY <2>1, <4>1, <4>2
    <3>3. \A d \in Conns \ {c} :
             /\ conn'[d].user = conn[d].user /\ conn'[d].pc = conn[d].pc
             /\ conn'[d].listening = conn[d].listening /\ conn'[d].state = conn[d].state
      BY <3>1, QueueFields
    <3> QED BY <1>1, <3>2, <3>3 DEF TypeInv, OwnerKnown, Owner
  <2> QED BY <1>2, <2>2, <2>3 DEF TypeInv, Typed, DMAddConnection, RemovedSource, Wanted,
                                  clientVars, itemVars
<1>3. CASE UNCHANGED <<wanted, running>>
           /\ conn' = [conn EXCEPT ![c] = [@ EXCEPT !.listening = TRUE, !.pc = "check"]]
  <2>1. conn' \in [Conns -> Conn] /\ OwnerKnown'
    BY <1>1, <1>3, RecordTypes, RecordOwner, NewRecord DEF Owner
  <2> QED BY <1>3, <2>1 DEF TypeInv, Typed, DMAddConnection, clientVars, itemVars
<1> QED BY <1>2, <1>3 DEF DMAddConnection

LEMMA ServiceType ==
    ASSUME TypeInv, NEW c \in Conns, CheckDownloads(c) \/ Park(c) \/ Updated(c)
    PROVE  TypeInv'
<1>1. conn[c] \in Conn
  BY DEF TypeInv, Typed
<1>2. CASE CheckDownloads(c)
  <2>1. Owner(c) \in Users
    BY <1>2 DEF TypeInv, OwnerKnown, CheckDownloads
  <2>2. conn' \in [Conns -> Conn] /\ OwnerKnown'
    BY <1>1, <1>2, <2>1, RecordTypes, RecordOwner, NewRecord DEF CheckDownloads, Owner
  <2> QED BY <1>2, <2>1, <2>2 DEF TypeInv, Typed, CheckDownloads, Wanted, clientVars, itemVars
<1>3. CASE Park(c)
  <2>1. Owner(c) \in Users
    BY <1>3 DEF TypeInv, OwnerKnown, Park
  <2>2. conn' \in [Conns -> Conn] /\ OwnerKnown'
    BY <1>1, <1>3, <2>1, RecordTypes, RecordOwner, NewRecord DEF Park, Owner
  <2> QED BY <1>3, <2>2 DEF TypeInv, Typed, Park, clientVars, queueVars, itemVars
<1>4. CASE Updated(c)
  <2>1. CASE Idler(c)
    <3>1. Owner(c) \in Users
      BY <2>1 DEF TypeInv, OwnerKnown, Idler
    <3>2. conn' = [conn EXCEPT ![c] = [conn[c] EXCEPT !.tasks = @ \ {"UPDATED"}, !.pc = "check"]]
      BY <1>4, <2>1 DEF Updated
    <3>3. conn' \in [Conns -> Conn] /\ OwnerKnown'
      BY <1>1, <3>1, <3>2, RecordTypes, RecordOwner, NewRecord DEF Owner
    <3> QED BY <1>4, <3>3 DEF Updated, TypeInv, Typed, clientVars, queueVars, itemVars
  <2>2. CASE ~Idler(c)
    <3>1. conn' = [conn EXCEPT ![c] = [conn[c] EXCEPT !.tasks = @ \ {"UPDATED"}]]
      BY <1>4, <2>2 DEF Updated
    <3>2. conn' \in [Conns -> Conn] /\ OwnerKnown'
      <4> DEFINE r == [conn[c] EXCEPT !.tasks = @ \ {"UPDATED"}]
      <4>1. r \in Conn
        BY <1>1, RecordTypes
      <4>2. r.user = conn[c].user /\ r.pc = conn[c].pc /\ r.state = conn[c].state
            /\ r.listening = conn[c].listening
        BY <1>1 DEF Conn
      <4> HIDE DEF r
      <4> QED BY <3>1, <4>1, <4>2, NewRecord DEF r
    <3> QED BY <1>4, <3>2 DEF Updated, TypeInv, Typed, clientVars, queueVars, itemVars
  <2> QED BY <2>1, <2>2
<1> QED BY <1>2, <1>3, <1>4

LEMMA PutDownloadType ==
    ASSUME TypeInv, NEW u, PutDownload(u)
    PROVE  /\ wanted' \in [Users -> Wanted] /\ request' \in [Users -> BOOLEAN]
           /\ running' \in SUBSET Users
BY DEF TypeInv, Typed, PutDownload

LEMMA EndType ==
    ASSUME TypeInv, NEW c \in Conns, EndDownload(c) \/ FailDownload(c) \/ DMFailed(c)
    PROVE  TypeInv'
<1>1. conn[c] \in Conn
  BY DEF TypeInv, Typed
<1>2. /\ wanted' \in [Users -> Wanted] /\ request' \in [Users -> BOOLEAN]
      /\ running' \in SUBSET Users
  BY PutDownloadType DEF TypeInv, Typed, EndDownload, FailDownload, DMFailed, queueVars
<1>3. CASE DMFailed(c)
  <2>1. conn' \in [Conns -> Conn] /\ OwnerKnown'
    BY <1>3, NoConnType, NewRecord DEF DMFailed
  <2> QED BY <1>2, <1>3, <2>1 DEF TypeInv, Typed, DMFailed, clientVars, itemVars
<1>4. CASE EndDownload(c) \/ FailDownload(c)
  <2>1. Owner(c) \in Users
    BY <1>4 DEF TypeInv, OwnerKnown, EndDownload, FailDownload
  <2>2. conn' \in [Conns -> Conn] /\ OwnerKnown'
    <3>1. CASE EndDownload(c)
      BY <1>1, <3>1, <2>1, RecordTypes, RecordOwner, NewRecord DEF EndDownload, Owner
    <3>2. CASE FailDownload(c)
      <4> DEFINE q == [conn[c] EXCEPT !.download = FALSE]
                 r == RemoveConnection(c, q)
      <4>1. q \in Conn /\ q.user = conn[c].user
        BY <1>1, RecordTypes, RecordOwner
      <4>2. conn' = [conn EXCEPT ![c] = r]
        BY <3>2 DEF FailDownload
      <4> HIDE DEF q
      <4>3. r \in Conn /\ r.user = q.user
        BY <4>1, RecordTypes, RecordOwner
      <4> HIDE DEF r
      <4> QED BY <2>1, <4>1, <4>2, <4>3, NewRecord DEF Owner
    <3> QED BY <1>4, <3>1, <3>2
  <2> QED BY <1>2, <1>4, <2>2 DEF TypeInv, Typed, EndDownload, FailDownload, clientVars, itemVars
<1> QED BY <1>3, <1>4

LEMMA PutConnectionType ==
    ASSUME TypeInv, NEW c \in Conns, PutConnection(c)
    PROVE  /\ conn' \in [Conns -> Conn] /\ OwnerKnown'
           /\ userConnections' \in SUBSET Conns
<1>1. conn[c] \in Conn
  BY DEF TypeInv, Typed
<1>2. conn' \in [Conns -> Conn] /\ OwnerKnown'
  <2>1. CASE conn[c].listening
    <3>1. conn[c].user \in Users
      BY <2>1 DEF TypeInv, OwnerKnown, Owner
    <3> QED BY <1>1, <2>1, <3>1, RecordTypes, RecordOwner, NewRecord DEF PutConnection, Gone
  <2>2. CASE ~conn[c].listening
    BY <2>2, NoConnType, NewRecord DEF PutConnection, Gone
  <2> QED BY <2>1, <2>2
<1> QED BY <1>2 DEF TypeInv, Typed, PutConnection

LEMMA FailedType ==
    ASSUME TypeInv, NEW c \in Conns, NEW protocolError \in BOOLEAN, Failed(c, protocolError)
    PROVE  TypeInv'
<1>1. /\ conn' \in [Conns -> Conn] /\ OwnerKnown'
      /\ userConnections' \in SUBSET Conns
  BY PutConnectionType DEF Failed
<1>2. downloads' \in [Users -> CQI]
  <2>1. \A e \in -1..MaxErrors :
           [state |-> "WAITING", since |-> 0,
            errors |-> IF protocolError THEN -1 ELSE OneMoreError(e)] \in CQI
    BY TimerAssumption, Clock DEF CQI, OneMoreError, Never
  <2>2. \A u \in Users : downloads[u].errors \in -1..MaxErrors
    BY DEF TypeInv, Typed, CQI
  <2> QED BY <2>1, <2>2 DEF TypeInv, Typed, Failed
<1> QED BY <1>1, <1>2 DEF TypeInv, Typed, Failed, clientVars, queueVars

LEMMA TypeNext == TypeInv /\ [Next]_vars => TypeInv'
<1> SUFFICES ASSUME TypeInv, [Next]_vars PROVE TypeInv'
  OBVIOUS
<1>1. ASSUME NEW u \in Users, UserNext(u) PROVE TypeInv'
  BY <1>1, QueueType, DisconnectType DEF UserNext
<1>2. ASSUME NEW c \in Conns, HandshakeNext(c) PROVE TypeInv'
  BY <1>2, OpeningType, TimerType, AssociationType, NickType, UntrustedType, INFType, DirectionType
     DEF HandshakeNext
<1>3. ASSUME NEW c \in Conns, TransferNext(c) PROVE TypeInv'
  BY <1>3, DMAddType, ServiceType, EndType, TimerType, FailedType DEF TransferNext
<1>4. CASE Second \/ Shutdown
  BY <1>4, TimerType
<1>5. CASE UNCHANGED vars
  BY <1>5 DEF TypeInv, Typed, OwnerKnown, Owner, vars, clientVars, queueVars, itemVars, connVars
<1> QED BY <1>1, <1>2, <1>3, <1>4, <1>5 DEF Next

(* What ConnectionManager lists exists: an object comes into being before it *)
(* is listed and is taken off the list before it ends.                       *)
Existing(c) ==
    /\ c \in userConnections => /\ conn[c].state \notin {"FREE", "CHECKED"}
                                /\ conn[c].pc # "dmFailed"
    /\ conn[c].state \in {"FREE", "CHECKED"} => conn[c].pc = "events" /\ ~conn[c].listening
Existence == \A c \in Conns : Existing(c)

SameLife(d) == /\ conn'[d].state = conn[d].state /\ conn'[d].pc = conn[d].pc
               /\ conn'[d].listening = conn[d].listening
               /\ d \in userConnections' => d \in userConnections

LEMMA ExistenceOf ==
    ASSUME Existence, NEW c \in Conns, \A d \in Conns \ {c} : SameLife(d), Existing(c)'
    PROVE  Existence'
BY DEF Existence, Existing, SameLife

LEMMA QueuedExistence ==
    ASSUME TypeInv, Existence, UNCHANGED userConnections, NEW t,
           \A d \in Conns : conn'[d] = conn[d] \/ conn'[d] = Queue(d, t)
    PROVE  Existence'
BY QueueFields DEF Existence, Existing

LEMMA UserExistence ==
    ASSUME TypeInv, Existence, NEW u \in Users, UserNext(u)
    PROVE  Existence'
<1>1. CASE UNCHANGED connVars
  BY <1>1 DEF Existence, Existing, connVars
<1>2. CASE RemoveSource(u)
  BY <1>2, AfterRemovalType, QueuedExistence DEF RemoveSource
<1>3. CASE UserOffline(u)
  <2>1. \A d \in Conns : conn'[d] = conn[d] \/ conn'[d] = Queue(d, "DISCONNECT")
    BY <1>3 DEF UserOffline, DisconnectAll
  <2> QED BY <1>3, <2>1, QueuedExistence DEF UserOffline
<1>4. CASE GetDownloadConnection(u)
  <2>1. \A d \in Conns : conn'[d] = conn[d] \/ conn'[d] = Queue(d, "UPDATED")
    BY <1>4 DEF GetDownloadConnection, TypeInv, Typed
  <2> QED BY <1>4, <2>1, QueuedExistence DEF GetDownloadConnection
<1> QED
  BY <1>1, <1>2, <1>3, <1>4 DEF UserNext, QueueAdd, QueueResume, QueueDrop, QueueFreed, UserOnline,
     QueueUserConnected, ForceAttempt

LEMMA EndedExistence ==
    ASSUME TypeInv, Existence, NEW c \in Conns, PutConnection(c)
    PROVE  Existence'
<1>1. \A d \in Conns \ {c} : SameLife(d)
  BY DEF PutConnection, SameLife, TypeInv, Typed
<1>2. Existing(c)'
  BY DEF PutConnection, Gone, NoConn, Existence, Existing, TypeInv, Typed, Conn
<1> QED BY <1>1, <1>2, ExistenceOf

(* Only c's record changes, and c neither ends nor begins.                   *)
Going(c) ==
    /\ \A d \in Conns \ {c} : SameLife(d)
    /\ conn'[c].state \notin {"FREE", "CHECKED"} /\ conn'[c].pc # "dmFailed"
    /\ UNCHANGED userConnections

LEMMA GoingExistence ==
    ASSUME Existence, NEW c \in Conns, Going(c)
    PROVE  Existence'
<1>1. Existing(c)'
  BY DEF Existing, Going
<1> QED BY <1>1, ExistenceOf DEF Going

LEMMA HandshakeExistence ==
    ASSUME TypeInv, Existence, NEW c \in Conns, HandshakeNext(c)
    PROVE  Existence'
<1>0. conn \in [Conns -> Conn]
  BY DEF TypeInv, Typed
<1>1. CASE PutConnection(c)
  BY <1>1, EndedExistence
<1>2. CASE BadCommand(c)
  <2>1. \A d \in Conns : conn'[d] = conn[d] \/ conn'[d] = Queue(d, "DISCONNECT")
    BY <1>0, <1>2 DEF BadCommand
  <2> QED BY <1>2, <2>1, QueuedExistence DEF BadCommand
<1>3. CASE Accept(c) \/ ConnectCheck(c)
  <2>1. \A d \in Conns \ {c} : SameLife(d)
    BY <1>0, <1>3 DEF Accept, ConnectCheck, SameLife
  <2>2. Existing(c)'
    BY <1>0, <1>3 DEF Accept, ConnectCheck, Existence, Existing, NoConn
  <2> QED BY <2>1, <2>2, ExistenceOf
<1>4. CASE Connect(c) /\ ~PutConnection(c)
  <2>1. \A d \in Conns \ {c} : SameLife(d)
    BY <1>0, <1>4 DEF Connect, SameLife
  <2>2. Existing(c)'
    BY <1>0, <1>4 DEF Connect, Existing, Conn, Existence
  <2> QED BY <2>1, <2>2, ExistenceOf
<1>5. CASE Connected(c) \/ SUP(c) \/ CLock(c)
  <2>1. Going(c)
    BY <1>0, <1>5 DEF Connected, SUP, CLock, Ready, Going, SameLife, Conn, Existence, Existing
  <2> QED BY <2>1, GoingExistence
<1>6. CASE (Key(c) \/ AddConnection(c)) /\ ~PutConnection(c)
  <2>1. Going(c)
    BY <1>0, <1>6 DEF Key, AddConnection, AddDownloadConnection, AddUploadConnection, Ready, Going,
       SameLife, Conn, Existence, Existing
  <2> QED BY <2>1, GoingExistence
<1>7. ASSUME NEW u \in Users, MyNick(c, u), ~PutConnection(c) PROVE Existence'
  <2>1. Going(c)
    BY <1>0, <1>7 DEF MyNick, Ready, Going, SameLife, Conn, Existence, Existing
  <2> QED BY <2>1, GoingExistence
<1>8. ASSUME NEW u \in Users, NEW use, INF(c, u, use) PROVE Existence'
  <2>1. Going(c)
    BY <1>0, <1>8 DEF INF, Ready, Going, SameLife, Conn, Existence, Existing
  <2> QED BY <2>1, GoingExistence
<1>9. ASSUME NEW dir, NEW ours, Direction(c, dir, ours), ~PutConnection(c) PROVE Existence'
  <2>1. Going(c)
    BY <1>0, <1>9 DEF Direction, Ready, Going, SameLife, Conn, Existence, Existing
  <2> QED BY <2>1, GoingExistence
<1>10. ASSUME NEW u \in Users, UntrustedINF(c, u) PROVE Existence'
  <2> PICK new \in AfterRemoval(u) : conn' = [new EXCEPT ![c] = Gone(@)]
    BY <1>10 DEF UntrustedINF
  <2>1. \A d \in Conns \ {c} : conn'[d] = conn[d] \/ conn'[d] = Queue(d, "DISCONNECT")
    BY AfterRemovalType
  <2>2. \A d \in Conns \ {c} : SameLife(d)
    BY <1>10, <2>1, QueueFields DEF UntrustedINF, SameLife
  <2>3. Existing(c)'
    <3>1. conn[c].state \notin {"FREE", "CHECKED"} /\ c \notin userConnections'
      BY <1>10 DEF UntrustedINF, Ready
    <3>2. new \in [Conns -> Conn] /\ (new[c] = conn[c] \/ new[c] = Queue(c, "DISCONNECT"))
      BY AfterRemovalType
    <3>3. new[c].state = conn[c].state
      BY <3>2, QueueFields
    <3>4. conn'[c] = Gone(new[c])
      BY <1>10, <3>2
    <3> QED BY <3>1, <3>2, <3>3, <3>4 DEF Gone, NoConn, Existing, Conn
  <2> QED BY <2>2, <2>3, ExistenceOf
<1> QED
  BY <1>1, <1>2, <1>3, <1>4, <1>5, <1>6, <1>7, <1>8, <1>9, <1>10
     DEF HandshakeNext, UnexpectedNick, UnknownINF

LEMMA TaskTaken ==
    ASSUME NEW r \in Conn
    PROVE  /\ [r EXCEPT !.tasks = @ \ {"UPDATED"}].state = r.state
           /\ [r EXCEPT !.tasks = @ \ {"UPDATED"}].pc = r.pc
           /\ [r EXCEPT !.tasks = @ \ {"UPDATED"}, !.pc = "check"].state = r.state
           /\ [r EXCEPT !.tasks = @ \ {"UPDATED"}, !.pc = "check"].pc = "check"
BY DEF Conn

LEMMA TransferExistence ==
    ASSUME TypeInv, Existence, NEW c \in Conns, TransferNext(c)
    PROVE  Existence'
<1>0. conn \in [Conns -> Conn]
  BY DEF TypeInv, Typed
<1>1. ASSUME NEW protocolError, Failed(c, protocolError) PROVE Existence'
  BY <1>1, EndedExistence DEF Failed
<1>2. CASE Minute(c)
  <2>1. \A d \in Conns : conn'[d] = conn[d] \/ conn'[d] = Queue(d, "DISCONNECT")
    BY <1>0, <1>2 DEF Minute
  <2> QED BY <1>2, <2>1, QueuedExistence DEF Minute
<1>3. CASE DMFailed(c)
  <2>1. \A d \in Conns \ {c} : SameLife(d)
    BY <1>0, <1>3 DEF DMFailed, SameLife
  <2>2. Existing(c)'
    BY <1>0, <1>3 DEF DMFailed, Existence, Existing, NoConn
  <2> QED BY <2>1, <2>2, ExistenceOf
<1>4. ASSUME NEW r, conn' = [conn EXCEPT ![c] = r], UNCHANGED userConnections,
             r.state \notin {"FREE", "CHECKED"}, r.pc # "dmFailed"
      PROVE  Existence'
  <2>1. Going(c)
    BY <1>0, <1>4 DEF Going, SameLife
  <2> QED BY <2>1, GoingExistence
<1>6. CASE CheckDownloads(c) \/ Park(c) \/ Updated(c) \/ EndDownload(c)
  <2>1. conn[c] \in Conn /\ conn[c].state \notin {"FREE", "CHECKED"} /\ conn[c].pc # "dmFailed"
    BY <1>0, <1>6 DEF CheckDownloads, Park, Updated, EndDownload, Ready, Existence, Existing
  <2>2. UNCHANGED userConnections
    BY <1>6 DEF CheckDownloads, Park, Updated, EndDownload
  <2>3. CASE conn' = [conn EXCEPT ![c] = RemoveConnection(c, @)]
    <3> DEFINE r == RemoveConnection(c, conn[c])
    <3>1. r.state \notin {"FREE", "CHECKED"} /\ r.pc # "dmFailed"
      BY <2>1 DEF Conn, RemoveConnection
    <3>2. conn' = [conn EXCEPT ![c] = r]
      BY <2>3
    <3> HIDE DEF r
    <3> QED BY <1>4, <2>1, <2>2, <3>1, <3>2
  <2>4. CASE conn' = [conn EXCEPT ![c] = [@ EXCEPT !.download = TRUE, !.state = "SND", !.pc = "events"]]
    <3> DEFINE r == [conn[c] EXCEPT !.download = TRUE, !.state = "SND", !.pc = "events"]
    <3>1. r.state \notin {"FREE", "CHECKED"} /\ r.pc # "dmFailed"
      BY <2>1 DEF Conn
    <3>2. conn' = [conn EXCEPT ![c] = r]
      BY <2>4
    <3> HIDE DEF r
    <3> QED BY <1>4, <2>1, <2>2, <3>1, <3>2
  <2>5. CASE conn' = [conn EXCEPT ![c] = [@ EXCEPT !.pc = "park"]]
    <3> DEFINE r == [conn[c] EXCEPT !.pc = "park"]
    <3>1. r.state \notin {"FREE", "CHECKED"} /\ r.pc # "dmFailed"
      BY <2>1 DEF Conn
    <3>2. conn' = [conn EXCEPT ![c] = r]
      BY <2>5
    <3> HIDE DEF r
    <3> QED BY <1>4, <2>1, <2>2, <3>1, <3>2
  <2>6. CASE conn' = [conn EXCEPT ![c] = [@ EXCEPT !.state = "IDLE", !.pc = "events"]]
    <3> DEFINE r == [conn[c] EXCEPT !.state = "IDLE", !.pc = "events"]
    <3>1. r.state \notin {"FREE", "CHECKED"} /\ r.pc # "dmFailed"
      BY <2>1 DEF Conn
    <3>2. conn' = [conn EXCEPT ![c] = r]
      BY <2>6
    <3> HIDE DEF r
    <3> QED BY <1>4, <2>1, <2>2, <3>1, <3>2
  <2>7. CASE conn' = [conn EXCEPT ![c] = [conn[c] EXCEPT !.tasks = @ \ {"UPDATED"}, !.pc = "check"]]
    <3> DEFINE r == [conn[c] EXCEPT !.tasks = @ \ {"UPDATED"}, !.pc = "check"]
    <3>1. r.state = conn[c].state /\ r.pc = "check"
      BY <2>1, TaskTaken
    <3>2. conn' = [conn EXCEPT ![c] = r]
      BY <2>7
    <3> HIDE DEF r
    <3> QED BY <1>4, <2>1, <2>2, <3>1, <3>2
  <2>8. CASE conn' = [conn EXCEPT ![c] = [conn[c] EXCEPT !.tasks = @ \ {"UPDATED"}]]
    <3> DEFINE r == [conn[c] EXCEPT !.tasks = @ \ {"UPDATED"}]
    <3>1. r.state = conn[c].state /\ r.pc = conn[c].pc
      BY <2>1, TaskTaken
    <3>2. conn' = [conn EXCEPT ![c] = r]
      BY <2>8
    <3> HIDE DEF r
    <3> QED BY <1>4, <2>1, <2>2, <3>1, <3>2
  <2>9. CASE conn' = [conn EXCEPT ![c] = [@ EXCEPT !.download = FALSE, !.pc = "check"]]
    <3> DEFINE r == [conn[c] EXCEPT !.download = FALSE, !.pc = "check"]
    <3>1. r.state \notin {"FREE", "CHECKED"} /\ r.pc # "dmFailed"
      BY <2>1 DEF Conn
    <3>2. conn' = [conn EXCEPT ![c] = r]
      BY <2>9
    <3> HIDE DEF r
    <3> QED BY <1>4, <2>1, <2>2, <3>1, <3>2
  <2>10. CASE CheckDownloads(c)
    BY <2>3, <2>4, <2>5, <2>10 DEF CheckDownloads
  <2>11. CASE Updated(c)
    BY <2>7, <2>8, <2>11 DEF Updated
  <2> QED BY <1>6, <2>6, <2>9, <2>10, <2>11 DEF Park, EndDownload
<1>7. CASE FailDownload(c)
  <2>1. Going(c)
    BY <1>0, <1>7 DEF FailDownload, RemoveConnection, Ready, Going, SameLife, Conn, Existence,
       Existing
  <2> QED BY <2>1, GoingExistence
<1>5. CASE DMAddConnection(c)
  <2>1. CASE conn' = [conn EXCEPT ![c] = [@ EXCEPT !.listening = TRUE, !.pc = "check"]]
    <3>1. Going(c)
      BY <1>0, <1>5, <2>1 DEF DMAddConnection, Going, SameLife, Conn, Existence, Existing
    <3> QED BY <3>1, GoingExistence
  <2>2. ASSUME NEW new \in AfterRemoval(Owner(c)),
               conn' = [new EXCEPT ![c] = [new[c] EXCEPT !.tasks = @ \cup {"DISCONNECT"},
                                                        !.pc = "events"]]
        PROVE  Existence'
    <3>1. Owner(c) \in Users
      BY <1>5 DEF DMAddConnection, TypeInv, OwnerKnown
    <3>2. new \in [Conns -> Conn]
          /\ \A d \in Conns : new[d] = conn[d] \/ new[d] = Queue(d, "DISCONNECT")
      BY <2>2, <3>1, AfterRemovalType
    <3>3. \A d \in Conns \ {c} : SameLife(d)
      <4>1. \A d \in Conns \ {c} : conn'[d] = new[d]
        BY <2>2, <3>2
      <4>2. UNCHANGED userConnections
        BY <1>5 DEF DMAddConnection
      <4> QED BY <3>2, <4>1, <4>2, QueueFields DEF SameLife
    <3>4. conn'[c].state = conn[c].state /\ conn'[c].pc = "events"
      BY <2>2, <3>2, QueueFields DEF Conn
    <3>5. Going(c)
      BY <1>5, <3>3, <3>4 DEF DMAddConnection, Going, Existence, Existing
    <3> QED BY <3>5, GoingExistence
  <2> QED BY <1>5, <2>1, <2>2 DEF DMAddConnection
<1> QED BY <1>1, <1>2, <1>3, <1>4, <1>5, <1>6, <1>7 DEF TransferNext

LEMMA ExistenceNext == TypeInv /\ Existence /\ [Next]_vars => Existence'
<1> SUFFICES ASSUME TypeInv, Existence, [Next]_vars PROVE Existence'
  OBVIOUS
<1>1. CASE Second \/ UNCHANGED vars
  BY <1>1 DEF Second, Existence, Existing, vars, connVars
<1>2. CASE Shutdown
  <2>1. \A d \in Conns : conn'[d] = conn[d] \/ conn'[d] = Queue(d, "DISCONNECT")
    BY <1>2 DEF Shutdown
  <2> QED BY <1>2, <2>1, QueuedExistence DEF Shutdown
<1> QED BY <1>1, <1>2, UserExistence, HandshakeExistence, TransferExistence DEF Next

(* Whatever the users, the peers and the timer do, every variable keeps its  *)
(* type, and a connection that has ended, or is not created yet, is in       *)
(* nobody's list.                                                           *)
THEOREM TypeCorrect == Spec => []TypeOK
<1>1. Init => Existence
  BY DEF Init, Existence, Existing, NoConn
<1>2. TypeInv /\ Existence => TypeOK
  <2> SUFFICES ASSUME TypeInv, Existence PROVE TypeOK
    OBVIOUS
  <2>1. userConnections \in SUBSET Conns
    BY DEF TypeInv, Typed
  <2> QED BY <2>1 DEF TypeInv, Existence, Existing, TypeOK
<1> QED BY <1>1, <1>2, TypeInit, TypeNext, ExistenceNext, PTL DEF Spec

------------------------------------------------------------------------------
(* The inductive invariant.  ConnOK says how far a connection is from its    *)
(* fields alone: before the handshake is over nothing is associated, and     *)
(* only what is associated is ever given to DownloadManager.                 *)
Opening   == {"FREE", "CHECKED", "CONNECT", "SUPNICK"}
Bargain   == {"LOCK", "DIRECTION"}
HandedOver == {"dmAdd", "check", "park", "dmFailed"}

ConnOK(r) ==
    /\ r.state \in Opening => r.flags = {}
    /\ r.state \in Opening \cup Bargain =>
           "ASSOCIATED" \notin r.flags /\ r.pc = "events" /\ ~r.listening
    /\ r.pc \in {"addDown", "addUp"} => r.state = "INF" /\ "ASSOCIATED" \notin r.flags
    /\ r.pc = "addDown" => "DOWNLOAD" \in r.flags
    /\ r.pc = "addUp" => "DOWNLOAD" \notin r.flags
    /\ r.state = "INF" /\ r.pc = "events" /\ "ASSOCIATED" \notin r.flags => r.flags = {}
    /\ r.listening \/ r.pc \in HandedOver =>
           "ASSOCIATED" \in r.flags /\ "DOWNLOAD" \in r.flags

Listed(c) ==
    /\ c \in userConnections => /\ conn[c].state \notin {"FREE", "CHECKED"}
                                /\ conn[c].pc # "dmFailed"
    /\ conn[c].pc \in {"addDown", "addUp"} => c \in userConnections
    /\ "ASSOCIATED" \in conn[c].flags /\ conn[c].pc # "dmFailed" => c \in userConnections

HandshakeInv == \A c \in Conns : ConnOK(conn[c]) /\ Listed(c)

ItemInv == AssociatedHasItem /\ OneConnectionPerDirection /\ ActiveItemHasConnection

Inv == TypeInv /\ HandshakeInv /\ ItemInv

(* Nothing of d that the invariant looks at changes.                         *)
Same(d) ==
    /\ conn'[d].state = conn[d].state /\ conn'[d].flags = conn[d].flags
    /\ conn'[d].pc = conn[d].pc /\ conn'[d].listening = conn[d].listening
    /\ conn'[d].user = conn[d].user
    /\ (d \in userConnections') <=> (d \in userConnections)

SameItems ==
    /\ uploads' = uploads
    /\ \A u \in Users : (downloads'[u].state = "ACTIVE") <=> (downloads[u].state = "ACTIVE")

(* d is associated before and after the step, for the same purpose, or not    *)
(* associated before and after.                                              *)
SameRole(d) ==
    /\ Associated(d)' <=> Associated(d)
    /\ Associated(d) => /\ Owner(d)' = Owner(d)
                        /\ ("DOWNLOAD" \in conn'[d].flags) <=> ("DOWNLOAD" \in conn[d].flags)

LEMMA InitOK == Init => HandshakeInv /\ ItemInv
<1> SUFFICES ASSUME Init PROVE HandshakeInv /\ ItemInv
  OBVIOUS
<1>1. HandshakeInv
  BY DEF Init, HandshakeInv, ConnOK, Listed, NoConn, Opening, Bargain, HandedOver
<1>2. ItemInv
  BY DEF Init, ItemInv, AssociatedHasItem, OneConnectionPerDirection, ActiveItemHasConnection,
     DownloadOf, UploadOf, Associated, NoConn, NoCQI
<1> QED BY <1>1, <1>2

LEMMA NoConnOK == ConnOK(NoConn)
BY DEF ConnOK, NoConn, Opening, Bargain, HandedOver

LEMMA Steady ==
    ASSUME ItemInv, SameItems, \A d \in Conns : SameRole(d)
    PROVE  ItemInv'
<1>1. \A d \in Conns, u \in Users : /\ DownloadOf(d, u)' <=> DownloadOf(d, u)
                                    /\ UploadOf(d, u)' <=> UploadOf(d, u)
  BY DEF SameRole, DownloadOf, UploadOf, Owner, Associated
<1>2. AssociatedHasItem'
  BY <1>1 DEF ItemInv, AssociatedHasItem, SameItems
<1>3. OneConnectionPerDirection'
  BY <1>1 DEF ItemInv, OneConnectionPerDirection
<1>4. ActiveItemHasConnection'
  BY <1>1 DEF ItemInv, ActiveItemHasConnection, SameItems
<1> QED BY <1>2, <1>3, <1>4 DEF ItemInv

LEMMA SameIsSameRole == ASSUME NEW d, Same(d) PROVE SameRole(d)
BY DEF Same, SameRole, Associated, Owner

LEMMA OneChanged ==
    ASSUME HandshakeInv, NEW c \in Conns, \A d \in Conns \ {c} : Same(d),
           ConnOK(conn'[c]), Listed(c)'
    PROVE  HandshakeInv'
<1> SUFFICES ASSUME NEW d \in Conns PROVE ConnOK(conn'[d]) /\ Listed(d)'
  BY DEF HandshakeInv
<1>1. CASE d = c
  BY <1>1
<1>2. CASE d # c
  BY <1>2 DEF HandshakeInv, ConnOK, Listed, Same
<1> QED BY <1>1, <1>2

LEMMA Quiet ==
    ASSUME Inv, SameItems, \A d \in Conns : Same(d)
    PROVE  HandshakeInv' /\ ItemInv'
<1>1. HandshakeInv'
  BY DEF Inv, HandshakeInv, ConnOK, Listed, Same
<1>2. ItemInv'
  BY Steady, SameIsSameRole DEF Inv
<1> QED BY <1>1, <1>2

LEMMA Parted ==
    ASSUME Inv, NEW c \in Conns, SameItems, PutConnection(c), "ASSOCIATED" \notin conn[c].flags
    PROVE  HandshakeInv' /\ ItemInv'
<1>1. \A d \in Conns \ {c} : Same(d)
  BY DEF PutConnection, Same, Inv, TypeInv, Typed
<1>2. ~conn[c].listening
  BY DEF Inv, HandshakeInv, ConnOK
<1>3. conn'[c] = NoConn /\ c \notin userConnections'
  BY <1>2 DEF PutConnection, Gone, Inv, TypeInv, Typed
<1>4. SameRole(c)
  BY <1>3 DEF SameRole, Associated
<1> QED BY <1>1, <1>3, <1>4, NoConnOK, OneChanged, Steady, SameIsSameRole
   DEF Inv, Listed, NoConn

LEMMA QueueQuiet ==
    ASSUME TypeInv, NEW t, UNCHANGED userConnections,
           \A d \in Conns : conn'[d] = conn[d] \/ conn'[d] = Queue(d, t)
    PROVE  \A d \in Conns : Same(d)
BY QueueFields DEF Same

LEMMA RemovalQuiet ==
    ASSUME TypeInv, NEW u \in Users, conn' \in AfterRemoval(u), UNCHANGED userConnections
    PROVE  \A d \in Conns : Same(d)
BY AfterRemovalType, QueueQuiet

LEMMA UserQuiet ==
    ASSUME Inv, NEW u \in Users, UserNext(u)
    PROVE  HandshakeInv' /\ ItemInv'
<1>1. CASE QueueAdd(u) \/ QueueResume(u) \/ QueueDrop(u) \/ QueueFreed(u)
           \/ UserOnline(u) \/ QueueUserConnected(u)
  BY <1>1, Quiet DEF QueueAdd, QueueResume, QueueDrop, QueueFreed, UserOnline,
     QueueUserConnected, SameItems, Same, itemVars, connVars
<1>2. CASE RemoveSource(u)
  BY <1>2, Quiet, RemovalQuiet DEF Inv, RemoveSource, SameItems, itemVars
<1>3. CASE UserOffline(u)
  <2>1. \A d \in Conns : conn'[d] = conn[d] \/ conn'[d] = Queue(d, "DISCONNECT")
    BY <1>3 DEF UserOffline, DisconnectAll
  <2> QED BY <1>3, <2>1, Quiet, QueueQuiet DEF Inv, UserOffline, SameItems, itemVars
<1>4. CASE GetDownloadConnection(u)
  <2>1. \A d \in Conns : conn'[d] = conn[d] \/ conn'[d] = Queue(d, "UPDATED")
    BY <1>4 DEF GetDownloadConnection, Inv, TypeInv, Typed
  <2>2. SameItems
    BY <1>4 DEF GetDownloadConnection, SameItems, NoCQI, NewCQI, Inv, TypeInv, Typed
  <2> QED BY <1>4, <2>1, <2>2, Quiet, QueueQuiet DEF Inv, GetDownloadConnection
<1>5. CASE ForceAttempt(u)
  BY <1>5, Quiet DEF ForceAttempt, SameItems, Same, connVars, Inv, TypeInv, Typed, CQI
<1> QED BY <1>1, <1>2, <1>3, <1>4, <1>5 DEF UserNext

LEMMA TickedActive ==
    ASSUME TypeInv, NEW u \in Users, NEW pass, NEW slots
    PROVE  (Ticked(u, pass, slots).state = "ACTIVE") <=> (downloads[u].state = "ACTIVE")
<1> DEFINE q == [downloads[u] EXCEPT !.since = OneTickOlder(@)]
<1>0. downloads[u] \in CQI
  BY DEF TypeInv, Typed
<1>1. q.state = downloads[u].state
  BY <1>0 DEF CQI
<1>2. CASE downloads[u].state \in {"NONE", "ACTIVE"}
  BY <1>1, <1>2 DEF Ticked, Pending
<1>3. CASE downloads[u].state \notin {"NONE", "ACTIVE"}
  <2>1. Attempt(q, u \in slots).state # "ACTIVE"
    <3>1. AttemptState(q.state, u \in slots) # "ACTIVE"
      BY <1>1, <1>3 DEF AttemptState
    <3> QED BY <1>0, <3>1 DEF Attempt, CQI
  <2>2. [q EXCEPT !.errors = OneMoreError(@), !.state = "WAITING"].state # "ACTIVE"
    BY <1>0 DEF CQI
  <2>3. NoCQI.state # "ACTIVE"
    BY DEF NoCQI
  <2> QED BY <1>1, <1>3, <2>1, <2>2, <2>3 DEF Ticked, Pending
<1> QED BY <1>2, <1>3

LEMMA TimerQuiet ==
    ASSUME Inv, Second \/ Shutdown \/ \E c \in Conns : Minute(c) \/ BadCommand(c)
    PROVE  HandshakeInv' /\ ItemInv'
<1>1. CASE Second
  <2> PICK pass \in SUBSET Users, slots \in SUBSET Users :
         downloads' = [u \in Users |-> Ticked(u, pass, slots)]
    BY <1>1 DEF Second
  <2>1. SameItems
    BY <1>1, TickedActive DEF Second, SameItems, Inv
  <2> QED BY <1>1, <2>1, Quiet DEF Second, Same, connVars
<1>2. CASE Shutdown
  <2>1. \A d \in Conns : conn'[d] = conn[d] \/ conn'[d] = Queue(d, "DISCONNECT")
    BY <1>2 DEF Shutdown
  <2> QED BY <1>2, <2>1, Quiet, QueueQuiet DEF Inv, Shutdown, SameItems, itemVars
<1>3. ASSUME NEW c \in Conns, Minute(c) \/ BadCommand(c) PROVE HandshakeInv' /\ ItemInv'
  <2>1. \A d \in Conns : conn'[d] = conn[d] \/ conn'[d] = Queue(d, "DISCONNECT")
    BY <1>3 DEF Minute, BadCommand, Inv, TypeInv, Typed
  <2> QED BY <1>3, <2>1, Quiet, QueueQuiet DEF Inv, Minute, BadCommand, SameItems, itemVars
<1> QED BY <1>1, <1>2, <1>3

LEMMA OpeningOK ==
    ASSUME Inv, NEW c \in Conns,
           Accept(c) \/ ConnectCheck(c) \/ Connected(c) \/ SUP(c) \/ CLock(c)
    PROVE  HandshakeInv' /\ ItemInv'
<1>1. \A d \in Conns \ {c} : Same(d)
  BY DEF Accept, ConnectCheck, Connected, SUP, CLock, Same, Inv, TypeInv, Typed
<1>2. ConnOK(conn'[c]) /\ Listed(c)'
  BY DEF Accept, ConnectCheck, Connected, SUP, CLock, Inv, HandshakeInv, TypeInv, Typed, Conn,
     ConnOK, Listed, NoConn, Opening, Bargain, HandedOver, Ready
<1>3. SameRole(c)
  BY DEF Accept, ConnectCheck, Connected, SUP, CLock, Inv, HandshakeInv, TypeInv, Typed, Conn,
     ConnOK, NoConn, Opening, Bargain, SameRole, Associated, Owner
<1>4. SameItems
  BY DEF Accept, ConnectCheck, Connected, SUP, CLock, SameItems, itemVars
<1> QED BY <1>1, <1>2, <1>3, <1>4, OneChanged, Steady, SameIsSameRole DEF Inv

LEMMA ConnectOK ==
    ASSUME Inv, NEW c \in Conns, Connect(c)
    PROVE  HandshakeInv' /\ ItemInv'
<1>1. SameItems
  BY DEF Connect, SameItems, itemVars
<1>2. "ASSOCIATED" \notin conn[c].flags
  BY DEF Connect, Inv, HandshakeInv, ConnOK, Opening
<1>3. CASE PutConnection(c)
  BY <1>1, <1>2, <1>3, Parted
<1>4. CASE userConnections' = userConnections \cup {c} /\ conn' = [conn EXCEPT ![c].state = "CONNECT"]
  <2>1. \A d \in Conns \ {c} : Same(d)
    BY <1>4 DEF Same, Inv, TypeInv, Typed
  <2>2. ConnOK(conn'[c]) /\ Listed(c)'
    BY <1>4 DEF Connect, Inv, HandshakeInv, TypeInv, Typed, Conn, ConnOK, Listed,
       Opening, Bargain, HandedOver
  <2>3. SameRole(c)
    BY <1>2, <1>4 DEF Inv, TypeInv, Typed, Conn, SameRole, Associated
  <2> QED BY <1>1, <2>1, <2>2, <2>3, OneChanged, Steady, SameIsSameRole DEF Inv
<1> QED BY <1>3, <1>4 DEF Connect

LEMMA TurnedAwayOK ==
    ASSUME Inv, NEW c \in Conns, "repeat" \notin Env, UnexpectedNick(c) \/ UnknownINF(c)
    PROVE  HandshakeInv' /\ ItemInv'
<1>1. "ASSOCIATED" \notin conn[c].flags
  BY DEF UnexpectedNick, UnknownINF, FirstTime, Inv, HandshakeInv, ConnOK, Opening
<1> QED BY <1>1, Parted DEF UnexpectedNick, UnknownINF, SameItems, itemVars

LEMMA NickOK ==
    ASSUME Inv, NEW c \in Conns, NEW u \in Users, MyNick(c, u)
    PROVE  HandshakeInv' /\ ItemInv'
<1>1. SameItems
  BY DEF MyNick, NickErrors, SameItems, Inv, TypeInv, Typed, CQI
<1>2. conn[c].state = "SUPNICK" /\ conn[c].flags = {} /\ conn[c].pc = "events"
      /\ ~conn[c].listening
  BY DEF MyNick, Inv, HandshakeInv, ConnOK, Opening
<1>3. CASE PutConnection(c)
  BY <1>1, <1>2, <1>3, Parted
<1>4. CASE ~PutConnection(c)
  <2> PICK use \in {"DOWNLOAD", "UPLOAD"} :
         /\ conn' = [conn EXCEPT ![c].user = u, ![c].state = "LOCK", ![c].flags = @ \cup {use}]
         /\ UNCHANGED userConnections
    BY <1>4 DEF MyNick
  <2>1. \A d \in Conns \ {c} : Same(d)
    BY DEF Same, Inv, TypeInv, Typed
  <2>2. conn'[c].state = "LOCK" /\ conn'[c].flags = {use} /\ conn'[c].pc = "events"
        /\ ~conn'[c].listening
    BY <1>2 DEF Inv, TypeInv, Typed, Conn
  <2>3. ConnOK(conn'[c]) /\ Listed(c)'
    BY <2>2 DEF ConnOK, Listed, Opening, Bargain, HandedOver
  <2>4. SameRole(c)
    BY <1>2, <2>2 DEF SameRole, Associated
  <2> QED BY <1>1, <2>1, <2>3, <2>4, OneChanged, Steady, SameIsSameRole DEF Inv
<1> QED BY <1>3, <1>4

LEMMA DirectionOK ==
    ASSUME Inv, NEW c \in Conns, NEW dir \in {"Upload", "Download"},
           NEW ours \in {"lower", "equal", "higher"}, Direction(c, dir, ours)
    PROVE  HandshakeInv' /\ ItemInv'
<1>1. SameItems
  BY DEF Direction, SameItems, itemVars
<1>2. "ASSOCIATED" \notin conn[c].flags /\ conn[c].pc = "events" /\ ~conn[c].listening
  BY DEF Direction, Inv, HandshakeInv, ConnOK, Bargain
<1>3. CASE PutConnection(c)
  BY <1>1, <1>2, <1>3, Parted
<1>4. CASE ~PutConnection(c)
  <2> PICK flags \in {conn[c].flags, (conn[c].flags \ {"DOWNLOAD"}) \cup {"UPLOAD"}} :
         /\ conn' = [conn EXCEPT ![c].state = "KEY", ![c].flags = flags]
         /\ UNCHANGED userConnections
    BY <1>4 DEF Direction
  <2>1. \A d \in Conns \ {c} : Same(d)
    BY DEF Same, Inv, TypeInv, Typed
  <2>2. conn'[c].state = "KEY" /\ conn'[c].flags = flags /\ conn'[c].pc = "events"
        /\ ~conn'[c].listening /\ "ASSOCIATED" \notin flags
    BY <1>2 DEF Inv, TypeInv, Typed, Conn
  <2>3. ConnOK(conn'[c]) /\ Listed(c)'
    BY <2>2 DEF ConnOK, Listed, Opening, Bargain, HandedOver
  <2>4. SameRole(c)
    BY <1>2, <2>2 DEF SameRole, Associated
  <2> QED BY <1>1, <2>1, <2>3, <2>4, OneChanged, Steady, SameIsSameRole DEF Inv
<1> QED BY <1>3, <1>4

LEMMA INFOK ==
    ASSUME Inv, "repeat" \notin Env, NEW c \in Conns, NEW u \in Users,
           NEW use \in {"DOWNLOAD", "UPLOAD"}, INF(c, u, use)
    PROVE  HandshakeInv' /\ ItemInv'
<1>1. SameItems
  BY DEF INF, SameItems, Inv, TypeInv, Typed, CQI
<1>2. "ASSOCIATED" \notin conn[c].flags /\ conn[c].state = "INF" /\ conn[c].flags = {}
      /\ ~conn[c].listening /\ c \in userConnections /\ UNCHANGED userConnections
  BY DEF INF, FirstTime, Ready, Inv, HandshakeInv, ConnOK
<1>3. \A d \in Conns \ {c} : Same(d)
  BY DEF INF, Same, Inv, TypeInv, Typed
<1>4. conn'[c].state = "INF" /\ conn'[c].flags = {use} /\ ~conn'[c].listening
      /\ conn'[c].pc = IF use = "DOWNLOAD" THEN "addDown" ELSE "addUp"
  BY <1>2 DEF INF, Inv, TypeInv, Typed, Conn
<1>5. ConnOK(conn'[c]) /\ Listed(c)'
  BY <1>2, <1>4 DEF ConnOK, Listed, Opening, Bargain, HandedOver
<1>6. SameRole(c)
  BY <1>2, <1>4 DEF SameRole, Associated
<1> QED BY <1>1, <1>3, <1>5, <1>6, OneChanged, Steady, SameIsSameRole DEF Inv

LEMMA UntrustedOK ==
    ASSUME Inv, "repeat" \notin Env, NEW c \in Conns, NEW u \in Users, UntrustedINF(c, u)
    PROVE  HandshakeInv' /\ ItemInv'
<1>1. SameItems
  BY DEF UntrustedINF, SameItems, itemVars
<1>2. "ASSOCIATED" \notin conn[c].flags /\ ~conn[c].listening
  BY DEF UntrustedINF, FirstTime, Inv, HandshakeInv, ConnOK
<1> PICK new \in AfterRemoval(u) : conn' = [new EXCEPT ![c] = Gone(@)]
  BY DEF UntrustedINF
<1>3. new \in [Conns -> Conn]
      /\ \A d \in Conns : new[d] = conn[d] \/ new[d] = Queue(d, "DISCONNECT")
  BY AfterRemovalType DEF Inv
<1>4. \A d \in Conns \ {c} : Same(d)
  BY <1>3, QueueFields DEF Same, Inv, UntrustedINF
<1>5. conn'[c] = NoConn /\ c \notin userConnections'
  BY <1>2, <1>3, QueueFields DEF Gone, UntrustedINF, Inv
<1>6. SameRole(c)
  BY <1>2, <1>5 DEF SameRole, Associated
<1> QED BY <1>1, <1>4, <1>5, <1>6, NoConnOK, OneChanged, Steady, SameIsSameRole
   DEF Inv, Listed, NoConn

LEMMA AddDownloadOK ==
    ASSUME Inv, NEW c \in Conns, c \in userConnections, AddDownloadConnection(c),
           "ASSOCIATED" \notin conn[c].flags, "DOWNLOAD" \in conn[c].flags,
           conn[c].state \notin Opening \cup Bargain, Owner(c) \in Users
    PROVE  HandshakeInv' /\ ItemInv'
<1> DEFINE u == Owner(c)
<1>1. CASE ~Expecting(u)
  BY <1>1, Parted DEF AddDownloadConnection, SameItems
<1>2. CASE Expecting(u)
  <2>1. /\ conn' = [conn EXCEPT ![c].flags = @ \cup {"ASSOCIATED"}, ![c].pc = "dmAdd"]
        /\ downloads' = [downloads EXCEPT ![u].state = "ACTIVE"]
        /\ UNCHANGED <<userConnections, uploads>>
    BY <1>2 DEF AddDownloadConnection
  <2>2. \A d \in Conns \ {c} : Same(d)
    BY <2>1 DEF Same, Inv, TypeInv, Typed
  <2>3. /\ conn'[c].flags = conn[c].flags \cup {"ASSOCIATED"} /\ conn'[c].pc = "dmAdd"
        /\ conn'[c].state = conn[c].state /\ conn'[c].user = u
    BY <2>1 DEF Inv, TypeInv, Typed, Conn, Owner
  <2>4. ConnOK(conn'[c]) /\ Listed(c)'
    BY <2>1, <2>3 DEF ConnOK, Listed, HandedOver, Inv, HandshakeInv
  <2>5. HandshakeInv'
    BY <2>2, <2>4, OneChanged DEF Inv
  <2>6. \A v \in Users : downloads'[v].state = IF v = u THEN "ACTIVE" ELSE downloads[v].state
    BY <2>1 DEF Inv, TypeInv, Typed, CQI
  <2>7. downloads[u].state # "ACTIVE"
    BY <1>2 DEF Expecting
  <2>8. \A d \in Conns, v \in Users :
           /\ UploadOf(d, v)' <=> UploadOf(d, v)
           /\ DownloadOf(d, v)' <=> DownloadOf(d, v) \/ (d = c /\ v = u)
    <3>1. ASSUME NEW d \in Conns \ {c}, NEW v \in Users
          PROVE  /\ UploadOf(d, v)' <=> UploadOf(d, v)
                 /\ DownloadOf(d, v)' <=> DownloadOf(d, v)
      BY <2>2 DEF Same, UploadOf, DownloadOf, Associated, Owner
    <3>2. ASSUME NEW v \in Users
          PROVE  /\ ~UploadOf(c, v)' /\ ~UploadOf(c, v) /\ ~DownloadOf(c, v)
                 /\ DownloadOf(c, v)' <=> v = u
      BY <2>1, <2>3 DEF UploadOf, DownloadOf, Associated, Owner
    <3> QED BY <3>1, <3>2
  <2>9. \A d \in Conns : ~DownloadOf(d, u)
    BY <2>7 DEF Inv, ItemInv, AssociatedHasItem
  <2>10. AssociatedHasItem'
    BY <2>1, <2>6, <2>8 DEF Inv, ItemInv, AssociatedHasItem
  <2>11. OneConnectionPerDirection'
    BY <2>8, <2>9 DEF Inv, ItemInv, OneConnectionPerDirection
  <2>12. ActiveItemHasConnection'
    BY <2>1, <2>6, <2>8 DEF Inv, ItemInv, ActiveItemHasConnection
  <2> QED BY <2>5, <2>10, <2>11, <2>12 DEF ItemInv
<1> QED BY <1>1, <1>2

LEMMA AddUploadOK ==
    ASSUME Inv, NEW c \in Conns, c \in userConnections, AddUploadConnection(c),
           "ASSOCIATED" \notin conn[c].flags, "DOWNLOAD" \notin conn[c].flags,
           conn[c].state \notin Opening \cup Bargain, Owner(c) \in Users
    PROVE  HandshakeInv' /\ ItemInv'
<1> DEFINE u == Owner(c)
<1>1. CASE u \in uploads
  BY <1>1, Parted DEF AddUploadConnection, SameItems
<1>2. CASE u \notin uploads
  <2>1. /\ conn' = [conn EXCEPT ![c].flags = @ \cup {"ASSOCIATED"}, ![c].pc = "events",
                                ![c].state = "GET"]
        /\ uploads' = uploads \cup {u}
        /\ UNCHANGED <<userConnections, downloads>>
    BY <1>2 DEF AddUploadConnection
  <2>2. \A d \in Conns \ {c} : Same(d)
    BY <2>1 DEF Same, Inv, TypeInv, Typed
  <2>3. /\ conn'[c].flags = conn[c].flags \cup {"ASSOCIATED"} /\ conn'[c].pc = "events"
        /\ conn'[c].state = "GET" /\ conn'[c].user = u
        /\ conn'[c].listening = conn[c].listening
    BY <2>1 DEF Inv, TypeInv, Typed, Conn, Owner
  <2>4. ConnOK(conn'[c]) /\ Listed(c)'
    <3>1. ~conn[c].listening
      BY DEF Inv, HandshakeInv, ConnOK
    <3> QED BY <2>1, <2>3, <3>1 DEF ConnOK, Listed, Opening, Bargain, HandedOver
  <2>5. HandshakeInv'
    BY <2>2, <2>4, OneChanged DEF Inv
  <2>6. \A d \in Conns, v \in Users :
           /\ DownloadOf(d, v)' <=> DownloadOf(d, v)
           /\ UploadOf(d, v)' <=> UploadOf(d, v) \/ (d = c /\ v = u)
    <3>1. ASSUME NEW d \in Conns \ {c}, NEW v \in Users
          PROVE  /\ UploadOf(d, v)' <=> UploadOf(d, v)
                 /\ DownloadOf(d, v)' <=> DownloadOf(d, v)
      BY <2>2 DEF Same, UploadOf, DownloadOf, Associated, Owner
    <3>2. ASSUME NEW v \in Users
          PROVE  /\ ~DownloadOf(c, v)' /\ ~UploadOf(c, v) /\ ~DownloadOf(c, v)
                 /\ UploadOf(c, v)' <=> v = u
      BY <2>1, <2>3 DEF UploadOf, DownloadOf, Associated, Owner
    <3> QED BY <3>1, <3>2
  <2>7. \A d \in Conns : ~UploadOf(d, u)
    BY <1>2 DEF Inv, ItemInv, AssociatedHasItem
  <2>8. AssociatedHasItem'
    BY <2>1, <2>6 DEF Inv, ItemInv, AssociatedHasItem
  <2>9. OneConnectionPerDirection'
    BY <2>6, <2>7 DEF Inv, ItemInv, OneConnectionPerDirection
  <2>10. ActiveItemHasConnection'
    BY <2>1, <2>6 DEF Inv, ItemInv, ActiveItemHasConnection
  <2> QED BY <2>5, <2>8, <2>9, <2>10 DEF ItemInv
<1> QED BY <1>1, <1>2

LEMMA AssociationOK ==
    ASSUME Inv, "repeat" \notin Env, NEW c \in Conns, Key(c) \/ AddConnection(c)
    PROVE  HandshakeInv' /\ ItemInv'
<1>1. Owner(c) \in Users
  BY DEF Inv, TypeInv, OwnerKnown, Key, AddConnection
<1>2. "ASSOCIATED" \notin conn[c].flags /\ conn[c].state \notin Opening \cup Bargain
  BY DEF Key, AddConnection, FirstTime, Inv, HandshakeInv, ConnOK, Opening, Bargain
<1>3. c \in userConnections
  BY DEF Key, AddConnection, Ready, Inv, HandshakeInv, Listed
<1>4. \/ AddDownloadConnection(c) /\ "DOWNLOAD" \in conn[c].flags
      \/ AddUploadConnection(c) /\ "DOWNLOAD" \notin conn[c].flags
  BY DEF Key, AddConnection, Inv, HandshakeInv, ConnOK
<1> QED BY <1>1, <1>2, <1>3, <1>4, AddDownloadOK, AddUploadOK

(* What the records that the download steps write keep of the connection.     *)
SameButPc(new, r, pcs) ==
    /\ new.user = r.user /\ new.flags = r.flags /\ new.state = r.state
    /\ new.pc \in pcs /\ (new.listening => r.listening)

LEMMA RecordRole ==
    ASSUME NEW r \in Conn, NEW c
    PROVE  /\ SameButPc(RemoveConnection(c, r), r, {"events"})
           /\ SameButPc(RemoveConnection(c, [r EXCEPT !.download = FALSE]), r, {"events"})
           /\ SameButPc([r EXCEPT !.download = FALSE, !.pc = "check"], r, {"check"})
           /\ SameButPc([r EXCEPT !.tasks = @ \ {"UPDATED"}, !.pc = "check"], r, {"check"})
           /\ SameButPc([r EXCEPT !.tasks = @ \cup {"DISCONNECT"}, !.pc = "events"], r, {"events"})
           /\ SameButPc([r EXCEPT !.pc = "park"], r, {"park"})
           /\ LET new == [r EXCEPT !.download = TRUE, !.state = "SND", !.pc = "events"]
              IN  /\ new.user = r.user /\ new.flags = r.flags /\ new.state = "SND"
                  /\ new.pc = "events" /\ new.listening = r.listening
           /\ LET new == [r EXCEPT !.state = "IDLE", !.pc = "events"]
              IN  /\ new.user = r.user /\ new.flags = r.flags /\ new.state = "IDLE"
                  /\ new.pc = "events" /\ new.listening = r.listening
<1> USE DEF Conn, SameButPc
<1>1. SameButPc(RemoveConnection(c, r), r, {"events"})
  BY DEF RemoveConnection
<1>2. SameButPc(RemoveConnection(c, [r EXCEPT !.download = FALSE]), r, {"events"})
  BY DEF RemoveConnection
<1>3. SameButPc([r EXCEPT !.download = FALSE, !.pc = "check"], r, {"check"})
  BY DEF RemoveConnection
<1>4. SameButPc([r EXCEPT !.tasks = @ \ {"UPDATED"}, !.pc = "check"], r, {"check"})
  BY DEF RemoveConnection
<1>5. SameButPc([r EXCEPT !.tasks = @ \cup {"DISCONNECT"}, !.pc = "events"], r, {"events"})
  BY DEF RemoveConnection
<1>6. SameButPc([r EXCEPT !.pc = "park"], r, {"park"})
  BY DEF RemoveConnection
<1>7. LET new == [r EXCEPT !.download = TRUE, !.state = "SND", !.pc = "events"]
      IN  /\ new.user = r.user /\ new.flags = r.flags /\ new.state = "SND"
          /\ new.pc = "events" /\ new.listening = r.listening
  OBVIOUS
<1>8. LET new == [r EXCEPT !.state = "IDLE", !.pc = "events"]
      IN  /\ new.user = r.user /\ new.flags = r.flags /\ new.state = "IDLE"
          /\ new.pc = "events" /\ new.listening = r.listening
  OBVIOUS
<1> HIDE DEF Conn, SameButPc
<1> QED BY <1>1, <1>2, <1>3, <1>4, <1>5, <1>6, <1>7, <1>8

LEMMA DMAddOK ==
    ASSUME Inv, NEW c \in Conns, DMAddConnection(c)
    PROVE  HandshakeInv' /\ ItemInv'
<1>1. SameItems
  BY DEF DMAddConnection, SameItems, itemVars
<1>2. "ASSOCIATED" \in conn[c].flags /\ conn[c].state \notin Opening \cup Bargain
  BY DEF DMAddConnection, Inv, HandshakeInv, ConnOK, HandedOver
<1>3. /\ \A d \in Conns \ {c} : Same(d)
      /\ conn'[c].flags = conn[c].flags /\ conn'[c].state = conn[c].state
      /\ conn'[c].user = conn[c].user /\ conn'[c].pc \in {"events", "check"}
  <2>1. CASE conn' = [conn EXCEPT ![c] = [@ EXCEPT !.listening = TRUE, !.pc = "check"]]
    <3> DEFINE r == [conn[c] EXCEPT !.listening = TRUE, !.pc = "check"]
    <3>1. conn[c] \in Conn /\ conn \in [Conns -> Conn]
      BY DEF Inv, TypeInv, Typed
    <3>2. /\ r.flags = conn[c].flags /\ r.state = conn[c].state
          /\ r.user = conn[c].user /\ r.pc = "check"
      BY <3>1 DEF Conn
    <3>3. conn'[c] = r /\ \A d \in Conns \ {c} : conn'[d] = conn[d]
      BY <2>1, <3>1
    <3>4. userConnections' = userConnections
      BY DEF DMAddConnection
    <3> HIDE DEF r
    <3> QED BY <3>2, <3>3, <3>4 DEF Same
  <2>2. CASE \E new \in AfterRemoval(Owner(c)) :
                conn' = [new EXCEPT ![c] = [new[c] EXCEPT !.tasks = @ \cup {"DISCONNECT"},
                                                          !.pc = "events"]]
    <3> PICK new \in AfterRemoval(Owner(c)) :
           conn' = [new EXCEPT ![c] = [new[c] EXCEPT !.tasks = @ \cup {"DISCONNECT"},
                                                     !.pc = "events"]]
      BY <2>2
    <3>1. Owner(c) \in Users
      BY DEF Inv, TypeInv, OwnerKnown, DMAddConnection
    <3>2. new \in [Conns -> Conn]
          /\ \A d \in Conns : new[d] = conn[d] \/ new[d] = Queue(d, "DISCONNECT")
      BY <3>1, AfterRemovalType DEF Inv
    <3>3. ASSUME NEW d \in Conns \ {c} PROVE Same(d)
      <4>1. conn'[d] = new[d] /\ userConnections' = userConnections
        BY <3>2 DEF DMAddConnection
      <4>2. \/ conn'[d] = conn[d]
            \/ conn'[d] = Queue(d, "DISCONNECT")
        BY <3>2, <4>1
      <4> QED BY <4>1, <4>2, QueueFields DEF Same, Inv
    <3>4. /\ new[c].flags = conn[c].flags /\ new[c].state = conn[c].state
          /\ new[c].user = conn[c].user
      BY <3>2, QueueFields DEF Inv
    <3>5. /\ conn'[c].flags = new[c].flags /\ conn'[c].state = new[c].state
          /\ conn'[c].user = new[c].user /\ conn'[c].pc = "events"
      <4>1. /\ new[c] \in Conn
            /\ conn'[c] = [new[c] EXCEPT !.tasks = @ \cup {"DISCONNECT"}, !.pc = "events"]
        BY <3>2
      <4>2. PICK r \in Conn : r = new[c]
        BY <4>1
      <4>3. conn'[c] = [r EXCEPT !.tasks = @ \cup {"DISCONNECT"}, !.pc = "events"]
        BY <4>1, <4>2
      <4>4. /\ conn'[c].flags = r.flags /\ conn'[c].state = r.state
            /\ conn'[c].user = r.user /\ conn'[c].pc = "events"
        <5>1. SameButPc([r EXCEPT !.tasks = @ \cup {"DISCONNECT"}, !.pc = "events"], r, {"events"})
          BY RecordRole
        <5>2. SameButPc(conn'[c], r, {"events"})
          BY <4>3, <5>1
        <5> QED BY <5>2 DEF SameButPc
      <4> QED BY <4>2, <4>4
    <3> QED BY <3>3, <3>4, <3>5
  <2> QED BY <2>1, <2>2 DEF DMAddConnection
<1>4. ConnOK(conn'[c]) /\ Listed(c)'
  BY <1>2, <1>3 DEF ConnOK, Listed, HandedOver, Inv, HandshakeInv, DMAddConnection
<1>5. SameRole(c)
  BY <1>3 DEF SameRole, Associated, Owner, DMAddConnection
<1> QED BY <1>1, <1>3, <1>4, <1>5, OneChanged, Steady, SameIsSameRole DEF Inv

LEMMA ServiceOK ==
    ASSUME Inv, NEW c \in Conns, CheckDownloads(c) \/ Park(c) \/ Updated(c)
    PROVE  HandshakeInv' /\ ItemInv'
<1>1. SameItems /\ UNCHANGED userConnections
  BY DEF CheckDownloads, Park, Updated, SameItems, itemVars
<1>2. conn[c] \in Conn /\ conn \in [Conns -> Conn]
  BY DEF Inv, TypeInv, Typed
<1>3. \A d \in Conns \ {c} : Same(d)
  BY <1>1, <1>2 DEF CheckDownloads, Park, Updated, Same
<1>4. /\ conn'[c].flags = conn[c].flags /\ conn'[c].user = conn[c].user
      /\ conn'[c].state \in {conn[c].state, "SND", "IDLE"}
      /\ \/ conn'[c].pc = conn[c].pc /\ conn'[c].state = conn[c].state
         \/ /\ conn'[c].pc \in {"events", "check", "park"} /\ conn[c].pc # "dmFailed"
            /\ "ASSOCIATED" \in conn[c].flags /\ "DOWNLOAD" \in conn[c].flags
      /\ conn'[c].listening => conn[c].listening
  <2>1. CASE CheckDownloads(c) \/ Park(c)
    <3>1. /\ "ASSOCIATED" \in conn[c].flags /\ "DOWNLOAD" \in conn[c].flags
          /\ conn[c].pc # "dmFailed"
      BY <2>1 DEF CheckDownloads, Park, Inv, HandshakeInv, ConnOK, HandedOver
    <3>2. \/ conn'[c] = RemoveConnection(c, conn[c])
          \/ conn'[c] = [conn[c] EXCEPT !.pc = "park"]
          \/ conn'[c] = [conn[c] EXCEPT !.download = TRUE, !.state = "SND", !.pc = "events"]
          \/ conn'[c] = [conn[c] EXCEPT !.state = "IDLE", !.pc = "events"]
      BY <1>2, <2>1 DEF CheckDownloads, Park
    <3>3. CASE conn'[c] = RemoveConnection(c, conn[c])
      <4>1. SameButPc(RemoveConnection(c, conn[c]), conn[c], {"events"})
        BY <1>2, RecordRole
      <4> QED BY <3>1, <3>3, <4>1 DEF SameButPc
    <3>4. CASE conn'[c] = [conn[c] EXCEPT !.pc = "park"]
      BY <1>2, <3>1, <3>4 DEF Conn
    <3>5. CASE conn'[c] = [conn[c] EXCEPT !.download = TRUE, !.state = "SND", !.pc = "events"]
      BY <1>2, <3>1, <3>5 DEF Conn
    <3>6. CASE conn'[c] = [conn[c] EXCEPT !.state = "IDLE", !.pc = "events"]
      BY <1>2, <3>1, <3>6 DEF Conn
    <3> QED BY <3>2, <3>3, <3>4, <3>5, <3>6
  <2>2. CASE Updated(c) /\ Idler(c)
    <3>1. /\ "ASSOCIATED" \in conn[c].flags /\ "DOWNLOAD" \in conn[c].flags
          /\ conn[c].pc # "dmFailed"
      BY <2>2 DEF Idler, Ready, Inv, HandshakeInv, ConnOK
    <3>2. conn'[c] = [conn[c] EXCEPT !.tasks = @ \ {"UPDATED"}, !.pc = "check"]
      BY <1>2, <2>2 DEF Updated
    <3> QED BY <1>2, <3>1, <3>2, RecordRole DEF SameButPc
  <2>3. CASE Updated(c) /\ ~Idler(c)
    BY <1>2, <2>3 DEF Updated, Conn
  <2> QED BY <2>1, <2>2, <2>3
<1>5. ConnOK(conn'[c]) /\ Listed(c)'
  BY <1>1, <1>4 DEF ConnOK, Listed, Opening, Bargain, HandedOver, Inv, HandshakeInv
<1>6. SameRole(c)
  BY <1>1, <1>4 DEF SameRole, Associated, Owner
<1> QED BY <1>1, <1>3, <1>5, <1>6, OneChanged, Steady, SameIsSameRole DEF Inv

LEMMA EndOK ==
    ASSUME Inv, NEW c \in Conns, EndDownload(c) \/ FailDownload(c)
    PROVE  HandshakeInv' /\ ItemInv'
<1>1. SameItems /\ UNCHANGED userConnections
  BY DEF EndDownload, FailDownload, SameItems, itemVars
<1>2. conn[c] \in Conn /\ conn \in [Conns -> Conn]
  BY DEF Inv, TypeInv, Typed
<1>3. \A d \in Conns \ {c} : Same(d)
  BY <1>1, <1>2 DEF EndDownload, FailDownload, Same
<1>4. /\ "ASSOCIATED" \in conn[c].flags /\ "DOWNLOAD" \in conn[c].flags
      /\ c \in userConnections /\ conn[c].state \notin Opening \cup Bargain
  BY DEF EndDownload, FailDownload, Ready, Inv, HandshakeInv, ConnOK
<1>5. /\ conn'[c].flags = conn[c].flags /\ conn'[c].user = conn[c].user
      /\ conn'[c].state = conn[c].state /\ conn'[c].pc \in {"events", "check"}
  <2>1. \/ conn'[c] = RemoveConnection(c, [conn[c] EXCEPT !.download = FALSE])
        \/ conn'[c] = [conn[c] EXCEPT !.download = FALSE, !.pc = "check"]
    BY <1>2 DEF EndDownload, FailDownload
  <2>2. CASE conn'[c] = RemoveConnection(c, [conn[c] EXCEPT !.download = FALSE])
    BY <1>2, <2>2, RecordRole DEF SameButPc
  <2>3. CASE conn'[c] = [conn[c] EXCEPT !.download = FALSE, !.pc = "check"]
    BY <1>2, <2>3, RecordRole DEF SameButPc
  <2> QED BY <2>1, <2>2, <2>3
<1>6. ConnOK(conn'[c]) /\ Listed(c)'
  BY <1>1, <1>4, <1>5 DEF ConnOK, Listed, HandedOver, Inv, HandshakeInv
<1>7. SameRole(c)
  BY <1>1, <1>5 DEF SameRole, Associated, Owner
<1> QED BY <1>1, <1>3, <1>6, <1>7, OneChanged, Steady, SameIsSameRole DEF Inv

LEMMA DMFailedOK ==
    ASSUME Inv, NEW c \in Conns, DMFailed(c)
    PROVE  HandshakeInv' /\ ItemInv'
<1>1. SameItems /\ UNCHANGED userConnections
  BY DEF DMFailed, SameItems, itemVars
<1>2. c \notin userConnections
  BY DEF DMFailed, Inv, HandshakeInv, Listed
<1>3. \A d \in Conns \ {c} : Same(d)
  BY <1>1 DEF DMFailed, Same, Inv, TypeInv, Typed
<1>4. conn'[c] = NoConn
  BY DEF DMFailed, Inv, TypeInv, Typed
<1>5. SameRole(c)
  BY <1>1, <1>2 DEF SameRole, Associated
<1> QED BY <1>1, <1>2, <1>3, <1>4, <1>5, NoConnOK, OneChanged, Steady, SameIsSameRole
        DEF Inv, Listed, NoConn

LEMMA FailedOK ==
    ASSUME Inv, NEW c \in Conns, NEW protocolError \in BOOLEAN, Failed(c, protocolError)
    PROVE  HandshakeInv' /\ ItemInv'
<1> DEFINE u == Owner(c)
           down == "DOWNLOAD" \in conn[c].flags
<1>1. CASE "ASSOCIATED" \notin conn[c].flags
  BY <1>1, Parted DEF Failed, SameItems
<1>2. CASE "ASSOCIATED" \in conn[c].flags
  <2>1. c \in userConnections /\ PutConnection(c)
    BY DEF Failed, Ready
  <2>2. \A d \in Conns \ {c} : Same(d)
    BY <2>1 DEF PutConnection, Same, Inv, TypeInv, Typed
  <2>3. ConnOK(conn'[c]) /\ Listed(c)'
    <3>1. CASE conn[c].listening
      <4>1. /\ conn'[c].state = conn[c].state /\ conn'[c].flags = conn[c].flags
            /\ conn'[c].pc = "dmFailed" /\ conn'[c].listening
        BY <2>1, <3>1 DEF PutConnection, Gone, Inv, TypeInv, Typed, Conn
      <4>2. conn[c].state \notin Opening \cup Bargain /\ "DOWNLOAD" \in conn[c].flags
        BY <1>2, <3>1 DEF Inv, HandshakeInv, ConnOK
      <4> QED BY <1>2, <2>1, <4>1, <4>2 DEF ConnOK, Listed, HandedOver, PutConnection
    <3>2. CASE ~conn[c].listening
      <4>1. conn'[c] = NoConn
        BY <2>1, <3>2 DEF PutConnection, Gone, Inv, TypeInv, Typed
      <4> QED BY <2>1, <4>1, NoConnOK DEF Listed, NoConn, PutConnection
    <3> QED BY <3>1, <3>2
  <2>4. HandshakeInv'
    BY <2>2, <2>3, OneChanged DEF Inv
  <2>5. /\ \A d \in Conns \ {c}, v \in Users : /\ DownloadOf(d, v)' <=> DownloadOf(d, v)
                                               /\ UploadOf(d, v)' <=> UploadOf(d, v)
        /\ \A v \in Users : ~DownloadOf(c, v)' /\ ~UploadOf(c, v)'
    BY <2>1, <2>2 DEF Same, DownloadOf, UploadOf, Associated, Owner, PutConnection
  <2>6. /\ uploads' = IF down THEN uploads ELSE uploads \ {u}
        /\ \A v \in Users : downloads'[v].state
                               = IF down /\ v = u THEN "WAITING" ELSE downloads[v].state
    BY <1>2 DEF Failed, Inv, TypeInv, Typed
  <2>7. \A v \in Users : /\ DownloadOf(c, v) <=> down /\ v = u
                         /\ UploadOf(c, v) <=> ~down /\ v = u
    BY <1>2, <2>1 DEF DownloadOf, UploadOf, Associated, Owner
  <2>8. \A d \in Conns \ {c}, v \in Users :
           /\ DownloadOf(d, v) => ~(down /\ v = u)
           /\ UploadOf(d, v) => ~(~down /\ v = u)
    BY <2>7 DEF Inv, ItemInv, OneConnectionPerDirection
  <2> HIDE DEF u, down
  <2>9. AssociatedHasItem'
    BY <2>5, <2>6, <2>8 DEF Inv, ItemInv, AssociatedHasItem
  <2>10. OneConnectionPerDirection'
    BY <2>5 DEF Inv, ItemInv, OneConnectionPerDirection
  <2>11. ActiveItemHasConnection'
    BY <2>5, <2>6, <2>7 DEF Inv, ItemInv, ActiveItemHasConnection
  <2> QED BY <2>4, <2>9, <2>10, <2>11 DEF ItemInv
<1> QED BY <1>1, <1>2

LEMMA InvNext ==
    ASSUME "repeat" \notin Env
    PROVE  Inv /\ [Next]_vars => Inv'
<1> SUFFICES ASSUME Inv, [Next]_vars PROVE Inv'
  OBVIOUS
<1>1. TypeInv'
  BY TypeNext DEF Inv
<1>2. HandshakeInv' /\ ItemInv'
  <2>1. ASSUME NEW u \in Users, UserNext(u) PROVE HandshakeInv' /\ ItemInv'
    BY <2>1, UserQuiet
  <2>2. ASSUME NEW c \in Conns, HandshakeNext(c) PROVE HandshakeInv' /\ ItemInv'
    BY <2>2, OpeningOK, ConnectOK, TimerQuiet, TurnedAwayOK, AssociationOK, NickOK, UntrustedOK,
       INFOK, DirectionOK DEF HandshakeNext
  <2>3. ASSUME NEW c \in Conns, TransferNext(c) PROVE HandshakeInv' /\ ItemInv'
    BY <2>3, DMAddOK, ServiceOK, EndOK, DMFailedOK, TimerQuiet, FailedOK DEF TransferNext
  <2>4. CASE Second \/ Shutdown
    BY <2>4, TimerQuiet
  <2>5. CASE UNCHANGED vars
    BY <2>5, Quiet DEF SameItems, Same, vars, clientVars, queueVars, itemVars, connVars
  <2> QED BY <2>1, <2>2, <2>3, <2>4, <2>5 DEF Next
<1> QED BY <1>1, <1>2 DEF Inv

LEMMA Invariance ==
    ASSUME "repeat" \notin Env
    PROVE  Spec => []Inv
<1>1. Init => Inv
  BY TypeInit, InitOK DEF Inv
<1>2. Inv /\ [Next]_vars => Inv'
  BY InvNext
<1> QED BY <1>1, <1>2, PTL DEF Spec

(* The item that failed() looks up for a connection that was handed over is  *)
(* there and is ACTIVE, for any number of users and connections: no          *)
(* interleaving of timer, hubs, queue and socket threads loses it.           *)
THEOREM AssociatedHasItemAlways ==
    ASSUME "repeat" \notin Env
    PROVE  Spec => []AssociatedHasItem
<1>1. Inv => AssociatedHasItem
  BY DEF Inv, ItemInv
<1> QED BY <1>1, Invariance, PTL

(* At most one connection of a user per direction is handed to a manager,    *)
(* whatever the number of connections that shake hands at the same time.     *)
THEOREM OneConnectionPerDirectionAlways ==
    ASSUME "repeat" \notin Env
    PROVE  Spec => []OneConnectionPerDirection
<1>1. Inv => OneConnectionPerDirection
  BY DEF Inv, ItemInv
<1> QED BY <1>1, Invariance, PTL

(* As long as no peer repeats the last line of its handshake, an ACTIVE item *)
(* always has the connection that will release it.                           *)
THEOREM ActiveItemHasConnectionAlways ==
    ASSUME "repeat" \notin Env
    PROVE  Spec => []ActiveItemHasConnection
<1>1. Inv => ActiveItemHasConnection
  BY DEF Inv, ItemInv
<1> QED BY <1>1, Invariance, PTL

------------------------------------------------------------------------------
(* Running users.  A connection that downloads is known to DownloadManager   *)
(* and stays in SND until endData, a failure, or the end of the connection.  *)
DownloadOK(r) ==
    /\ r.download => r.listening /\ r.state = "SND" /\ r.pc \in {"events", "dmFailed"}
    /\ r.pc = "check" => r.listening

RunInv == (\A c \in Conns : DownloadOK(conn[c])) /\ RunningHasDownload

(* d goes on downloading, unless its user stops running in the same step.    *)
Keeps(d) ==
    /\ DownloadOK(conn'[d])
    /\ conn[d].download /\ Owner(d) \in running' =>
           conn'[d].download /\ conn'[d].user = conn[d].user

LEMMA RunKept ==
    ASSUME RunInv, running' \subseteq running, \A d \in Conns : Keeps(d)
    PROVE  RunInv'
BY DEF RunInv, RunningHasDownload, Keeps, Owner

LEMMA SameKeeps ==
    ASSUME RunInv, NEW d \in Conns, conn'[d] = conn[d]
    PROVE  Keeps(d)
BY DEF RunInv, Keeps

LEMMA QueueKeeps ==
    ASSUME TypeInv, RunInv, NEW d \in Conns, NEW t,
           conn'[d] = conn[d] \/ conn'[d] = Queue(d, t)
    PROVE  Keeps(d)
BY QueueFields DEF RunInv, Keeps, DownloadOK

LEMMA GoneKeeps ==
    ASSUME TypeInv, RunInv, NEW d \in Conns, conn'[d] = Gone(conn[d])
    PROVE  Keeps(d)
<1>1. conn[d] \in Conn
  BY DEF TypeInv, Typed
<1>2. CASE conn[d].listening
  <2>1. conn'[d] = [conn[d] EXCEPT !.pc = "dmFailed"]
    BY <1>2 DEF Gone
  <2>2. /\ conn'[d].download = conn[d].download /\ conn'[d].listening = conn[d].listening
        /\ conn'[d].state = conn[d].state /\ conn'[d].user = conn[d].user
        /\ conn'[d].pc = "dmFailed"
    BY <1>1, <2>1 DEF Conn
  <2> QED BY <2>2 DEF RunInv, Keeps, DownloadOK
<1>3. CASE ~conn[d].listening
  BY <1>3 DEF Gone, NoConn, RunInv, Keeps, DownloadOK
<1> QED BY <1>2, <1>3

(* c does not download, neither before nor after the step.                   *)
LEMMA IdleKeeps ==
    ASSUME TypeInv, RunInv, NEW c \in Conns, running' \subseteq running,
           \A d \in Conns \ {c} : conn'[d] = conn[d],
           ~conn[c].download, ~conn'[c].download,
           conn'[c].pc = "check" => conn'[c].listening
    PROVE  RunInv'
<1>1. Keeps(c)
  BY DEF Keeps, DownloadOK
<1> QED BY <1>1, SameKeeps, RunKept

LEMMA PartedRun ==
    ASSUME TypeInv, RunInv, NEW c \in Conns, PutConnection(c), UNCHANGED running
    PROVE  RunInv'
<1>1. conn'[c] = Gone(conn[c]) /\ \A d \in Conns \ {c} : conn'[d] = conn[d]
  BY DEF PutConnection, TypeInv, Typed
<1> QED BY <1>1, GoneKeeps, SameKeeps, RunKept

LEMMA QueueRun ==
    ASSUME TypeInv, RunInv, NEW t, running' \subseteq running,
           \A d \in Conns : conn'[d] = conn[d] \/ conn'[d] = Queue(d, t)
    PROVE  RunInv'
BY QueueKeeps, RunKept

LEMMA UserRun ==
    ASSUME TypeInv, RunInv, NEW u \in Users, UserNext(u)
    PROVE  RunInv'
<1>1. running' \subseteq running
  BY DEF UserNext, QueueAdd, QueueResume, QueueDrop, QueueFreed, RemoveSource, RemovedSource,
     UserOnline, QueueUserConnected, UserOffline, GetDownloadConnection, ForceAttempt, queueVars
<1>2. CASE QueueAdd(u) \/ QueueResume(u) \/ QueueDrop(u) \/ QueueFreed(u)
           \/ UserOnline(u) \/ QueueUserConnected(u) \/ ForceAttempt(u)
  <2>1. conn' = conn
    BY <1>2 DEF QueueAdd, QueueResume, QueueDrop, QueueFreed, UserOnline, QueueUserConnected,
       ForceAttempt, connVars
  <2> QED BY <1>1, <2>1, SameKeeps, RunKept
<1>3. CASE RemoveSource(u)
  <2>1. \A d \in Conns : conn'[d] = conn[d] \/ conn'[d] = Queue(d, "DISCONNECT")
    BY <1>3, AfterRemovalType DEF RemoveSource
  <2> QED BY <1>1, <2>1, QueueRun
<1>4. CASE UserOffline(u)
  <2>1. \A d \in Conns : conn'[d] = conn[d] \/ conn'[d] = Queue(d, "DISCONNECT")
    BY <1>4 DEF UserOffline, DisconnectAll
  <2> QED BY <1>1, <2>1, QueueRun
<1>5. CASE GetDownloadConnection(u)
  <2>1. \A d \in Conns : conn'[d] = conn[d] \/ conn'[d] = Queue(d, "UPDATED")
    BY <1>5 DEF GetDownloadConnection, TypeInv, Typed
  <2> QED BY <1>1, <2>1, QueueRun
<1> QED BY <1>2, <1>3, <1>4, <1>5 DEF UserNext

LEMMA TimerRun ==
    ASSUME TypeInv, RunInv, Second \/ Shutdown \/ \E c \in Conns : Minute(c) \/ BadCommand(c)
    PROVE  RunInv'
<1>1. running' \subseteq running
  BY DEF Second, Shutdown, Minute, BadCommand, queueVars
<1>2. \A d \in Conns : conn'[d] = conn[d] \/ conn'[d] = Queue(d, "DISCONNECT")
  BY DEF Second, Shutdown, Minute, BadCommand, connVars, TypeInv, Typed
<1> QED BY <1>1, <1>2, QueueRun

LEMMA OpeningRun ==
    ASSUME TypeInv, RunInv, NEW c \in Conns,
           \/ Accept(c) \/ ConnectCheck(c) \/ Connect(c) \/ Connected(c) \/ SUP(c)
           \/ UnexpectedNick(c) \/ CLock(c) \/ UnknownINF(c)
    PROVE  RunInv'
<1>1. UNCHANGED running
  BY DEF Accept, ConnectCheck, Connect, Connected, SUP, UnexpectedNick, CLock, UnknownINF, queueVars
<1>2. CASE PutConnection(c)
  BY <1>1, <1>2, PartedRun
<1>3. CASE ~PutConnection(c)
  <2>1. conn[c].state # "SND" /\ \A d \in Conns \ {c} : conn'[d] = conn[d]
    BY <1>3 DEF Accept, ConnectCheck, Connect, Connected, SUP, UnexpectedNick, CLock, UnknownINF,
       TypeInv, Typed
  <2>2. ~conn[c].download
    BY <2>1 DEF RunInv, DownloadOK
  <2>3. \/ conn'[c].download = FALSE /\ conn'[c].pc = "events"
        \/ /\ conn'[c].download = conn[c].download /\ conn'[c].pc = conn[c].pc
           /\ conn'[c].listening = conn[c].listening
    BY <1>3 DEF Accept, ConnectCheck, Connect, Connected, SUP, UnexpectedNick, CLock, UnknownINF,
       TypeInv, Typed, Conn, NoConn
  <2> QED BY <1>1, <2>1, <2>2, <2>3, IdleKeeps DEF RunInv, DownloadOK
<1> QED BY <1>2, <1>3

LEMMA HandshakeRun ==
    ASSUME TypeInv, RunInv, NEW c \in Conns,
           \/ \E u \in Users : MyNick(c, u)
           \/ \E u \in Users, use \in {"DOWNLOAD", "UPLOAD"} : INF(c, u, use)
           \/ \E dir \in {"Upload", "Download"}, ours \in {"lower", "equal", "higher"} :
                  Direction(c, dir, ours)
           \/ Key(c) \/ AddConnection(c)
    PROVE  RunInv'
<1>1. UNCHANGED running
  BY DEF MyNick, INF, Direction, Key, AddConnection, AddDownloadConnection, AddUploadConnection,
     queueVars
<1>2. CASE PutConnection(c)
  BY <1>1, <1>2, PartedRun
<1>3. CASE ~PutConnection(c)
  <2>1. conn[c].state # "SND" \/ conn[c].pc \in {"addDown", "addUp"}
    BY DEF MyNick, INF, Direction, Key, AddConnection
  <2>2. ~conn[c].download
    BY <2>1 DEF RunInv, DownloadOK
  <2>3. \A d \in Conns \ {c} : conn'[d] = conn[d]
    BY <1>3 DEF MyNick, INF, Direction, Key, AddConnection, AddDownloadConnection,
       AddUploadConnection, TypeInv, Typed
  <2>4. conn[c] \in Conn /\ conn \in [Conns -> Conn]
    BY DEF TypeInv, Typed
  <2>5. /\ conn'[c].download = conn[c].download
        /\ \/ conn'[c].pc \in {"dmAdd", "events", "addDown", "addUp"}
           \/ conn'[c].pc = conn[c].pc /\ conn'[c].listening = conn[c].listening
    <3>1. CASE \E u \in Users : MyNick(c, u)
      <4> PICK u \in Users, use \in {"DOWNLOAD", "UPLOAD"} :
             conn' = [conn EXCEPT ![c].user = u, ![c].state = "LOCK", ![c].flags = @ \cup {use}]
        BY <1>3, <3>1 DEF MyNick
      <4> QED BY <2>4 DEF Conn
    <3>2. CASE \E u \in Users, use \in {"DOWNLOAD", "UPLOAD"} : INF(c, u, use)
      <4> PICK u \in Users, use \in {"DOWNLOAD", "UPLOAD"}, pc \in {"addDown", "addUp"} :
             conn' = [conn EXCEPT ![c].user = u, ![c].flags = @ \cup {use}, ![c].pc = pc]
        BY <3>2 DEF INF
      <4> QED BY <2>4 DEF Conn
    <3>3. CASE \E dir \in {"Upload", "Download"}, ours \in {"lower", "equal", "higher"} :
                   Direction(c, dir, ours)
      <4> PICK flags \in {conn[c].flags, (conn[c].flags \ {"DOWNLOAD"}) \cup {"UPLOAD"}} :
             conn' = [conn EXCEPT ![c].state = "KEY", ![c].flags = flags]
        BY <1>3, <3>3 DEF Direction
      <4> QED BY <2>4 DEF Conn
    <3>4. CASE AddDownloadConnection(c)
      <4>1. conn' = [conn EXCEPT ![c].flags = @ \cup {"ASSOCIATED"}, ![c].pc = "dmAdd"]
        BY <1>3, <3>4 DEF AddDownloadConnection
      <4> QED BY <2>4, <4>1 DEF Conn
    <3>5. CASE AddUploadConnection(c)
      <4>1. conn' = [conn EXCEPT ![c].flags = @ \cup {"ASSOCIATED"}, ![c].pc = "events",
                                 ![c].state = "GET"]
        BY <1>3, <3>5 DEF AddUploadConnection
      <4> QED BY <2>4, <4>1 DEF Conn
    <3> QED BY <3>1, <3>2, <3>3, <3>4, <3>5 DEF Key, AddConnection
  <2> QED BY <1>1, <2>2, <2>3, <2>5, IdleKeeps DEF RunInv, DownloadOK
<1> QED BY <1>2, <1>3

LEMMA UntrustedRun ==
    ASSUME TypeInv, RunInv, NEW c \in Conns, NEW u \in Users, UntrustedINF(c, u)
    PROVE  RunInv'
<1> PICK new \in AfterRemoval(u) : conn' = [new EXCEPT ![c] = Gone(@)]
  BY DEF UntrustedINF
<1>1. new \in [Conns -> Conn]
      /\ \A d \in Conns : new[d] = conn[d] \/ new[d] = Queue(d, "DISCONNECT")
  BY AfterRemovalType
<1>2. running' \subseteq running
  BY DEF UntrustedINF, RemovedSource
<1>3. \A d \in Conns \ {c} : Keeps(d)
  BY <1>1, QueueKeeps
<1>4. Keeps(c)
  <2>1. ~conn[c].download
    BY DEF UntrustedINF, RunInv, DownloadOK
  <2>2. new[c].download = conn[c].download
    BY <1>1, QueueFields
  <2>3. conn'[c] = Gone(new[c]) /\ new[c] \in Conn
    BY <1>1
  <2>4. conn'[c].download = FALSE /\ conn'[c].pc # "check"
    BY <2>1, <2>2, <2>3 DEF Gone, NoConn, Conn
  <2> QED BY <2>1, <2>4 DEF Keeps, DownloadOK
<1> QED BY <1>2, <1>3, <1>4, RunKept

(* How the records that the download steps write differ from the connection. *)
LEMMA RecordDownload ==
    ASSUME NEW r \in Conn, NEW c
    PROVE  /\ RemoveConnection(c, r).download = r.download
           /\ RemoveConnection(c, r).pc = "events"
           /\ [r EXCEPT !.download = FALSE].download = FALSE
           /\ LET new == [r EXCEPT !.listening = TRUE, !.pc = "check"]
              IN  new.download = r.download /\ new.listening
           /\ LET new == [r EXCEPT !.download = FALSE, !.pc = "check"]
              IN  new.download = FALSE /\ new.listening = r.listening
           /\ LET new == [r EXCEPT !.download = TRUE, !.state = "SND", !.pc = "events"]
              IN  /\ new.download /\ new.state = "SND" /\ new.pc = "events"
                  /\ new.listening = r.listening /\ new.user = r.user
           /\ LET new == [r EXCEPT !.state = "IDLE", !.pc = "events"]
              IN  new.download = r.download /\ new.pc = "events"
           /\ LET new == [r EXCEPT !.tasks = @ \ {"UPDATED"}, !.pc = "check"]
              IN  new.download = r.download /\ new.listening = r.listening
           /\ LET new == [r EXCEPT !.tasks = @ \ {"UPDATED"}]
              IN  /\ new.download = r.download /\ new.listening = r.listening
                  /\ new.state = r.state /\ new.pc = r.pc /\ new.user = r.user
           /\ LET new == [r EXCEPT !.tasks = @ \cup {"DISCONNECT"}, !.pc = "events"]
              IN  new.download = r.download /\ new.pc = "events"
           /\ LET new == [r EXCEPT !.pc = "park"]
              IN  new.download = r.download /\ new.pc = "park"
BY DEF Conn, RemoveConnection

LEMMA DMAddRun ==
    ASSUME TypeInv, RunInv, NEW c \in Conns, DMAddConnection(c)
    PROVE  RunInv'
<1>1. /\ running' \subseteq running /\ ~conn[c].download /\ Owner(c) \in Users
      /\ conn[c] \in Conn /\ conn \in [Conns -> Conn]
  BY DEF DMAddConnection, RemovedSource, RunInv, DownloadOK, TypeInv, Typed, OwnerKnown
<1>2. CASE conn' = [conn EXCEPT ![c] = [@ EXCEPT !.listening = TRUE, !.pc = "check"]]
  <2>1. conn'[c] = [conn[c] EXCEPT !.listening = TRUE, !.pc = "check"]
        /\ \A d \in Conns \ {c} : conn'[d] = conn[d]
    BY <1>1, <1>2
  <2>2. ~conn'[c].download /\ conn'[c].listening
    BY <1>1, <2>1, RecordDownload
  <2> QED BY <1>1, <2>1, <2>2, IdleKeeps
<1>3. CASE \E new \in AfterRemoval(Owner(c)) :
              conn' = [new EXCEPT ![c] = [new[c] EXCEPT !.tasks = @ \cup {"DISCONNECT"},
                                                        !.pc = "events"]]
  <2> PICK new \in AfterRemoval(Owner(c)) :
         conn' = [new EXCEPT ![c] = [new[c] EXCEPT !.tasks = @ \cup {"DISCONNECT"}, !.pc = "events"]]
    BY <1>3
  <2>1. new \in [Conns -> Conn]
        /\ \A d \in Conns : new[d] = conn[d] \/ new[d] = Queue(d, "DISCONNECT")
    BY <1>1, AfterRemovalType
  <2>2. \A d \in Conns \ {c} : Keeps(d)
    BY <2>1, QueueKeeps
  <2>3. new[c] \in Conn /\ ~new[c].download
    BY <1>1, <2>1, QueueFields
  <2>4. conn'[c] = [new[c] EXCEPT !.tasks = @ \cup {"DISCONNECT"}, !.pc = "events"]
    BY <2>1
  <2>5. ~conn'[c].download /\ conn'[c].pc = "events"
    <3> PICK r \in Conn : r = new[c]
      BY <2>3
    <3>1. conn'[c] = [r EXCEPT !.tasks = @ \cup {"DISCONNECT"}, !.pc = "events"]
      BY <2>4
    <3>2. \A n : n = [r EXCEPT !.tasks = @ \cup {"DISCONNECT"}, !.pc = "events"] =>
                    n.download = r.download /\ n.pc = "events"
      BY DEF Conn
    <3> QED BY <2>3, <3>1, <3>2
  <2> QED BY <1>1, <2>2, <2>5, RunKept DEF Keeps, DownloadOK
<1> QED BY <1>2, <1>3 DEF DMAddConnection

LEMMA ServiceRun ==
    ASSUME TypeInv, RunInv, NEW c \in Conns, CheckDownloads(c) \/ Park(c) \/ Updated(c)
    PROVE  RunInv'
<1>1. /\ conn[c] \in Conn /\ conn \in [Conns -> Conn]
      /\ \A d \in Conns \ {c} : conn'[d] = conn[d]
  BY DEF CheckDownloads, Park, Updated, TypeInv, Typed
<1>2. CASE CheckDownloads(c)
  <2>1. ~conn[c].download /\ conn[c].listening
    BY <1>2 DEF CheckDownloads, RunInv, DownloadOK
  <2>2. CASE UNCHANGED running /\ (\/ conn'[c] = RemoveConnection(c, conn[c])
                                   \/ conn'[c] = [conn[c] EXCEPT !.pc = "park"])
    <3>1. ~conn'[c].download /\ conn'[c].pc # "check"
      <4>1. CASE conn'[c] = RemoveConnection(c, conn[c])
        BY <1>1, <2>1, <4>1, RecordDownload
      <4>2. CASE conn'[c] = [conn[c] EXCEPT !.pc = "park"]
        BY <1>1, <2>1, <4>2, RecordDownload
      <4> QED BY <2>2, <4>1, <4>2
    <3> QED BY <1>1, <2>1, <2>2, <3>1, IdleKeeps
  <2>3. CASE /\ running' = running \cup {Owner(c)}
             /\ conn'[c] = [conn[c] EXCEPT !.download = TRUE, !.state = "SND", !.pc = "events"]
    <3>1. /\ conn'[c].download /\ conn'[c].state = "SND" /\ conn'[c].pc = "events"
          /\ conn'[c].listening /\ conn'[c].user = Owner(c)
      BY <1>1, <2>1, <2>3, RecordDownload DEF Owner
    <3>2. \A d \in Conns : DownloadOK(conn'[d])
      BY <1>1, <3>1 DEF RunInv, DownloadOK
    <3>3. ASSUME NEW v \in running' PROVE \E d \in Conns : conn'[d].download /\ conn'[d].user = v
      <4>1. CASE v = Owner(c)
        BY <3>1, <4>1
      <4>2. CASE v # Owner(c)
        <5> PICK d \in Conns : conn[d].download /\ Owner(d) = v
          BY <2>3, <4>2 DEF RunInv, RunningHasDownload
        <5> QED BY <1>1, <2>1 DEF Owner
      <4> QED BY <4>1, <4>2
    <3> QED BY <3>2, <3>3 DEF RunInv, RunningHasDownload, Owner
  <2> QED BY <1>1, <1>2, <2>2, <2>3 DEF CheckDownloads
<1>3. CASE Park(c)
  <2>1. ~conn[c].download /\ UNCHANGED running
        /\ conn'[c] = [conn[c] EXCEPT !.state = "IDLE", !.pc = "events"]
    BY <1>1, <1>3 DEF Park, RunInv, DownloadOK, queueVars
  <2>2. ~conn'[c].download /\ conn'[c].pc = "events"
    BY <1>1, <2>1, RecordDownload
  <2> QED BY <1>1, <2>1, <2>2, IdleKeeps
<1>4. CASE Updated(c) /\ Idler(c)
  <2>1. ~conn[c].download /\ conn[c].listening /\ UNCHANGED running
        /\ conn'[c] = [conn[c] EXCEPT !.tasks = @ \ {"UPDATED"}, !.pc = "check"]
    BY <1>1, <1>4 DEF Updated, Idler, RunInv, DownloadOK, queueVars
  <2>2. ~conn'[c].download /\ conn'[c].listening
    BY <1>1, <2>1, RecordDownload
  <2> QED BY <1>1, <2>1, <2>2, IdleKeeps
<1>5. CASE Updated(c) /\ ~Idler(c)
  <2>1. UNCHANGED running /\ conn'[c] = [conn[c] EXCEPT !.tasks = @ \ {"UPDATED"}]
    BY <1>1, <1>5 DEF Updated, queueVars
  <2>2. /\ conn'[c].download = conn[c].download /\ conn'[c].listening = conn[c].listening
        /\ conn'[c].state = conn[c].state /\ conn'[c].pc = conn[c].pc
        /\ conn'[c].user = conn[c].user
    BY <1>1, <2>1, RecordDownload
  <2>3. Keeps(c)
    BY <2>2 DEF RunInv, Keeps, DownloadOK
  <2> QED BY <1>1, <2>1, <2>3, SameKeeps, RunKept
<1> QED BY <1>2, <1>3, <1>4, <1>5

LEMMA EndRun ==
    ASSUME TypeInv, RunInv, NEW c \in Conns, EndDownload(c) \/ FailDownload(c) \/ DMFailed(c)
    PROVE  RunInv'
<1>1. /\ conn[c] \in Conn /\ conn \in [Conns -> Conn]
      /\ \A d \in Conns \ {c} : conn'[d] = conn[d]
  BY DEF EndDownload, FailDownload, DMFailed, TypeInv, Typed
<1>2. running' \subseteq running /\ (conn[c].download => Owner(c) \notin running')
  BY DEF EndDownload, FailDownload, DMFailed, PutDownload, queueVars
<1>3. DownloadOK(conn'[c])
  <2>1. CASE EndDownload(c)
    <3>1. conn[c].listening /\ conn'[c] = [conn[c] EXCEPT !.download = FALSE, !.pc = "check"]
      BY <1>1, <2>1 DEF EndDownload
    <3> QED BY <1>1, <3>1, RecordDownload DEF DownloadOK
  <2>2. CASE FailDownload(c)
    <3> DEFINE r == [conn[c] EXCEPT !.download = FALSE]
    <3>1. r \in Conn /\ r.download = FALSE
      BY <1>1, RecordTypes, RecordDownload
    <3>2. conn'[c] = RemoveConnection(c, r)
      BY <1>1, <2>2 DEF FailDownload
    <3> HIDE DEF r
    <3>3. conn'[c].download = FALSE /\ conn'[c].pc = "events"
      BY <3>1, <3>2, RecordDownload
    <3> QED BY <3>3 DEF DownloadOK
  <2>3. CASE DMFailed(c)
    BY <1>1, <2>3 DEF DMFailed, NoConn, DownloadOK
  <2> QED BY <2>1, <2>2, <2>3
<1>4. Keeps(c)
  BY <1>2, <1>3 DEF Keeps
<1> QED BY <1>1, <1>2, <1>4, SameKeeps, RunKept

LEMMA RunInit == Init => RunInv
BY DEF Init, RunInv, RunningHasDownload, DownloadOK, NoConn

LEMMA RunNext == TypeInv /\ RunInv /\ [Next]_vars => RunInv'
<1> SUFFICES ASSUME TypeInv, RunInv, [Next]_vars PROVE RunInv'
  OBVIOUS
<1>1. ASSUME NEW u \in Users, UserNext(u) PROVE RunInv'
  BY <1>1, UserRun
<1>2. ASSUME NEW c \in Conns, HandshakeNext(c) PROVE RunInv'
  BY <1>2, OpeningRun, TimerRun, HandshakeRun, UntrustedRun DEF HandshakeNext
<1>3. ASSUME NEW c \in Conns, TransferNext(c) PROVE RunInv'
  <2>1. CASE \E protocolError \in BOOLEAN : Failed(c, protocolError)
    <3>1. PutConnection(c) /\ UNCHANGED running
      BY <2>1 DEF Failed, queueVars
    <3> QED BY <3>1, PartedRun
  <2> QED BY <1>3, <2>1, DMAddRun, ServiceRun, EndRun, TimerRun DEF TransferNext
<1>4. CASE Second \/ Shutdown
  BY <1>4, TimerRun
<1>5. CASE UNCHANGED vars
  BY <1>5 DEF RunInv, RunningHasDownload, DownloadOK, Owner, vars, queueVars, connVars
<1> QED BY <1>1, <1>2, <1>3, <1>4, <1>5 DEF Next

(* Whatever peers repeat and timers do, a user counts as running only while  *)
(* some connection downloads from them: addSource never waits in vain for a  *)
(* download that ended without being taken back.                             *)
THEOREM RunningHasDownloadAlways == Spec => []RunningHasDownload
<1>1. Init => TypeInv /\ RunInv
  BY TypeInit, RunInit
<1>2. TypeInv /\ RunInv /\ [Next]_vars => TypeInv' /\ RunInv'
  BY TypeNext, RunNext
<1>3. RunInv => RunningHasDownload
  BY DEF RunInv
<1> QED BY <1>1, <1>2, <1>3, PTL DEF Spec

------------------------------------------------------------------------------
(* Wanted users.  A queue item that is not there is blank, and a connection  *)
(* whose end DownloadManager still has to hear of leaves its item behind:     *)
(* the item that putDownload, one step later, counts on.                     *)
FailureInv ==
    /\ \A u \in Users : downloads[u].state = "NONE" => downloads[u] = NoCQI
    /\ \A c \in Conns : conn[c].pc = "dmFailed" => downloads[Owner(c)].state # "NONE"

WantedInv == FailureInv /\ WantedUserHasItem

ItemsStay ==
    /\ \A u \in Users : downloads[u].state # "NONE" => downloads'[u].state # "NONE"
    /\ \A u \in Users : downloads'[u].state = "NONE" => downloads'[u] = NoCQI

NotNewlyFailed(d) ==
    conn'[d].pc = "dmFailed" => conn[d].pc = "dmFailed" /\ conn'[d].user = conn[d].user

LEMMA FailureKept ==
    ASSUME TypeInv, FailureInv, ItemsStay, \A d \in Conns : NotNewlyFailed(d)
    PROVE  FailureInv'
<1>1. ASSUME NEW d \in Conns, conn'[d].pc = "dmFailed" PROVE downloads'[conn'[d].user].state # "NONE"
  <2>1. conn[d].pc = "dmFailed" /\ conn'[d].user = Owner(d) /\ Owner(d) \in Users
    BY <1>1 DEF NotNewlyFailed, TypeInv, OwnerKnown, Owner
  <2> QED BY <2>1 DEF FailureInv, ItemsStay
<1> QED BY <1>1 DEF FailureInv, ItemsStay, Owner

(* Nothing new to want, or the user wanted has an item.                      *)
LEMMA WantedKept ==
    ASSUME WantedUserHasItem, ItemsStay, UNCHANGED clientVars,
           \A u \in Users : request[u] => request'[u],
           \A u \in Users : wanted'[u] = "now" =>
                                wanted[u] = "now" \/ downloads[u].state # "NONE"
    PROVE  WantedUserHasItem'
BY DEF WantedUserHasItem, ItemsStay, clientVars

LEMMA QuietWanted ==
    ASSUME TypeInv, WantedInv, ItemsStay, \A d \in Conns : NotNewlyFailed(d),
           UNCHANGED <<clientVars, queueVars>>
    PROVE  WantedInv'
BY FailureKept, WantedKept DEF WantedInv, queueVars

LEMMA QueuedNotFailed ==
    ASSUME TypeInv, NEW d \in Conns, NEW t, conn'[d] = conn[d] \/ conn'[d] = Queue(d, t)
    PROVE  NotNewlyFailed(d)
BY QueueFields DEF NotNewlyFailed

LEMMA UnlistedNotFailed ==
    ASSUME TypeInv, NEW c \in Conns, PutConnection(c), ~conn[c].listening
    PROVE  \A d \in Conns : NotNewlyFailed(d)
BY DEF TypeInv, Typed, PutConnection, Gone, NoConn, NotNewlyFailed

LEMMA SameItemsStay ==
    ASSUME FailureInv, UNCHANGED downloads
    PROVE  ItemsStay
BY DEF FailureInv, ItemsStay

(* A running user has an item: the connection that downloads holds it.       *)
LEMMA RunningHasItem ==
    ASSUME Inv, RunInv, FailureInv, NEW u \in running
    PROVE  downloads[u].state # "NONE"
<1> PICK c \in Conns : conn[c].download /\ Owner(c) = u
  BY DEF RunInv, RunningHasDownload
<1>1. u \in Users
  BY DEF Inv, TypeInv, Typed
<1>2. conn[c].listening /\ conn[c].pc \in {"events", "dmFailed"}
  BY DEF RunInv, DownloadOK
<1>3. CASE conn[c].pc = "dmFailed"
  BY <1>3 DEF FailureInv
<1>4. CASE conn[c].pc = "events"
  <2>1. DownloadOf(c, u)
    BY <1>2, <1>4 DEF Inv, HandshakeInv, ConnOK, Listed, DownloadOf, Associated
  <2> QED BY <1>1, <2>1 DEF Inv, ItemInv, AssociatedHasItem
<1> QED BY <1>2, <1>3, <1>4

LEMMA UserWanted ==
    ASSUME Inv, RunInv, WantedInv, "freed" \notin Env, NEW u \in Users, UserNext(u)
    PROVE  WantedInv'
<1> USE DEF Inv
<1>1. CASE QueueAdd(u) \/ QueueResume(u) \/ QueueDrop(u) \/ QueueFreed(u)
           \/ UserOnline(u) \/ QueueUserConnected(u)
  <2>1. UNCHANGED <<downloads, conn>>
    BY <1>1 DEF QueueAdd, QueueResume, QueueDrop, QueueFreed, UserOnline, QueueUserConnected,
       itemVars, connVars
  <2>2. FailureInv'
    BY <2>1 DEF WantedInv, FailureInv, Owner
  <2>3. WantedUserHasItem'
    <3>1. CASE QueueAdd(u)
      BY <2>1, <3>1, RunningHasItem DEF QueueAdd, WantedInv, WantedUserHasItem, clientVars, TypeInv, Typed
    <3>2. CASE QueueResume(u)
      BY <2>1, <3>2 DEF QueueResume, WantedInv, WantedUserHasItem, clientVars, TypeInv, Typed
    <3>3. CASE QueueDrop(u)
      BY <2>1, <3>3 DEF QueueDrop, WantedInv, WantedUserHasItem, clientVars, TypeInv, Typed
    <3>4. CASE UserOnline(u)
      BY <2>1, <3>4 DEF UserOnline, WantedInv, WantedUserHasItem, queueVars, TypeInv, Typed
    <3>5. CASE QueueUserConnected(u)
      BY <2>1, <3>5 DEF QueueUserConnected, WantedInv, WantedUserHasItem, TypeInv, Typed
    <3> QED BY <1>1, <3>1, <3>2, <3>3, <3>4, <3>5 DEF QueueFreed
  <2> QED BY <2>2, <2>3 DEF WantedInv
<1>2. CASE RemoveSource(u)
  <2>1. \A d \in Conns : NotNewlyFailed(d)
    BY <1>2, AfterRemovalType, QueuedNotFailed DEF RemoveSource
  <2>2. ItemsStay
    BY <1>2, SameItemsStay DEF RemoveSource, itemVars, WantedInv
  <2>3. WantedUserHasItem'
    BY <1>2, <2>2, WantedKept DEF RemoveSource, RemovedSource, WantedInv, TypeInv, Typed
  <2> QED BY <2>1, <2>2, <2>3, FailureKept DEF WantedInv
<1>3. CASE UserOffline(u)
  <2>1. \A d \in Conns : NotNewlyFailed(d)
    <3>1. \A d \in Conns : conn'[d] = conn[d] \/ conn'[d] = Queue(d, "DISCONNECT")
      BY <1>3 DEF UserOffline, DisconnectAll
    <3> QED BY <3>1, QueuedNotFailed
  <2>2. ItemsStay
    BY <1>3, SameItemsStay DEF UserOffline, itemVars, WantedInv
  <2>3. WantedUserHasItem'
    BY <1>3 DEF UserOffline, WantedInv, WantedUserHasItem, queueVars, itemVars, TypeInv, Typed
  <2> QED BY <2>1, <2>2, <2>3, FailureKept DEF WantedInv
<1>4. CASE GetDownloadConnection(u)
  <2>1. \A d \in Conns : NotNewlyFailed(d)
    <3>1. \A d \in Conns : conn'[d] = conn[d] \/ conn'[d] = Queue(d, "UPDATED")
      BY <1>4 DEF GetDownloadConnection, TypeInv, Typed
    <3> QED BY <3>1, QueuedNotFailed
  <2>2. ItemsStay /\ downloads'[u].state # "NONE"
    BY <1>4 DEF GetDownloadConnection, WantedInv, FailureInv, ItemsStay, NewCQI, TypeInv, Typed
  <2>3. WantedUserHasItem'
    BY <1>4, <2>2 DEF GetDownloadConnection, WantedInv, WantedUserHasItem, ItemsStay, clientVars,
       TypeInv, Typed
  <2> QED BY <2>1, <2>2, <2>3, FailureKept DEF WantedInv
<1>5. CASE ForceAttempt(u)
  <2>1. ItemsStay
    BY <1>5 DEF ForceAttempt, WantedInv, FailureInv, ItemsStay, TypeInv, Typed, CQI
  <2>2. \A d \in Conns : NotNewlyFailed(d)
    BY <1>5 DEF ForceAttempt, connVars, NotNewlyFailed
  <2> QED BY <1>5, <2>1, <2>2, QuietWanted DEF ForceAttempt
<1> QED BY <1>1, <1>2, <1>3, <1>4, <1>5 DEF UserNext

(* The timer drops an item only of a user who is offline, or from whom there  *)
(* is nothing to get now.                                                    *)
LEMMA TickedWanted ==
    ASSUME TypeInv, FailureInv, NEW u \in Users, NEW pass, NEW slots
    PROVE  LET t == Ticked(u, pass, slots)
           IN  /\ t.state = "NONE" => t = NoCQI
               /\ downloads[u].state # "NONE" /\ online[u] /\ wanted[u] = "now"
                      => t.state # "NONE"
<1> DEFINE q == [downloads[u] EXCEPT !.since = OneTickOlder(@)]
<1>0. downloads[u] \in CQI
  BY DEF TypeInv, Typed
<1>1. q.state = downloads[u].state
  BY <1>0 DEF CQI
<1>2. CASE downloads[u].state = "NONE"
  <2>1. downloads[u] = NoCQI
    BY <1>2 DEF FailureInv
  <2>2. q = NoCQI
    BY <2>1 DEF NoCQI, OneTickOlder
  <2> QED BY <1>2, <2>2 DEF Ticked, Pending, NoCQI
<1>3. CASE downloads[u].state = "ACTIVE"
  BY <1>1, <1>3 DEF Ticked, Pending
<1>4. CASE downloads[u].state \notin {"NONE", "ACTIVE"}
  <2>1. Attempt(q, u \in slots).state # "NONE"
    <3>1. AttemptState(q.state, u \in slots) # "NONE"
      BY <1>1, <1>4 DEF AttemptState
    <3> QED BY <1>0, <3>1 DEF Attempt, CQI
  <2>2. [q EXCEPT !.errors = OneMoreError(@), !.state = "WAITING"].state # "NONE"
    BY <1>0 DEF CQI
  <2> HIDE DEF q
  <2>3. \/ Ticked(u, pass, slots) = q
        \/ Ticked(u, pass, slots) = NoCQI /\ ~(online[u] /\ wanted[u] = "now")
        \/ Ticked(u, pass, slots) = Attempt(q, u \in slots)
        \/ Ticked(u, pass, slots) = [q EXCEPT !.errors = OneMoreError(@), !.state = "WAITING"]
    BY DEF Ticked, q
  <2> QED BY <1>1, <1>4, <2>1, <2>2, <2>3
<1> QED BY <1>2, <1>3, <1>4

LEMMA TimerWanted ==
    ASSUME TypeInv, WantedInv, "slow" \notin Env,
           Second \/ Shutdown \/ \E c \in Conns : Minute(c) \/ BadCommand(c)
    PROVE  WantedInv'
<1>1. CASE Second
  <2> PICK pass \in SUBSET Users, slots \in SUBSET Users :
         downloads' = [u \in Users |-> Ticked(u, pass, slots)]
    BY <1>1 DEF Second
  <2>1. \A c \in Conns : conn'[c].pc # "dmFailed"
    BY <1>1 DEF Second, connVars
  <2>2. \A u \in Users : downloads'[u].state = "NONE" => downloads'[u] = NoCQI
    BY TickedWanted DEF WantedInv
  <2>3. WantedUserHasItem'
    BY <1>1, TickedWanted DEF Second, WantedInv, WantedUserHasItem, clientVars, queueVars
  <2> QED BY <2>1, <2>2, <2>3 DEF WantedInv, FailureInv
<1>2. CASE Shutdown \/ \E c \in Conns : Minute(c) \/ BadCommand(c)
  <2>1. \A d \in Conns : conn'[d] = conn[d] \/ conn'[d] = Queue(d, "DISCONNECT")
    BY <1>2 DEF Shutdown, Minute, BadCommand, TypeInv, Typed
  <2>2. UNCHANGED <<clientVars, queueVars, downloads>>
    BY <1>2 DEF Shutdown, Minute, BadCommand, itemVars
  <2> QED BY <2>1, <2>2, QueuedNotFailed, SameItemsStay, QuietWanted DEF WantedInv
<1> QED BY <1>1, <1>2

LEMMA HandshakeWanted ==
    ASSUME Inv, WantedInv, "repeat" \notin Env, "slow" \notin Env,
           NEW c \in Conns, HandshakeNext(c)
    PROVE  WantedInv'
<1> USE DEF Inv
<1>0. conn[c] \in Conn /\ conn \in [Conns -> Conn] /\ downloads \in [Users -> CQI]
  BY DEF TypeInv, Typed
<1>1. ASSUME NEW u \in Users, UntrustedINF(c, u) PROVE WantedInv'
  <2> PICK new \in AfterRemoval(u) : conn' = [new EXCEPT ![c] = Gone(@)]
    BY <1>1 DEF UntrustedINF
  <2>1. new \in [Conns -> Conn]
        /\ \A d \in Conns : new[d] = conn[d] \/ new[d] = Queue(d, "DISCONNECT")
    BY AfterRemovalType
  <2>2. ~conn[c].listening
    BY <1>1 DEF UntrustedINF, FirstTime, HandshakeInv, ConnOK
  <2>3. NotNewlyFailed(c)
    BY <2>1, <2>2, QueueFields DEF Gone, NoConn, NotNewlyFailed
  <2>4. \A d \in Conns : NotNewlyFailed(d)
    BY <2>1, <2>3, QueuedNotFailed
  <2>5. ItemsStay
    BY <1>1, SameItemsStay DEF UntrustedINF, itemVars, WantedInv
  <2>6. WantedUserHasItem'
    BY <1>1, <2>5, WantedKept DEF UntrustedINF, RemovedSource, WantedInv, TypeInv, Typed
  <2> QED BY <2>4, <2>5, <2>6, FailureKept DEF WantedInv
<1>2. CASE BadCommand(c)
  BY <1>2, TimerWanted
<1>3. CASE ~BadCommand(c) /\ ~\E u \in Users : UntrustedINF(c, u)
  <2>1. UNCHANGED <<clientVars, queueVars>>
    BY <1>3 DEF HandshakeNext, Accept, ConnectCheck, Connect, Connected, SUP, UnexpectedNick, CLock,
       UnknownINF, MyNick, INF, Direction, Key, AddConnection, AddDownloadConnection,
       AddUploadConnection
  <2>2. ItemsStay
    <3>1. CASE \E u \in Users : MyNick(c, u)
      <4>1. PICK visited \in SUBSET Users :
               downloads' = [v \in Users |-> IF v \in visited
                                THEN [downloads[v] EXCEPT !.errors = 0] ELSE downloads[v]]
        BY <3>1 DEF MyNick, NickErrors
      <4>2. \A v \in Users : [downloads[v] EXCEPT !.errors = 0].state = downloads[v].state
        BY <1>0 DEF CQI
      <4>3. [NoCQI EXCEPT !.errors = 0] = NoCQI
        BY DEF NoCQI
      <4> QED BY <4>1, <4>2, <4>3 DEF WantedInv, FailureInv, ItemsStay
    <3>2. CASE \E u \in Users, use \in {"DOWNLOAD", "UPLOAD"} : INF(c, u, use)
      BY <1>0, <3>2 DEF INF, CQI, WantedInv, FailureInv, ItemsStay
    <3>3. CASE AddDownloadConnection(c)
      BY <1>0, <3>3, SameItemsStay DEF AddDownloadConnection, Expecting, CQI, WantedInv, FailureInv,
         ItemsStay
    <3>4. CASE UNCHANGED downloads
      BY <3>4, SameItemsStay DEF WantedInv
    <3> QED BY <1>3, <3>1, <3>2, <3>3, <3>4
        DEF HandshakeNext, Accept, ConnectCheck, Connect, Connected, SUP, UnexpectedNick, CLock,
            UnknownINF, Direction, Key, AddConnection, AddUploadConnection, itemVars
  <2>3. ~conn[c].listening /\ conn[c].pc # "dmFailed"
    BY <1>3 DEF HandshakeNext, Accept, ConnectCheck, Connect, Connected, SUP, UnexpectedNick, CLock,
       UnknownINF, MyNick, INF, Direction, Key, AddConnection, FirstTime, Ready, HandshakeInv, ConnOK,
       Opening, Bargain, HandedOver
  <2>4. \A d \in Conns : NotNewlyFailed(d)
    <3>1. CASE PutConnection(c)
      BY <2>3, <3>1, UnlistedNotFailed
    <3>2. CASE ~PutConnection(c)
      <4>1. \A d \in Conns \ {c} : conn'[d] = conn[d]
        BY <1>0, <1>3, <3>2
           DEF HandshakeNext, Accept, ConnectCheck, Connect, Connected, SUP, UnexpectedNick, CLock,
               UnknownINF, MyNick, INF, Direction, Key, AddConnection, AddDownloadConnection,
               AddUploadConnection
      <4>2. conn'[c].pc # "dmFailed"
        <5>1. CASE Accept(c) \/ ConnectCheck(c) \/ Connect(c) \/ Connected(c) \/ SUP(c) \/ CLock(c)
          BY <1>0, <2>3, <3>2, <5>1 DEF Accept, ConnectCheck, Connect, Connected, SUP, CLock, NoConn, Conn
        <5>2. CASE \E u \in Users : MyNick(c, u)
          <6> PICK u \in Users, use \in {"DOWNLOAD", "UPLOAD"} :
                 conn' = [conn EXCEPT ![c].user = u, ![c].state = "LOCK", ![c].flags = @ \cup {use}]
            BY <3>2, <5>2 DEF MyNick
          <6> QED BY <1>0, <2>3 DEF Conn
        <5>3. CASE \E u \in Users, use \in {"DOWNLOAD", "UPLOAD"} : INF(c, u, use)
          <6> PICK u \in Users, use \in {"DOWNLOAD", "UPLOAD"}, pc \in {"addDown", "addUp"} :
                 conn' = [conn EXCEPT ![c].user = u, ![c].flags = @ \cup {use}, ![c].pc = pc]
            BY <5>3 DEF INF
          <6> QED BY <1>0 DEF Conn
        <5>4. CASE \E dir \in {"Upload", "Download"}, ours \in {"lower", "equal", "higher"} :
                       Direction(c, dir, ours)
          <6> PICK flags \in {conn[c].flags, (conn[c].flags \ {"DOWNLOAD"}) \cup {"UPLOAD"}} :
                 conn' = [conn EXCEPT ![c].state = "KEY", ![c].flags = flags]
            BY <3>2, <5>4 DEF Direction
          <6> QED BY <1>0, <2>3 DEF Conn
        <5>5. CASE AddDownloadConnection(c) \/ AddUploadConnection(c)
          BY <1>0, <3>2, <5>5 DEF AddDownloadConnection, AddUploadConnection, Conn
        <5> QED BY <1>3, <3>2, <5>1, <5>2, <5>3, <5>4, <5>5
            DEF HandshakeNext, UnexpectedNick, UnknownINF, Key, AddConnection
      <4> QED BY <4>1, <4>2 DEF NotNewlyFailed
    <3> QED BY <3>1, <3>2
  <2> QED BY <2>1, <2>2, <2>4, QuietWanted
<1> QED BY <1>1, <1>2, <1>3

LEMMA DMAddWanted ==
    ASSUME Inv, WantedInv, NEW c \in Conns, DMAddConnection(c)
    PROVE  WantedInv'
<1> USE DEF Inv
<1>1. Owner(c) \in Users /\ conn[c] \in Conn /\ conn \in [Conns -> Conn]
  BY DEF DMAddConnection, TypeInv, Typed, OwnerKnown
<1>2. ItemsStay
  BY SameItemsStay DEF DMAddConnection, itemVars, WantedInv
<1>3. WantedUserHasItem'
  BY <1>2, WantedKept DEF DMAddConnection, RemovedSource, WantedInv, TypeInv, Typed
<1>4. CASE conn' = [conn EXCEPT ![c] = [@ EXCEPT !.listening = TRUE, !.pc = "check"]]
  <2>1. conn'[c].pc = "check" /\ \A d \in Conns \ {c} : conn'[d] = conn[d]
    BY <1>1, <1>4 DEF Conn
  <2> QED BY <1>2, <1>3, <2>1, FailureKept DEF NotNewlyFailed, WantedInv
<1>5. CASE \E new \in AfterRemoval(Owner(c)) :
              conn' = [new EXCEPT ![c] = [new[c] EXCEPT !.tasks = @ \cup {"DISCONNECT"},
                                                        !.pc = "events"]]
  <2> PICK new \in AfterRemoval(Owner(c)) :
         conn' = [new EXCEPT ![c] = [new[c] EXCEPT !.tasks = @ \cup {"DISCONNECT"}, !.pc = "events"]]
    BY <1>5
  <2>1. new \in [Conns -> Conn]
        /\ \A d \in Conns : new[d] = conn[d] \/ new[d] = Queue(d, "DISCONNECT")
    BY <1>1, AfterRemovalType
  <2>2. conn'[c].pc = "events"
    <3>1. PICK r \in Conn : r = new[c]
      BY <2>1
    <3>2. conn'[c] = [r EXCEPT !.tasks = @ \cup {"DISCONNECT"}, !.pc = "events"]
      BY <2>1, <3>1
    <3>3. \A n : n = [r EXCEPT !.tasks = @ \cup {"DISCONNECT"}, !.pc = "events"] => n.pc = "events"
      BY DEF Conn
    <3> QED BY <3>2, <3>3
  <2>3. \A d \in Conns : NotNewlyFailed(d)
    BY <2>1, <2>2, QueuedNotFailed DEF NotNewlyFailed
  <2> QED BY <1>2, <1>3, <2>3, FailureKept DEF WantedInv
<1> QED BY <1>4, <1>5 DEF DMAddConnection

LEMMA ServiceWanted ==
    ASSUME Inv, WantedInv, NEW c \in Conns,
           CheckDownloads(c) \/ Park(c) \/ Updated(c) \/ EndDownload(c) \/ FailDownload(c)
    PROVE  WantedInv'
<1> USE DEF Inv
<1>1. /\ conn[c] \in Conn /\ conn \in [Conns -> Conn] /\ conn[c].pc # "dmFailed"
      /\ \A d \in Conns \ {c} : conn'[d] = conn[d]
  BY DEF CheckDownloads, Park, Updated, EndDownload, FailDownload, Ready, TypeInv, Typed
<1>2. ItemsStay
  BY SameItemsStay DEF CheckDownloads, Park, Updated, EndDownload, FailDownload, itemVars, WantedInv
<1>3. conn'[c].pc # "dmFailed"
  <2>1. \/ conn'[c] = RemoveConnection(c, conn[c])
        \/ conn'[c] = RemoveConnection(c, [conn[c] EXCEPT !.download = FALSE])
        \/ conn'[c] = [conn[c] EXCEPT !.download = TRUE, !.state = "SND", !.pc = "events"]
        \/ conn'[c] = [conn[c] EXCEPT !.pc = "park"]
        \/ conn'[c] = [conn[c] EXCEPT !.state = "IDLE", !.pc = "events"]
        \/ conn'[c] = [conn[c] EXCEPT !.tasks = @ \ {"UPDATED"}, !.pc = "check"]
        \/ conn'[c] = [conn[c] EXCEPT !.tasks = @ \ {"UPDATED"}]
        \/ conn'[c] = [conn[c] EXCEPT !.download = FALSE, !.pc = "check"]
    BY <1>1 DEF CheckDownloads, Park, Updated, EndDownload, FailDownload
  <2>2. ASSUME NEW r \in Conn, r.pc # "dmFailed"
        PROVE  /\ RemoveConnection(c, r).pc # "dmFailed"
               /\ RemoveConnection(c, [r EXCEPT !.download = FALSE]).pc # "dmFailed"
               /\ [r EXCEPT !.download = TRUE, !.state = "SND", !.pc = "events"].pc # "dmFailed"
               /\ [r EXCEPT !.pc = "park"].pc # "dmFailed"
               /\ [r EXCEPT !.state = "IDLE", !.pc = "events"].pc # "dmFailed"
               /\ [r EXCEPT !.tasks = @ \ {"UPDATED"}, !.pc = "check"].pc # "dmFailed"
               /\ [r EXCEPT !.tasks = @ \ {"UPDATED"}].pc # "dmFailed"
               /\ [r EXCEPT !.download = FALSE, !.pc = "check"].pc # "dmFailed"
    BY <2>2 DEF Conn, RemoveConnection
  <2> QED BY <1>1, <2>1, <2>2
<1>4. WantedUserHasItem'
  <2>1. CASE CheckDownloads(c) \/ Park(c) \/ Updated(c)
    BY <1>2, <2>1, WantedKept DEF CheckDownloads, Park, Updated, queueVars, WantedInv, TypeInv, Typed
  <2>2. CASE EndDownload(c) \/ FailDownload(c)
    <3>1. Owner(c) \in Users
      BY <2>2 DEF EndDownload, FailDownload, TypeInv, OwnerKnown
    <3>2. DownloadOf(c, Owner(c))
      BY <2>2 DEF EndDownload, FailDownload, Ready, HandshakeInv, ConnOK, DownloadOf, Associated
    <3>3. downloads[Owner(c)].state # "NONE"
      BY <3>1, <3>2 DEF ItemInv, AssociatedHasItem
    <3> QED BY <1>2, <2>2, <3>1, <3>3, WantedKept
        DEF EndDownload, FailDownload, PutDownload, WantedInv, TypeInv, Typed
  <2> QED BY <2>1, <2>2
<1> QED BY <1>1, <1>2, <1>3, <1>4, FailureKept DEF NotNewlyFailed, WantedInv

LEMMA FailedWanted ==
    ASSUME Inv, WantedInv, NEW c \in Conns, NEW protocolError \in BOOLEAN, Failed(c, protocolError)
    PROVE  WantedInv'
<1> USE DEF Inv
<1>1. /\ conn[c] \in Conn /\ conn \in [Conns -> Conn] /\ downloads \in [Users -> CQI]
      /\ PutConnection(c) /\ UNCHANGED <<clientVars, queueVars>>
  BY DEF Failed, TypeInv, Typed
<1>2. ItemsStay
  BY <1>1 DEF Failed, WantedInv, FailureInv, ItemsStay
<1>3. CASE ~conn[c].listening
  BY <1>1, <1>2, <1>3, UnlistedNotFailed, QuietWanted
<1>4. CASE conn[c].listening
  <2>1. "ASSOCIATED" \in conn[c].flags /\ "DOWNLOAD" \in conn[c].flags /\ Owner(c) \in Users
    BY <1>4 DEF HandshakeInv, ConnOK, TypeInv, OwnerKnown
  <2>2. downloads'[Owner(c)].state = "WAITING"
    BY <1>1, <2>1 DEF Failed
  <2>3. conn'[c].user = Owner(c) /\ \A d \in Conns \ {c} : conn'[d] = conn[d]
    BY <1>1, <1>4 DEF PutConnection, Gone, Owner, Conn
  <2>4. ASSUME NEW d \in Conns, conn'[d].pc = "dmFailed"
        PROVE  downloads'[conn'[d].user].state # "NONE"
    <3>1. CASE d = c
      BY <2>2, <2>3, <3>1
    <3>2. CASE d # c
      <4>1. conn[d].pc = "dmFailed" /\ Owner(d) \in Users
        BY <2>3, <2>4, <3>2 DEF TypeInv, OwnerKnown
      <4> QED BY <1>2, <2>3, <3>2, <4>1 DEF WantedInv, FailureInv, ItemsStay, Owner
    <3> QED BY <3>1, <3>2
  <2>5. FailureInv'
    BY <1>2, <2>4 DEF FailureInv, ItemsStay, Owner
  <2> QED BY <1>1, <1>2, <2>5, WantedKept DEF WantedInv, queueVars
<1> QED BY <1>3, <1>4

LEMMA DMFailedWanted ==
    ASSUME Inv, WantedInv, NEW c \in Conns, DMFailed(c)
    PROVE  WantedInv'
<1> USE DEF Inv
<1>1. Owner(c) \in Users /\ downloads[Owner(c)].state # "NONE"
  BY DEF DMFailed, TypeInv, OwnerKnown, WantedInv, FailureInv
<1>2. ItemsStay
  BY SameItemsStay DEF DMFailed, itemVars, WantedInv
<1>3. \A d \in Conns : NotNewlyFailed(d)
  BY DEF DMFailed, NoConn, NotNewlyFailed, TypeInv, Typed
<1>4. WantedUserHasItem'
  BY <1>1, <1>2, WantedKept DEF DMFailed, PutDownload, queueVars, WantedInv, TypeInv, Typed
<1> QED BY <1>2, <1>3, <1>4, FailureKept DEF WantedInv

LEMMA WantedInit == Init => WantedInv
BY DEF Init, WantedInv, FailureInv, WantedUserHasItem, NoConn, NoCQI

LEMMA WantedNext ==
    ASSUME "repeat" \notin Env, "slow" \notin Env, "freed" \notin Env
    PROVE  Inv /\ RunInv /\ WantedInv /\ [Next]_vars => WantedInv'
<1> SUFFICES ASSUME Inv, RunInv, WantedInv, [Next]_vars PROVE WantedInv'
  OBVIOUS
<1>1. ASSUME NEW u \in Users, UserNext(u) PROVE WantedInv'
  BY <1>1, UserWanted
<1>2. ASSUME NEW c \in Conns, HandshakeNext(c) PROVE WantedInv'
  BY <1>2, HandshakeWanted
<1>3. ASSUME NEW c \in Conns, TransferNext(c) PROVE WantedInv'
  <2>1. CASE Minute(c)
    BY <2>1, TimerWanted DEF Inv
  <2> QED BY <1>3, <2>1, DMAddWanted, ServiceWanted, FailedWanted, DMFailedWanted DEF TransferNext
<1>4. CASE Second \/ Shutdown
  BY <1>4, TimerWanted DEF Inv
<1>5. CASE UNCHANGED vars
  BY <1>5 DEF WantedInv, FailureInv, WantedUserHasItem, Owner, vars, clientVars, queueVars, itemVars,
     connVars
<1> QED BY <1>1, <1>2, <1>3, <1>4, <1>5 DEF Next

(* A user who is online and has something we want is never forgotten, as     *)
(* long as no slot frees unannounced and the timer does not run between the   *)
(* two listeners of a failure (TLC breaks it without either assumption), and *)
(* no peer repeats its handshake (which Inv needs, on which the proof rests). *)
THEOREM WantedUserHasItemAlways ==
    ASSUME "repeat" \notin Env, "slow" \notin Env, "freed" \notin Env
    PROVE  Spec => []WantedUserHasItem
<1>1. Init => Inv /\ RunInv /\ WantedInv
  BY TypeInit, InitOK, RunInit, WantedInit DEF Inv
<1>2. Inv /\ RunInv /\ WantedInv /\ [Next]_vars => Inv' /\ RunInv' /\ WantedInv'
  BY InvNext, RunNext, WantedNext DEF Inv
<1>3. WantedInv => WantedUserHasItem
  BY DEF WantedInv
<1> QED BY <1>1, <1>2, <1>3, PTL DEF Spec
==============================================================================
