------------------------------ MODULE Connections ------------------------------
(***************************************************************************)
(* Client-to-client connections: ConnectionManager (the queue items that    *)
(* stand for "we want to download from this user" and "this user downloads  *)
(* from us", the handshake, the retry timer), the life of a UserConnection  *)
(* and its socket thread, and the part of DownloadManager and QueueManager   *)
(* that hands a download to a connection and takes it back.                  *)
(*                                                                         *)
(* One action is one critical section of the code.  A connection's events    *)
(* run on its own socket thread, so what one connection does is sequential    *)
(* (field pc); the timer, the queue and the other connections interleave.     *)
(***************************************************************************)
EXTENDS Integers, FiniteSets

CONSTANTS
    Users,            \* remote users
    Conns,            \* UserConnection objects that can exist at a time
    NoUser,           \* the null UserPtr
    ConnPerSec,       \* SETTING(DOWNCONN_PER_SEC); 0 means no limit
    RetryAfter,       \* timer ticks of back-off per error (60 s in the code)
    ConnectTimeout,   \* timer ticks after which an attempt is given up (50 s)
    MaxErrors,        \* bound: the error counter of a queue item stops here
    Env               \* what may happen beside the normal case, see Events

(* force:  the user forces connection attempts                               *)
(* repeat: a peer sends the last line of its handshake twice                 *)
(* slow:   the timer ticks while a socket thread stands between the two      *)
(*         listeners that hear of a failure                                  *)
(* freed:  a file slot or a segment of somebody else's download frees        *)
Events == {"force", "repeat", "slow", "freed"}

ASSUME NoUserAssumption == NoUser \notin Users
ASSUME TimerAssumption ==
    /\ ConnPerSec \in Nat /\ MaxErrors \in Nat \ {0}
    /\ RetryAfter \in Nat /\ ConnectTimeout \in Nat
    /\ ConnectTimeout < RetryAfter
ASSUME EnvAssumption == Env \subseteq Events

VARIABLES
    online,           \* User::ONLINE of every user
    connectedEvent,   \* UserConnected fired, QueueManager has not handled it
    wanted,           \* what the download queue holds for a user, see Wanted
    request,          \* a thread is about to call getDownloadConnection(u)
    running,          \* QueueManager::UserQueue::running: users we download from
    downloads,        \* ConnectionManager::downloads, one item per user at most
    uploads,          \* ConnectionManager::uploads: users that have an item
    userConnections,  \* ConnectionManager::userConnections
    conn,             \* the UserConnection objects
    shuttingDown      \* ConnectionManager::shuttingDown

clientVars == <<online, connectedEvent>>
queueVars  == <<wanted, request, running>>
itemVars   == <<downloads, uploads>>
connVars   == <<userConnections, conn>>
vars == <<clientVars, queueVars, itemVars, connVars, shuttingDown>>

------------------------------------------------------------------------------
(* no: nothing, or paused items only.  later: items that cannot be started    *)
(* now (no free segment, a limit is reached), so hasDownload answers PAUSED.  *)
(* now: hasDownload finds something.                                         *)
Wanted == {"no", "later", "now"}

(* ConnectionQueueItem.  since is the number of timer ticks since            *)
(* lastAttempt; lastAttempt = 0 ("never" or "forced") is Never.              *)
Never   == -1
LongAgo == RetryAfter * MaxErrors + 1      \* bound: older attempts look alike

CQI == [state  : {"NONE", "WAITING", "CONNECTING", "NO_DOWNLOAD_SLOTS", "ACTIVE"},
        errors : -1..MaxErrors,
        since  : Never..LongAgo]

NoCQI  == [state |-> "NONE", errors |-> 0, since |-> Never]
NewCQI == [state |-> "WAITING", errors |-> 0, since |-> Never]

OneMoreError(e) == IF e < MaxErrors THEN e + 1 ELSE e
OneTickOlder(s) == IF s = Never \/ s = LongAgo THEN s ELSE s + 1

(* UserConnection.  FREE: the object does not exist.  CHECKED: an outgoing   *)
(* connect has seen shuttingDown = false and has not created it yet.         *)
(* tasks: what other threads queued for the socket thread.  pc: where the    *)
(* socket thread stands between two critical sections; in "events" it waits  *)
(* for a line, a task or a socket error.  listening: DownloadManager is a    *)
(* listener.  download: UserConnection::download is set.                     *)
Conn == [state     : {"FREE", "CHECKED", "CONNECT", "SUPNICK", "INF", "LOCK",
                      "DIRECTION", "KEY", "GET", "SND", "IDLE"},
         user      : Users \cup {NoUser},
         flags     : SUBSET {"UPLOAD", "DOWNLOAD", "ASSOCIATED"},
         tasks     : SUBSET {"DISCONNECT", "UPDATED"},
         listening : BOOLEAN,
         download  : BOOLEAN,
         pc        : {"events", "addDown", "addUp", "dmAdd", "check", "park",
                      "dmFailed"}]

NoConn == [state |-> "FREE", user |-> NoUser, flags |-> {}, tasks |-> {},
           listening |-> FALSE, download |-> FALSE, pc |-> "events"]

Typed ==
    /\ online \in [Users -> BOOLEAN] /\ connectedEvent \in [Users -> BOOLEAN]
    /\ wanted \in [Users -> Wanted] /\ request \in [Users -> BOOLEAN]
    /\ running \in SUBSET Users
    /\ downloads \in [Users -> CQI] /\ uploads \in SUBSET Users
    /\ userConnections \in SUBSET Conns /\ conn \in [Conns -> Conn]
    /\ shuttingDown \in BOOLEAN

(* The types, and what ConnectionManager lists exists: whatever ends a        *)
(* connection, at whatever point of its handshake, takes it off the list     *)
(* first (putConnection).                                                   *)
TypeOK == Typed /\ \A c \in userConnections : conn[c].state \notin {"FREE", "CHECKED"}

Init ==
    /\ online = [u \in Users |-> FALSE]
    /\ connectedEvent = [u \in Users |-> FALSE]
    /\ wanted = [u \in Users |-> "no"]
    /\ request = [u \in Users |-> FALSE]
    /\ running = {}
    /\ downloads = [u \in Users |-> NoCQI]
    /\ uploads = {}
    /\ userConnections = {}
    /\ conn = [c \in Conns |-> NoConn]
    /\ shuttingDown = FALSE

Ready(c) == c \in userConnections /\ conn[c].pc = "events"
Owner(c) == conn[c].user
Idler(c) == Ready(c) /\ conn[c].state = "IDLE" /\ conn[c].listening

Queue(c, t) == [conn[c] EXCEPT !.tasks = @ \cup {t}]

(* Mutants, here and below: the definition that follows with a mistake in it, *)
(* never used by the specification.  DownloadManager is not told of the end:  *)
SilentlyGone(r) == NoConn

(* putConnection: ConnectionManager stops listening and forgets c.  If       *)
(* DownloadManager listens it still hears of the end; otherwise the socket    *)
(* thread only has to end, and the object counts as gone.                    *)
Gone(r) == IF r.listening THEN [r EXCEPT !.pc = "dmFailed"] ELSE NoConn

(* Mutant: the connection ends and stays in the list.                        *)
PutConnectionListed(c) ==
    /\ conn' = [conn EXCEPT ![c] = Gone(@)]
    /\ UNCHANGED userConnections

PutConnection(c) ==
    /\ userConnections' = userConnections \ {c}
    /\ conn' = [conn EXCEPT ![c] = Gone(@)]

(* ConnectionManager::disconnect(user): every connection of the user.        *)
DisconnectAll(u) ==
    conn' = [c \in Conns |-> IF c \in userConnections /\ Owner(c) = u
                             THEN Queue(c, "DISCONNECT") ELSE conn[c]]

(* ConnectionManager::disconnect(user, true): the first download connection  *)
(* found, if there is one.  The set of possible results.                     *)
DownloadConns(u) ==
    {c \in userConnections : Owner(c) = u /\ "DOWNLOAD" \in conn[c].flags}
DisconnectOne(u) ==
    IF DownloadConns(u) = {} THEN {conn}
    ELSE {[conn EXCEPT ![c] = Queue(c, "DISCONNECT")] : c \in DownloadConns(u)}

(* QueueManager::removeSource(user): u is no source of anything that getNext *)
(* finds, and a connection that runs a download of u is dropped.             *)
RemovedSource(u) ==
    /\ \E w \in {"no", "later"} : wanted' = [wanted EXCEPT ![u] = w]
    /\ running' = running \ {u}
AfterRemoval(u) == IF u \in running THEN DisconnectOne(u) ELSE {conn}

------------------------------------------------------------------------------
(* The download queue and the hubs, as ConnectionManager sees them.          *)

(* QueueManager::add and addSource: something to download from u turns up;    *)
(* a connection is asked for unless a download of u is running.              *)
QueueAdd(u) ==
    /\ \E w \in {"later", "now"} :
          /\ wanted[u] = "now" => w = "now"
          /\ wanted' = [wanted EXCEPT ![u] = w]
    /\ request' = [request EXCEPT ![u] = @ \/ (online[u] /\ u \notin running)]
    /\ UNCHANGED <<clientVars, running, itemVars, connVars, shuttingDown>>

(* setPriority resumes an item, or putDownload takes back the failed download *)
(* of another user: every online source of the item gets a connection.       *)
QueueResume(u) ==
    /\ wanted[u] # "now"
    /\ wanted' = [wanted EXCEPT ![u] = "now"]
    /\ request' = [request EXCEPT ![u] = @ \/ online[u]]
    /\ UNCHANGED <<clientVars, running, itemVars, connVars, shuttingDown>>

(* Less for u to do: taken, finished or removed by others, paused.           *)
QueueDrop(u) ==
    /\ \/ wanted[u] = "now" /\ wanted' \in {[wanted EXCEPT ![u] = w] : w \in {"no", "later"}}
       \/ wanted[u] = "later" /\ wanted' = [wanted EXCEPT ![u] = "no"]
    /\ UNCHANGED <<clientVars, request, running, itemVars, connVars, shuttingDown>>

(* Somebody else's download ends well and frees a file slot (FILE_SLOTS) or  *)
(* a segment (getMaxSegments): putDownload tells nobody.                     *)
QueueFreed(u) ==
    /\ "freed" \in Env /\ wanted[u] = "later"
    /\ wanted' = [wanted EXCEPT ![u] = "now"]
    /\ UNCHANGED <<clientVars, request, running, itemVars, connVars, shuttingDown>>

(* The user removes u, or what u has, from the queue.                        *)
RemoveSource(u) ==
    /\ wanted[u] # "no" \/ u \in running
    /\ RemovedSource(u)
    /\ conn' \in AfterRemoval(u)
    /\ UNCHANGED <<clientVars, request, itemVars, userConnections, shuttingDown>>

(* Mutant: the listeners are not told.                                       *)
UserOnlineUntold(u) ==
    /\ ~online[u]
    /\ online' = [online EXCEPT ![u] = TRUE]
    /\ UNCHANGED <<connectedEvent, queueVars, itemVars, connVars, shuttingDown>>

(* ClientManager::putOnline sets the flag, then tells the listeners.         *)
UserOnline(u) ==
    /\ ~online[u]
    /\ online' = [online EXCEPT ![u] = TRUE]
    /\ connectedEvent' = [connectedEvent EXCEPT ![u] = TRUE]
    /\ UNCHANGED <<queueVars, itemVars, connVars, shuttingDown>>

(* QueueManager::on(UserConnected).                                          *)
QueueUserConnected(u) ==
    /\ connectedEvent[u]
    /\ connectedEvent' = [connectedEvent EXCEPT ![u] = FALSE]
    /\ request' = [request EXCEPT ![u] = @ \/ wanted[u] # "no"]
    /\ UNCHANGED <<online, wanted, running, itemVars, connVars, shuttingDown>>

(* ClientManager::putOffline.                                                *)
UserOffline(u) ==
    /\ online[u]
    /\ online' = [online EXCEPT ![u] = FALSE]
    /\ DisconnectAll(u) \/ conn' = conn
    /\ UNCHANGED <<connectedEvent, queueVars, itemVars, userConnections, shuttingDown>>

------------------------------------------------------------------------------
(* Queue items of ConnectionManager.                                         *)

(* getDownloadConnection, getCQI and DownloadManager::checkIdle.             *)
GetDownloadConnection(u) ==
    /\ request[u]
    /\ request' = [request EXCEPT ![u] = FALSE]
    /\ \/ /\ downloads[u] = NoCQI
          /\ downloads' = [downloads EXCEPT ![u] = NewCQI]
          /\ conn' = conn
       \/ /\ downloads[u] # NoCQI
          /\ downloads' = downloads
          /\ LET idlers == {c \in Conns : Idler(c) /\ Owner(c) = u}
             IN  \/ idlers = {} /\ conn' = conn
                 \/ \E c \in idlers : conn' = [conn EXCEPT ![c] = Queue(c, "UPDATED")]
    /\ UNCHANGED <<clientVars, wanted, running, uploads, userConnections, shuttingDown>>

(* force: the user asks for an attempt now.                                  *)
ForceAttempt(u) ==
    /\ "force" \in Env /\ downloads[u].state # "NONE"
    /\ downloads' = [downloads EXCEPT ![u].since = Never]
    /\ UNCHANGED <<clientVars, queueVars, uploads, connVars, shuttingDown>>

(* Mutants: the timer looks at items in use too, gives up attempts later than *)
(* it tries again.                                                           *)
PendingOrActive(q) == q.state # "NONE"
TimedOutLate(q) == q.errors # -1 /\ q.state = "CONNECTING" /\ q.since > RetryAfter

(* on(Second): the body of the loop, for the item of u.  pass: the users for *)
(* whom the limit on attempts per second still admits one; slots: those for  *)
(* whom startDownload answers yes.                                           *)
Pending(q)  == q.state \notin {"NONE", "ACTIVE"}
Barred(q)   == q.errors = -1 /\ q.since # Never
Due(q)      == q.since > RetryAfter * (IF q.errors > 1 THEN q.errors ELSE 1)
Tried(q, pass) == ~Barred(q) /\ (q.since = Never \/ (pass /\ Due(q)))
TimedOut(q) == ~Barred(q) /\ q.state = "CONNECTING" /\ q.since > ConnectTimeout

AttemptState(state, slot) ==
    CASE state = "WAITING" /\ slot            -> "CONNECTING"
      [] state = "WAITING" /\ ~slot           -> "NO_DOWNLOAD_SLOTS"
      [] state = "NO_DOWNLOAD_SLOTS" /\ slot  -> "WAITING"
      [] OTHER                                -> state

Attempt(q, slot) == [q EXCEPT !.since = 0, !.state = AttemptState(@, slot)]

Ticked(u, pass, slots) ==
    LET q == [downloads[u] EXCEPT !.since = OneTickOlder(@)] IN
    IF ~Pending(q) THEN q
    ELSE IF ~online[u] THEN NoCQI
    ELSE IF Tried(q, u \in pass)
         THEN IF wanted[u] = "now" THEN Attempt(q, u \in slots) ELSE NoCQI
    ELSE IF TimedOut(q)
         THEN [q EXCEPT !.errors = OneMoreError(@), !.state = "WAITING"]
    ELSE q

(* The items on whose behalf ClientManager::connect is called in this tick.  *)
Contacted == {u \in Users : /\ downloads[u].state = "WAITING"
                            /\ downloads'[u].state = "CONNECTING"}

Second ==
    /\ ~shuttingDown
    /\ "slow" \in Env \/ \A c \in Conns : conn[c].pc # "dmFailed"
    /\ \E pass \in SUBSET Users, slots \in SUBSET Users :
          /\ downloads' = [u \in Users |-> Ticked(u, pass, slots)]
          /\ IF ConnPerSec = 0 THEN pass = Users
             ELSE /\ pass = Users \/ Cardinality(Contacted) >= ConnPerSec
                  /\ Cardinality({u \in Contacted : downloads[u].since # Never})
                         <= ConnPerSec
    /\ UNCHANGED <<clientVars, queueVars, uploads, connVars, shuttingDown>>

(* Mutant: idle connections are spared.                                      *)
MinuteForBusy(c) ==
    /\ ~shuttingDown /\ c \in userConnections /\ conn[c].state # "IDLE"
    /\ conn' = [conn EXCEPT ![c] = Queue(c, "DISCONNECT")]
    /\ UNCHANGED <<clientVars, queueVars, itemVars, userConnections, shuttingDown>>

(* on(Minute): connections that showed no activity are dropped.              *)
Minute(c) ==
    /\ ~shuttingDown /\ c \in userConnections
    /\ conn' = [conn EXCEPT ![c] = Queue(c, "DISCONNECT")]
    /\ UNCHANGED <<clientVars, queueVars, itemVars, userConnections, shuttingDown>>

------------------------------------------------------------------------------
(* Opening a connection and the handshake.  The peer sends what it likes.    *)

Accept(c) ==
    /\ ~shuttingDown /\ conn[c].state = "FREE"
    /\ userConnections' = userConnections \cup {c}
    /\ conn' = [conn EXCEPT ![c] = [NoConn EXCEPT !.state = "SUPNICK"]]
    /\ UNCHANGED <<clientVars, queueVars, itemVars, shuttingDown>>

(* nmdcConnect and adcConnect read shuttingDown first, create later.         *)
ConnectCheck(c) ==
    /\ ~shuttingDown /\ conn[c].state = "FREE"
    /\ conn' = [conn EXCEPT ![c] = [NoConn EXCEPT !.state = "CHECKED"]]
    /\ UNCHANGED <<clientVars, queueVars, itemVars, userConnections, shuttingDown>>

Connect(c) ==
    /\ conn[c].state = "CHECKED"
    /\ \/ /\ userConnections' = userConnections \cup {c}
          /\ conn' = [conn EXCEPT ![c].state = "CONNECT"]
       \/ PutConnection(c)                 \* checkIpFlood, or the socket throws
    /\ UNCHANGED <<clientVars, queueVars, itemVars, shuttingDown>>

Connected(c) ==
    /\ Ready(c) /\ conn[c].state = "CONNECT"
    /\ conn' = [conn EXCEPT ![c].state = "SUPNICK"]
    /\ UNCHANGED <<clientVars, queueVars, itemVars, userConnections, shuttingDown>>

SUP(c) ==
    /\ Ready(c) /\ conn[c].state = "SUPNICK"
    /\ conn' = [conn EXCEPT ![c].state = "INF"]
    /\ UNCHANGED <<clientVars, queueVars, itemVars, userConnections, shuttingDown>>

(* SUP without BASE, INF without ID or in a state that does not expect it.   *)
BadCommand(c) ==
    /\ Ready(c) /\ conn[c].state # "CONNECT"
    /\ conn' = [conn EXCEPT ![c] = Queue(c, "DISCONNECT")]
    /\ UNCHANGED <<clientVars, queueVars, itemVars, userConnections, shuttingDown>>

(* Mutant: an item that another connection already uses is taken again.      *)
ExpectingAgain(u) == downloads[u].state # "NONE"

(* MyNick, of a nick that stands for user u.  The loop clears the errors of  *)
(* every item it passes before it finds u's, of all of them if it does not.  *)
Expecting(u) == downloads[u].state \in {"CONNECTING", "WAITING"}

NickErrors(u) ==
    \E visited \in SUBSET Users :
        /\ IF Expecting(u) THEN u \in visited ELSE visited = Users
        /\ downloads' = [v \in Users |-> IF v \in visited
                            THEN [downloads[v] EXCEPT !.errors = 0] ELSE downloads[v]]

MyNick(c, u) ==
    /\ Ready(c) /\ conn[c].state = "SUPNICK"
    /\ NickErrors(u)
    /\ \/ /\ Expecting(u)
          /\ conn' = [conn EXCEPT ![c].user = u, ![c].state = "LOCK",
                                  ![c].flags = @ \cup {"DOWNLOAD"}]
          /\ UNCHANGED userConnections
       \/ /\ ~Expecting(u) /\ online[u]
          /\ conn' = [conn EXCEPT ![c].user = u, ![c].state = "LOCK",
                                  ![c].flags = @ \cup {"UPLOAD"}]
          /\ UNCHANGED userConnections
       \/ ~Expecting(u) /\ ~online[u] /\ PutConnection(c)
    /\ UNCHANGED <<clientVars, queueVars, uploads, shuttingDown>>

(* MyNick of a nick we did not tell to connect (expectedConnections).        *)
UnexpectedNick(c) ==
    /\ Ready(c) /\ conn[c].state = "SUPNICK"
    /\ PutConnection(c)
    /\ UNCHANGED <<clientVars, queueVars, itemVars, shuttingDown>>

CLock(c) ==
    /\ Ready(c) /\ conn[c].state = "LOCK"
    /\ conn' = [conn EXCEPT ![c].state = "DIRECTION"]
    /\ UNCHANGED <<clientVars, queueVars, itemVars, userConnections, shuttingDown>>

(* Direction.  ours: our random number is "lower", "equal" or "higher".    *)
Direction(c, dir, ours) ==
    LET clash == \/ dir = "Upload" /\ "UPLOAD" \in conn[c].flags
                 \/ dir = "Download" /\ "DOWNLOAD" \in conn[c].flags /\ ours = "equal"
        lost  == dir = "Download" /\ "DOWNLOAD" \in conn[c].flags /\ ours = "lower"
    IN  /\ Ready(c) /\ conn[c].state = "DIRECTION"
        /\ \/ clash /\ PutConnection(c)
           \/ /\ ~clash
              /\ conn' = [conn EXCEPT ![c].state = "KEY",
                    ![c].flags = IF lost THEN (@ \ {"DOWNLOAD"}) \cup {"UPLOAD"} ELSE @]
              /\ UNCHANGED userConnections
        /\ UNCHANGED <<clientVars, queueVars, itemVars, shuttingDown>>

AddDownloadConnection(c) ==
    LET u == Owner(c) IN
    /\ \/ /\ Expecting(u)
          /\ downloads' = [downloads EXCEPT ![u].state = "ACTIVE"]
          /\ conn' = [conn EXCEPT ![c].flags = @ \cup {"ASSOCIATED"}, ![c].pc = "dmAdd"]
          /\ UNCHANGED userConnections
       \/ ~Expecting(u) /\ PutConnection(c) /\ UNCHANGED downloads
    /\ UNCHANGED <<clientVars, queueVars, uploads, shuttingDown>>

AddUploadConnection(c) ==
    LET u == Owner(c) IN
    /\ \/ /\ u \notin uploads
          /\ uploads' = uploads \cup {u}
          /\ conn' = [conn EXCEPT ![c].flags = @ \cup {"ASSOCIATED"}, ![c].pc = "events",
                                  ![c].state = "GET"]
          /\ UNCHANGED userConnections
       \/ u \in uploads /\ PutConnection(c) /\ UNCHANGED uploads
    /\ UNCHANGED <<clientVars, queueVars, downloads, shuttingDown>>

(* Lines that follow in the same packet are read even after a disconnect was *)
(* queued, so a repeated Key or INF finds the state it was first sent in.    *)
FirstTime(c) == "repeat" \in Env \/ "ASSOCIATED" \notin conn[c].flags

Key(c) ==
    /\ Ready(c) /\ conn[c].state = "KEY" /\ FirstTime(c)
    /\ IF "DOWNLOAD" \in conn[c].flags THEN AddDownloadConnection(c)
                                       ELSE AddUploadConnection(c)

(* INF, first critical section: who is it, and what is the connection for?   *)
(* DOWNLOAD if the token it answers is the one of our queue item.            *)
INF(c, u, use) ==
    /\ Ready(c) /\ conn[c].state = "INF" /\ FirstTime(c)
    /\ Owner(c) \in {NoUser, u}
    /\ use = "DOWNLOAD" => downloads[u].state # "NONE"
    /\ downloads' = IF downloads[u].state # "NONE"
                    THEN [downloads EXCEPT ![u].errors = 0] ELSE downloads
    /\ conn' = [conn EXCEPT ![c].user = u, ![c].flags = @ \cup {use},
                            ![c].pc = IF use = "DOWNLOAD" THEN "addDown" ELSE "addUp"]
    /\ UNCHANGED <<clientVars, queueVars, uploads, userConnections, shuttingDown>>

(* INF, second critical section.                                             *)
AddConnection(c) ==
    \/ conn[c].pc = "addDown" /\ AddDownloadConnection(c)
    \/ conn[c].pc = "addUp" /\ AddUploadConnection(c)

(* INF of a user we do not know, or without a token.                         *)
UnknownINF(c) ==
    /\ Ready(c) /\ conn[c].state = "INF" /\ FirstTime(c)
    /\ PutConnection(c)
    /\ UNCHANGED <<clientVars, queueVars, itemVars, shuttingDown>>

(* INF over TLS from a user whose key print does not match.                  *)
UntrustedINF(c, u) ==
    /\ Ready(c) /\ conn[c].state = "INF" /\ FirstTime(c)
    /\ Owner(c) \in {NoUser, u}
    /\ RemovedSource(u)
    /\ conn' \in {[new EXCEPT ![c] = Gone(@)] : new \in AfterRemoval(u)}
    /\ userConnections' = userConnections \ {c}
    /\ UNCHANGED <<clientVars, request, itemVars, shuttingDown>>

------------------------------------------------------------------------------
(* DownloadManager and QueueManager on a download connection.                *)

(* DownloadManager::addConnection.  A client too old to download from (old)  *)
(* is removed as a source and disconnected; its state stays what it was.     *)
DMAddConnection(c) ==
    LET u == Owner(c) IN
    /\ conn[c].pc = "dmAdd"
    /\ \/ /\ RemovedSource(u)
          /\ conn' \in {[new EXCEPT ![c] = [new[c] EXCEPT !.tasks = @ \cup {"DISCONNECT"},
                                                     !.pc = "events"]]
                            : new \in AfterRemoval(u)}
       \/ /\ conn' = [conn EXCEPT ![c] = [@ EXCEPT !.listening = TRUE, !.pc = "check"]]
          /\ UNCHANGED <<wanted, running>>
    /\ UNCHANGED <<clientVars, request, itemVars, userConnections, shuttingDown>>

RemoveConnection(c, r) ==
    [r EXCEPT !.listening = FALSE, !.tasks = @ \cup {"DISCONNECT"}, !.pc = "events"]

(* DownloadManager::checkDownloads and QueueManager::getDownload.            *)
CheckDownloads(c) ==
    LET u == Owner(c) IN
    /\ conn[c].pc = "check"
    /\ \/ /\ conn' = [conn EXCEPT ![c] = RemoveConnection(c, @)]      \* no slot
          /\ UNCHANGED <<wanted, running>>
       \/ /\ wanted[u] = "now"
          /\ \E w \in {"later", "now"} : wanted' = [wanted EXCEPT ![u] = w]
          /\ running' = running \cup {u}
          /\ conn' = [conn EXCEPT ![c] = [@ EXCEPT !.download = TRUE, !.state = "SND",
                                                   !.pc = "events"]]
       \/ /\ wanted[u] # "now"
          /\ conn' = [conn EXCEPT ![c] = [@ EXCEPT !.pc = "park"]]
          /\ UNCHANGED <<wanted, running>>
    /\ UNCHANGED <<clientVars, request, itemVars, userConnections, shuttingDown>>

(* checkDownloads found nothing; only now does the connection become idle.   *)
Park(c) ==
    /\ conn[c].pc = "park"
    /\ conn' = [conn EXCEPT ![c] = [@ EXCEPT !.state = "IDLE", !.pc = "events"]]
    /\ UNCHANGED <<clientVars, queueVars, itemVars, userConnections, shuttingDown>>

(* on(Updated), the task that checkIdle posts.                               *)
Updated(c) ==
    /\ Ready(c) /\ "UPDATED" \in conn[c].tasks
    /\ \/ /\ Idler(c)
          /\ conn' = [conn EXCEPT ![c] = [conn[c] EXCEPT !.tasks = @ \ {"UPDATED"}, !.pc = "check"]]
       \/ /\ ~Idler(c)
          /\ conn' = [conn EXCEPT ![c] = [conn[c] EXCEPT !.tasks = @ \ {"UPDATED"}]]
    /\ UNCHANGED <<clientVars, queueVars, itemVars, userConnections, shuttingDown>>

(* putDownload: the item is free for others, or finished.  again: the        *)
(* download failed and its item is neither gone nor paused, so its sources    *)
(* get a connection request.  What is left for u afterwards is open.         *)
PutDownload(u) ==
    \E again \in BOOLEAN, w \in Wanted :
        /\ running' = running \ {u}
        /\ wanted' = [wanted EXCEPT ![u] = w]
        /\ request' = [request EXCEPT ![u] = @ \/ (again /\ online[u])]

(* endData and fileNotAvailable: the download is over and the connection     *)
(* looks for the next one.                                                   *)
EndDownload(c) ==
    /\ Ready(c) /\ conn[c].download /\ conn[c].listening
    /\ PutDownload(Owner(c))
    /\ conn' = [conn EXCEPT ![c] = [@ EXCEPT !.download = FALSE, !.pc = "check"]]
    /\ UNCHANGED <<clientVars, itemVars, userConnections, shuttingDown>>

(* noSlots, or a write error: failDownload without a socket failure.         *)
FailDownload(c) ==
    /\ Ready(c) /\ conn[c].download /\ conn[c].listening
    /\ PutDownload(Owner(c))
    /\ conn' = [conn EXCEPT ![c] = RemoveConnection(c, [@ EXCEPT !.download = FALSE])]
    /\ UNCHANGED <<clientVars, itemVars, userConnections, shuttingDown>>

(* Mutant: the queue item is not released.                                   *)
FailedKeepsItem(c, protocolError) ==
    /\ Ready(c) /\ PutConnection(c)
    /\ UNCHANGED <<clientVars, queueVars, itemVars, shuttingDown>>

(* ConnectionManager::failed, the first listener to hear of the end of a     *)
(* connection: a socket error, a queued disconnect, or a protocol error.     *)
Failed(c, protocolError) ==
    LET u == Owner(c)
        associated == "ASSOCIATED" \in conn[c].flags
        down == "DOWNLOAD" \in conn[c].flags
    IN  /\ Ready(c)
        /\ downloads' = IF associated /\ down
               THEN [downloads EXCEPT ![u] =
                       [state |-> "WAITING", since |-> 0,
                        errors |-> IF protocolError THEN -1 ELSE OneMoreError(@.errors)]]
               ELSE downloads
        /\ uploads' = IF associated /\ ~down THEN uploads \ {u} ELSE uploads
        /\ PutConnection(c)
        /\ UNCHANGED <<clientVars, queueVars, shuttingDown>>

(* DownloadManager::onFailed, the next listener.                             *)
DMFailed(c) ==
    /\ conn[c].pc = "dmFailed"
    /\ \/ conn[c].download /\ PutDownload(Owner(c))
       \/ ~conn[c].download /\ UNCHANGED queueVars
    /\ conn' = [conn EXCEPT ![c] = NoConn]
    /\ UNCHANGED <<clientVars, itemVars, userConnections, shuttingDown>>

(* shutdown: the timer is silenced, the servers are closed, and every        *)
(* connection known at this moment is disconnected.                          *)
Shutdown ==
    /\ ~shuttingDown
    /\ shuttingDown' = TRUE
    /\ conn' = [c \in Conns |-> IF c \in userConnections THEN Queue(c, "DISCONNECT")
                                                        ELSE conn[c]]
    /\ UNCHANGED <<clientVars, queueVars, itemVars, userConnections>>

------------------------------------------------------------------------------
UserNext(u) ==
    \/ QueueAdd(u) \/ QueueResume(u) \/ QueueDrop(u) \/ QueueFreed(u) \/ RemoveSource(u)
    \/ UserOnline(u) \/ QueueUserConnected(u) \/ UserOffline(u)
    \/ GetDownloadConnection(u) \/ ForceAttempt(u)

HandshakeNext(c) ==
    \/ Accept(c) \/ ConnectCheck(c) \/ Connect(c) \/ Connected(c) \/ SUP(c)
    \/ BadCommand(c) \/ UnexpectedNick(c) \/ CLock(c) \/ Key(c) \/ AddConnection(c)
    \/ UnknownINF(c)
    \/ \E u \in Users : MyNick(c, u) \/ UntrustedINF(c, u)
    \/ \E u \in Users, use \in {"DOWNLOAD", "UPLOAD"} : INF(c, u, use)
    \/ \E dir \in {"Upload", "Download"}, ours \in {"lower", "equal", "higher"} :
           Direction(c, dir, ours)

TransferNext(c) ==
    \/ DMAddConnection(c) \/ CheckDownloads(c) \/ Park(c) \/ Updated(c)
    \/ EndDownload(c) \/ FailDownload(c) \/ DMFailed(c) \/ Minute(c)
    \/ \E protocolError \in BOOLEAN : Failed(c, protocolError)

Next ==
    \/ \E u \in Users : UserNext(u)
    \/ \E c \in Conns : HandshakeNext(c) \/ TransferNext(c)
    \/ Second \/ Shutdown

Spec == Init /\ [][Next]_vars

(* What the program's own threads guarantee: the timer ticks, a socket       *)
(* thread finishes the handler it is in, a thread about to request a         *)
(* connection does so, an idle connection shows no activity and is found by  *)
(* the minute timer.  The task queue is read between any two reads of the    *)
(* socket, so a queued disconnect happens although the handlers in between   *)
(* keep the thread busy: strong fairness.  Peers, hubs and the user owe      *)
(* nothing.                                                                  *)
Fairness ==
    /\ WF_vars(Second)
    /\ \A u \in Users : /\ WF_vars(GetDownloadConnection(u))
                        /\ WF_vars(QueueUserConnected(u))
    /\ \A c \in Conns :
          /\ WF_vars(AddConnection(c)) /\ WF_vars(DMAddConnection(c))
          /\ WF_vars(CheckDownloads(c)) /\ WF_vars(Park(c)) /\ WF_vars(Updated(c))
          /\ WF_vars(DMFailed(c))
          /\ WF_vars(Idler(c) /\ Minute(c))
          /\ SF_vars("DISCONNECT" \in conn[c].tasks /\ Failed(c, FALSE))
          /\ WF_vars(conn[c].state = "CHECKED" /\ Connect(c))

FairSpec == Spec /\ Fairness

------------------------------------------------------------------------------
(* Properties.                                                               *)

Associated(c) == c \in userConnections /\ "ASSOCIATED" \in conn[c].flags
DownloadOf(c, u) == Associated(c) /\ Owner(c) = u /\ "DOWNLOAD" \in conn[c].flags
UploadOf(c, u) == Associated(c) /\ Owner(c) = u /\ "DOWNLOAD" \notin conn[c].flags

(* A connection that was handed to a manager still has the queue item that   *)
(* failed() looks up when the connection ends, and the item is ACTIVE:       *)
(* neither the timer, nor a user who leaves, nor another connection of the    *)
(* same user took it away (the dcasserts of ConnectionManager::failed).      *)
AssociatedHasItem ==
    \A c \in Conns, u \in Users :
        /\ DownloadOf(c, u) => downloads[u].state = "ACTIVE"
        /\ UploadOf(c, u) => u \in uploads

(* However many connections of a user shake hands at once, at most one per   *)
(* direction is handed to a manager (addDownloadConnection,                  *)
(* addUploadConnection).                                                     *)
OneConnectionPerDirection ==
    \A c, d \in Conns, u \in Users :
        /\ DownloadOf(c, u) /\ DownloadOf(d, u) => c = d
        /\ UploadOf(c, u) /\ UploadOf(d, u) => c = d

(* An item that is ACTIVE is "In one up/downmanager" (ConnectionManager.h):  *)
(* some connection stands for it and will release it when it ends.  An item  *)
(* without one would block the user's connections for good.                  *)
ActiveItemHasConnection ==
    \A u \in Users :
        /\ downloads[u].state = "ACTIVE" => \E c \in Conns : DownloadOf(c, u)
        /\ u \in uploads => \E c \in Conns : UploadOf(c, u)

(* A user counts as running only while a connection downloads from them:     *)
(* addSource asks for no connection to a running user, so an entry left      *)
(* behind by a connection that ended would starve the user's later items.    *)
RunningHasDownload ==
    \A u \in running : \E c \in Conns : conn[c].download /\ Owner(c) = u

(* A user we want something from and who is online is never forgotten: there *)
(* is a queue item for the timer to work on, or a thread is about to create  *)
(* one (add, putDownload, UserConnected against the removals of on(Second)). *)
WantedUserHasItem ==
    \A u \in Users :
        wanted[u] = "now" /\ online[u] =>
            downloads[u].state # "NONE" \/ request[u] \/ connectedEvent[u]

(* An attempt that is still CONNECTING is recent, "Recently sent request to  *)
(* connect" (ConnectionManager.h): the timer gives it up after 50 seconds.   *)
ConnectingIsRecent ==
    \A u \in Users :
        downloads[u].state = "CONNECTING" => downloads[u].since <= ConnectTimeout

(* "protocol error, don't reconnect except after a forced attempt"           *)
(* (on(Second)): the mark stays until a connection of that very user clears   *)
(* it; what other users do has no say.                                       *)
BarredUntilForced ==
    [][\A u \in Users :
          downloads[u].errors = -1 /\ downloads'[u].state # "NONE" =>
              \/ downloads'[u].errors = -1
              \/ \E c \in Conns : conn'[c] # conn[c] /\ u \in {Owner(c), Owner(c)'}]_vars

(* "Only one download per user..." (QueueManager::UserQueue::addDownload): a *)
(* download starts only when no other one of that user is registered.        *)
OneDownloadPerUser ==
    [][\A c \in Conns : conn'[c].download /\ ~conn[c].download
                           => Owner(c) \notin running]_vars

(* An attempt nobody answers comes to an end, unless the user forces a new   *)
(* one: the item leaves CONNECTING.                                          *)
AttemptEnds ==
    \A u \in Users :
        downloads[u].state = "CONNECTING" /\ downloads[u].errors >= 0
            ~> \/ downloads[u].state # "CONNECTING" \/ shuttingDown
               \/ downloads[u].since = Never

(* A connection that went idle although its user has something for us is     *)
(* put to use or given up: the wake-up that checkIdle misses between         *)
(* getDownload and idlers.push_back is made good by the minute timer.        *)
IdleConnectionIsUsed ==
    \A c \in Conns :
        Idler(c) /\ wanted[Owner(c)] = "now" /\ ~shuttingDown ~> ~Idler(c) \/ shuttingDown

(* "Wait until all connections have died out..." (shutdown) comes to an end. *)
ShutdownEnds == shuttingDown ~> userConnections = {}
==============================================================================
