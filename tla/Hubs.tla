---------------------------------- MODULE Hubs ----------------------------------
(***************************************************************************)
(* The hubs we are connected to, and the users on them: Client with AdcHub    *)
(* and NmdcHub, and ClientManager's list of all users online (Client.cpp,     *)
(* AdcHub.cpp, NmdcHub.cpp, ClientManager.cpp).                              *)
(*                                                                         *)
(* Each hub has a thread of its own, that of its socket, which keeps the       *)
(* promises of SocketCalls; the timer connects again and the user interface     *)
(* disconnects and closes hubs, and has the user list of an NMDC hub sent again.   *)
(***************************************************************************)
EXTENDS Naturals, FiniteSets

CONSTANTS
    Hubs,
    Adc,        \* those of them that speak ADC, the others speak NMDC
    Users,      \* by CID
    Me,         \* we ourselves
    Guests,     \* the users that may come to a hub
    Sids,       \* names of users on ADC hubs; on NMDC hubs the nick is the user
    Refreshes,  \* bound: how often the user has a hub's list sent again
    Env         \* "close": the timer runs while a hub is closed

(* makeCid makes the CID of an NMDC user from the nick and the hub, ours excepted. *)
ASSUME HubAssumption ==
    /\ Adc \subseteq Hubs /\ Me \in Users /\ Env \subseteq {"close"}
    /\ Guests \in [Hubs -> SUBSET Users] /\ Refreshes \in Nat
    /\ \A h \in Hubs, g \in Hubs \ Adc : h # g => Guests[h] \cap Guests[g] \subseteq {Me}

VARIABLES
    life,           \* of the hub's socket, see SocketCalls; "none" without one
    leaving,        \* was the socket told to disconnect
    state,          \* Client::state
    autoReconnect,
    counted,        \* countType: is the hub in counts
    users,          \* AdcHub::users, NmdcHub::users: <<name, user, n>>, an OnlineUser
    arriving,       \* that of them which getUser has still to put in onlineUsers
    putting,        \* what the thread has still to do in putOnline or putOffline, unlocked
    clearing,       \* what clearUsers still has to put offline
    failing,        \* the thread is in on(Failed)
    client,         \* "made", "open", "closing" (shutdown was called), "deleting", "deleted"
    refreshes,      \* how often refreshUserList was called: the n of new OnlineUsers
    refreshing,     \* what it still has to put offline: <<hub, OnlineUser>>
    dropping,       \* whom it, past the locked part of putOffline, takes the flag from
    onlineUsers,    \* ClientManager::onlineUsers: <<hub, OnlineUser>>
    online          \* users with the flag User::ONLINE

hubVars == <<life, leaving, state, autoReconnect, counted>>
window  == <<refreshes, refreshing, dropping>>
vars == <<hubVars, users, arriving, putting, clearing, failing, client, window, onlineUsers, online>>

Socket == INSTANCE SocketCalls WITH owned <- TRUE, heard <- <<>>

None == "none"
States == {"CONNECTING", "PROTOCOL", "IDENTIFY", "VERIFY", "NORMAL", "DISCONNECTED"}
Names == Sids \cup Users
Counts == 0 .. Refreshes
AllEntries == Names \X Users \X Counts
Entries(h) == IF h \in Adc THEN Sids \X Guests[h] \X Counts
              ELSE {<<u, u, n>> : u \in Guests[h] \cup {Me}, n \in Counts}

TypeOK ==
    /\ life \in [Hubs -> {None, "new", "trying", "up", "over"}]
    /\ state \in [Hubs -> States]
    /\ leaving \in [Hubs -> BOOLEAN] /\ autoReconnect \in [Hubs -> BOOLEAN]
    /\ counted \in [Hubs -> BOOLEAN] /\ failing \in [Hubs -> BOOLEAN]
    /\ \A list \in {users, arriving, clearing} :
          list \in [Hubs -> SUBSET AllEntries] /\ \A h \in Hubs : list[h] \subseteq Entries(h)
    /\ \A list \in {onlineUsers, refreshing} :
          list \subseteq Hubs \X AllEntries /\ \A x \in list : x[2] \in Entries(x[1])
    /\ putting \in [Hubs -> [what : {"", "on", "login", "off"}, who : Users]]
    /\ client \in [Hubs -> {"made", "open", "closing", "deleting", "deleted"}]
    /\ refreshes \in [Hubs -> Counts] /\ dropping \subseteq Users /\ online \subseteq Users

Done == [what |-> "", who |-> Me]

Init ==
    /\ life = [h \in Hubs |-> None] /\ leaving = [h \in Hubs |-> FALSE]
    /\ state = [h \in Hubs |-> "DISCONNECTED"]
    /\ autoReconnect = [h \in Hubs |-> FALSE]
    /\ counted = [h \in Hubs |-> FALSE] /\ failing = [h \in Hubs |-> FALSE]
    /\ users = [h \in Hubs |-> {}] /\ arriving = [h \in Hubs |-> {}] /\ clearing = [h \in Hubs |-> {}]
    /\ putting = [h \in Hubs |-> Done] /\ client = [h \in Hubs |-> "made"]
    /\ refreshes = [h \in Hubs |-> 0] /\ refreshing = {} /\ dropping = {}
    /\ onlineUsers = {} /\ online = {}

-----------------------------------------------------------------------------
(* The list of users online.                                                *)

OnHubs(u) == {e \in onlineUsers : e[2][2] = u}

(* getUser, for a name the hub has not, makes an OnlineUser ...                 *)
Add(h, name, u, then) ==
    LET entry == <<name, u, refreshes[h]>> IN
    /\ users' = [users EXCEPT ![h] = @ \cup {entry}] /\ arriving' = [arriving EXCEPT ![h] = {entry}]
    /\ putting' = [putting EXCEPT ![h] = [what |-> then, who |-> u]]
    /\ UNCHANGED <<clearing, failing, client, window, onlineUsers, online>>

(* ... that putOnline, under another lock, puts in the list of all.             *)
PutOnline(h) ==
    /\ arriving[h] # {}
    /\ onlineUsers' = onlineUsers \cup ({h} \X arriving[h])
    /\ arriving' = [arriving EXCEPT ![h] = {}]
    /\ UNCHANGED <<hubVars, users, putting, clearing, failing, client, window, online>>

(* The hub knows us: we are logged in.                                       *)
LogIn(h) ==
    /\ state' = [state EXCEPT ![h] = "NORMAL"] /\ counted' = [counted EXCEPT ![h] = TRUE]
    /\ autoReconnect' = IF h \in Adc THEN [autoReconnect EXCEPT ![h] = TRUE] ELSE autoReconnect
    /\ UNCHANGED <<life, leaving>>

(* Mutant: the entries are counted when the user's own is gone.                *)
PutOfflineLate(h, entry) ==
    /\ onlineUsers' = onlineUsers \ {<<h, entry>>}
    /\ putting' = IF Cardinality(OnHubs(entry[2]) \ {<<h, entry>>}) = 1
                  THEN [putting EXCEPT ![h] = [what |-> "off", who |-> entry[2]]] ELSE putting
    /\ UNCHANGED online

(* The locked part of putOffline: the user's last entry takes the flag later.   *)
PutOffline(h, entry) ==
    /\ onlineUsers' = onlineUsers \ {<<h, entry>>}
    /\ putting' = IF OnHubs(entry[2]) = {<<h, entry>>}
                  THEN [putting EXCEPT ![h] = [what |-> "off", who |-> entry[2]]] ELSE putting
    /\ UNCHANGED online

(* The rest of either: the flag, the event that goes with it, and what getUser   *)
(* was called for.                                                           *)
SetFlag(h) ==
    /\ putting[h].what # "" /\ arriving[h] = {}
    /\ online' = IF putting[h].what = "off" THEN online \ {putting[h].who}
                 ELSE online \cup {putting[h].who}
    /\ IF putting[h].what = "login" THEN LogIn(h) ELSE UNCHANGED hubVars
    /\ putting' = [putting EXCEPT ![h] = Done]
    /\ UNCHANGED <<users, arriving, clearing, failing, client, window, onlineUsers>>

(* clearUsers takes all users from the hub first, then puts them offline.      *)
Clear(h) ==
    /\ clearing' = [clearing EXCEPT ![h] = users[h]] /\ users' = [users EXCEPT ![h] = {}]

ClearUser(h) ==
    /\ putting[h] = Done
    /\ \E entry \in clearing[h] :
          PutOffline(h, entry) /\ clearing' = [clearing EXCEPT ![h] = @ \ {entry}]
    /\ UNCHANGED <<hubVars, users, arriving, failing, client, window>>

-----------------------------------------------------------------------------
(* The connection.                                                          *)

Move(h, to) == <<life[h], to>> \in Socket!Moves /\ life' = [life EXCEPT ![h] = to]

(* The socket's thread is not in a callback.                                 *)
Idle(h) == putting[h] = Done /\ clearing[h] = {} /\ ~failing[h]

Connecting(h) ==
    /\ Idle(h) /\ life[h] = "new" /\ Move(h, "trying")
    /\ UNCHANGED <<leaving, state, autoReconnect, counted, users, arriving, putting, clearing, failing,
                   client, window, onlineUsers, online>>

Connected(h) ==
    /\ Idle(h) /\ life[h] = "trying" /\ Move(h, "up")
    /\ state' = [state EXCEPT ![h] = "PROTOCOL"]
    /\ UNCHANGED <<leaving, autoReconnect, counted, users, arriving, putting, clearing, failing,
                   client, window, onlineUsers, online>>

(* Mutant: the users stay.                                                  *)
FailedOnly(h) ==
    /\ Idle(h) /\ Move(h, "over")
    /\ failing' = [failing EXCEPT ![h] = TRUE] /\ UNCHANGED <<users, clearing>>
    /\ UNCHANGED <<leaving, state, autoReconnect, counted, arriving, putting, client, window, onlineUsers, online>>

(* on(Failed) clears the users first ...                                     *)
Failed(h) ==
    /\ Idle(h) /\ Move(h, "over")
    /\ failing' = [failing EXCEPT ![h] = TRUE] /\ Clear(h)
    /\ UNCHANGED <<leaving, state, autoReconnect, counted, arriving, putting, client, window, onlineUsers, online>>

(* Mutants: the hub stays counted, or stays in its state.                      *)
DisconnectedCounted(h) ==
    /\ failing[h] /\ putting[h] = Done /\ clearing[h] = {}
    /\ state' = [state EXCEPT ![h] = "DISCONNECTED"] /\ failing' = [failing EXCEPT ![h] = FALSE]
    /\ UNCHANGED <<life, leaving, autoReconnect, counted, users, arriving, putting, clearing, client,
                   window, onlineUsers, online>>

DisconnectedUnsaid(h) ==
    /\ failing[h] /\ putting[h] = Done /\ clearing[h] = {}
    /\ failing' = [failing EXCEPT ![h] = FALSE]
    /\ UNCHANGED <<life, leaving, state, autoReconnect, counted, users, arriving, putting, clearing, client,
                   window, onlineUsers, online>>

(* ... and then says that the hub is disconnected; only NmdcHub counts it out.   *)
Disconnected(h) ==
    /\ failing[h] /\ putting[h] = Done /\ clearing[h] = {}
    /\ state' = [state EXCEPT ![h] = "DISCONNECTED"]
    /\ counted' = IF h \in Adc THEN counted ELSE [counted EXCEPT ![h] = FALSE]
    /\ failing' = [failing EXCEPT ![h] = FALSE]
    /\ UNCHANGED <<life, leaving, autoReconnect, users, arriving, putting, clearing, client,
                   window, onlineUsers, online>>

(* connect: what was before is put back; without a socket the hub is            *)
(* disconnected at once.                                                     *)
Connect(h) ==
    /\ autoReconnect' = [autoReconnect EXCEPT ![h] = TRUE]
    /\ leaving' = [leaving EXCEPT ![h] = FALSE]
    /\ \/ state' = [state EXCEPT ![h] = "CONNECTING"] /\ life' = [life EXCEPT ![h] = "new"]
       \/ state' = [state EXCEPT ![h] = "DISCONNECTED"] /\ life' = [life EXCEPT ![h] = None]
    /\ UNCHANGED <<counted, users, arriving, putting, clearing, failing, window, onlineUsers, online>>

(* The window that made the hub connects it.                                 *)
Open(h) ==
    /\ client[h] = "made" /\ client' = [client EXCEPT ![h] = "open"]
    /\ Connect(h)

(* Client::on(Second), once the delay is over: putSocket waits for a callback.    *)
(* The timer forgets the hub in ~AdcHub or in ~Client only.                    *)
Second(h) ==
    /\ state[h] = "DISCONNECTED" /\ autoReconnect[h] /\ Idle(h)
    /\ client[h] = "open" \/ ("close" \in Env /\ client[h] = "closing")
    /\ Connect(h) /\ UNCHANGED client

Leave(h) == leaving' = IF life[h] # None THEN [leaving EXCEPT ![h] = TRUE] ELSE leaving

Disconnect(h) ==
    /\ client[h] = "open" /\ Leave(h)
    /\ UNCHANGED <<life, state, autoReconnect, counted, users, arriving, putting, clearing, failing,
                   client, window, onlineUsers, online>>

Reconnect(h) ==
    /\ client[h] = "open" /\ Leave(h)
    /\ autoReconnect' = [autoReconnect EXCEPT ![h] = TRUE]
    /\ UNCHANGED <<life, state, counted, users, arriving, putting, clearing, failing, client, window,
                   onlineUsers, online>>

(* putClient: shutdown waits for a callback to return, then the hub is deleted.  *)
Shutdown(h) ==
    /\ client[h] = "open" /\ Idle(h)
    /\ client' = [client EXCEPT ![h] = "closing"]
    /\ life' = [life EXCEPT ![h] = None] /\ leaving' = [leaving EXCEPT ![h] = FALSE]
    /\ UNCHANGED <<state, autoReconnect, counted, users, arriving, putting, clearing, failing, window,
                   onlineUsers, online>>

Destroy(h) ==
    /\ client[h] = "closing" /\ Idle(h)
    /\ client' = [client EXCEPT ![h] = "deleting"] /\ Clear(h)
    /\ UNCHANGED <<hubVars, arriving, putting, failing, window, onlineUsers, online>>

Deleted(h) ==
    /\ client[h] = "deleting" /\ Idle(h)
    /\ client' = [client EXCEPT ![h] = "deleted"]
    /\ counted' = [counted EXCEPT ![h] = FALSE]
    /\ UNCHANGED <<life, leaving, state, autoReconnect, users, arriving, putting, clearing, failing,
                   window, onlineUsers, online>>

(* Mutant: the users are put offline and stay on the hub's list.                *)
RefreshListed(h) ==
    /\ h \notin Adc /\ client[h] = "open" /\ state[h] # "DISCONNECTED"
    /\ refreshes[h] < Refreshes /\ refreshes' = [refreshes EXCEPT ![h] = @ + 1]
    /\ refreshing' = {h} \X users[h]
    /\ UNCHANGED <<hubVars, users, arriving, putting, clearing, failing, client, dropping, onlineUsers, online>>

(* NmdcHub::refreshUserList(false), on the thread of the window: it clears the     *)
(* users as on(Failed) does, whatever the hub's thread is doing, and asks for the   *)
(* list again.                                                               *)
RefreshUserList(h) ==
    /\ h \notin Adc /\ client[h] = "open" /\ state[h] # "DISCONNECTED"
    /\ refreshes[h] < Refreshes /\ refreshes' = [refreshes EXCEPT ![h] = @ + 1]
    /\ refreshing' = {h} \X users[h] /\ users' = [users EXCEPT ![h] = {}]
    /\ UNCHANGED <<hubVars, arriving, putting, clearing, failing, client, dropping, onlineUsers, online>>

RefreshUser ==
    /\ dropping = {}
    /\ \E x \in refreshing :
          /\ refreshing' = refreshing \ {x} /\ onlineUsers' = onlineUsers \ {x}
          /\ dropping' = IF OnHubs(x[2][2]) = {x} THEN {x[2][2]} ELSE {}
    /\ UNCHANGED <<hubVars, users, arriving, putting, clearing, failing, client, refreshes, online>>

RefreshFlag ==
    /\ dropping # {} /\ dropping' = {} /\ online' = online \ dropping
    /\ UNCHANGED <<hubVars, users, arriving, putting, clearing, failing, client, refreshes, refreshing,
                   onlineUsers>>

-----------------------------------------------------------------------------
(* What the hub sends.                                                      *)

Hears(h) == life[h] = "up" /\ Idle(h)
Known(h, name) == {e \in users[h] : e[1] = name}

SetState(h, from, to) ==
    /\ state[h] \in from /\ state' = [state EXCEPT ![h] = to]
    /\ UNCHANGED <<life, leaving, autoReconnect, counted>>

Lists == <<users, arriving, putting, clearing, failing, client, window, onlineUsers, online>>

(* AdcHub: SID and GPA.                                                      *)
Identify(h) ==
    /\ h \in Adc /\ Hears(h)
    /\ SetState(h, {"PROTOCOL"}, "IDENTIFY") \/ SetState(h, States, "VERIFY")
    /\ UNCHANGED Lists

(* Mutant: the CID is taken for the name.                                      *)
InfByCid(h, sid, u) ==
    /\ h \in Adc /\ Hears(h)
    /\ \/ /\ Known(h, u) = {} /\ Add(h, u, u, IF u = Me THEN "login" ELSE "on")
          /\ UNCHANGED hubVars
       \/ /\ \E e \in Known(h, u) : e[2] = Me
          /\ LogIn(h) /\ UNCHANGED Lists

(* AdcHub: INF. A CID that comes under a second name is refused, and a name that *)
(* comes with a second CID stays with its first; our own means that we are in.    *)
Inf(h, sid, u) ==
    /\ h \in Adc /\ Hears(h)
    /\ \A e \in users[h] : e[2] = u => e[1] = sid
    /\ \/ /\ Known(h, sid) = {} /\ Add(h, sid, u, IF u = Me THEN "login" ELSE "on")
          /\ UNCHANGED hubVars
       \/ /\ \E e \in Known(h, sid) : e[2] = Me
          /\ LogIn(h) /\ UNCHANGED Lists

(* NmdcHub: Lock makes us a user, $Hello, $NickList, $MyINFO and others the users    *)
(* they name, and our own $Hello logs us in.                                  *)
Lock(h) ==
    /\ h \notin Adc /\ Hears(h) /\ SetState(h, {"PROTOCOL"}, "IDENTIFY")
    /\ IF Known(h, Me) = {} THEN Add(h, Me, Me, "on") ELSE UNCHANGED Lists

Nick(h, u) ==
    /\ h \notin Adc /\ Hears(h) /\ Known(h, u) = {}
    /\ Add(h, u, u, "on") /\ UNCHANGED hubVars

Hello(h) ==
    /\ h \notin Adc /\ Hears(h) /\ state[h] = "IDENTIFY"
    /\ IF Known(h, Me) = {} THEN Add(h, Me, Me, "login") /\ UNCHANGED hubVars
       ELSE LogIn(h) /\ UNCHANGED Lists

OpList(h) ==
    /\ h \notin Adc /\ Hears(h)
    /\ counted' = [counted EXCEPT ![h] = TRUE]
    /\ UNCHANGED <<life, leaving, state, autoReconnect, Lists>>

(* QUI and $Quit; one that is for us may tell whether to come back.             *)
Quit(h, name) ==
    /\ Hears(h)
    /\ \E entry \in Known(h, name) :
          /\ users' = [users EXCEPT ![h] = @ \ {entry}] /\ PutOffline(h, entry)
          /\ \E again \in IF h \in Adc /\ entry[2] = Me THEN BOOLEAN ELSE {autoReconnect[h]} :
                autoReconnect' = [autoReconnect EXCEPT ![h] = again]
    /\ UNCHANGED <<life, leaving, state, counted, arriving, clearing, failing, client, window>>

(* A hub that bans us before we are in.                                       *)
Banned(h) ==
    /\ h \notin Adc /\ Hears(h) /\ state[h] # "NORMAL"
    /\ autoReconnect' = [autoReconnect EXCEPT ![h] = FALSE]
    /\ UNCHANGED <<life, leaving, state, counted, Lists>>

Line(h) ==
    \/ Identify(h) \/ Lock(h) \/ Hello(h) \/ OpList(h) \/ Banned(h)
    \/ \E u \in Guests[h] : Nick(h, u) \/ \E sid \in Sids : Inf(h, sid, u)
    \/ \E name \in Names : Quit(h, name)

Thread(h) ==
    \/ PutOnline(h) \/ SetFlag(h) \/ ClearUser(h) \/ Connecting(h) \/ Connected(h) \/ Failed(h)
    \/ Disconnected(h) \/ Line(h)

(* The window does one thing at a time.                                      *)
Window(h) ==
    /\ refreshing = {} /\ dropping = {}
    /\ \/ Open(h) \/ Disconnect(h) \/ Reconnect(h) \/ Shutdown(h) \/ Destroy(h) \/ Deleted(h)
       \/ RefreshUserList(h)

Next ==
    \/ \E h \in Hubs : Thread(h) \/ Second(h) \/ Window(h)
    \/ RefreshUser \/ RefreshFlag

Spec == Init /\ [][Next]_vars

(* Callbacks return, the timer ticks, and sockets keep the promises of            *)
(* SocketCalls: what was told to disconnect fails, between two other callbacks.   *)
Fairness == \A h \in Hubs :
    /\ WF_vars(PutOnline(h)) /\ WF_vars(SetFlag(h)) /\ WF_vars(ClearUser(h)) /\ WF_vars(Disconnected(h))
    /\ WF_vars(Connecting(h)) /\ SF_vars(leaving[h] /\ Failed(h)) /\ WF_vars(Second(h))
FairSpec == Spec /\ Fairness

-----------------------------------------------------------------------------
(* The list of all users online has everybody whom a hub's own list has, in the     *)
(* middle of a clear too, once per hub, but for whom getUser has just made.  It     *)
(* has nobody else of a hub whose list was never refreshed (putUser, clearUsers,    *)
(* getUser; see PutOfflineFinds for whom a refresh leaves behind).             *)
ListIsUnion ==
    \A h \in Hubs :
        LET listed == {e[2] : e \in {x \in onlineUsers : x[1] = h}}
            own    == (users[h] \cup clearing[h]) \ arriving[h]
        IN  /\ own \subseteq listed /\ (refreshes[h] = 0 => listed \subseteq own)
            /\ users[h] = {} \/ clearing[h] = {}
            /\ \A e, f \in users[h] : e[1] = f[1] \/ e[2] = f[2] => e = f

(* The user may be on a hub whose list was refreshed.                         *)
Refreshed(u) == \E h \in Hubs \ Adc : refreshes[h] > 0 /\ u \in Guests[h] \cup {Me}

(* Whoever has the flag is on some hub, or just about to lose it: nobody stays     *)
(* online after the last hub they left, whatever two hubs' threads do between the    *)
(* locks, as long as the window does not refresh a list the user is on.         *)
OnlineIsListed ==
    \A u \in online : \/ OnHubs(u) # {} \/ \E h \in Hubs : putting[h] = [what |-> "off", who |-> u]
                      \/ Refreshed(u)

(* "User offline in all hubs" (ClientManagerListener.h:43): who lost the flag is    *)
(* on no hub, once nobody is in the middle of setting it.                      *)
OfflineIsUnlisted ==
    \A u \in Users \ online : (\A h \in Hubs : putting[h].who # u \/ putting[h] = Done) => OnHubs(u) = {}

(* dcassert(op.first != op.second) in putOffline (ClientManager.cpp:335): who is     *)
(* put offline is in the list of all.                                        *)
PutOfflineFinds ==
    [][/\ \A x \in refreshing \ refreshing' : OnHubs(x[2][2]) # {}
       /\ \A h \in Hubs : \A e \in clearing[h] \ clearing'[h] : OnHubs(e[2]) # {}]_vars

(* A hub that is logged in has a connection, and one that is disconnected has      *)
(* neither a connection nor users, or the timer would connect it a second time.   *)
StateIsTrue ==
    \A h \in Hubs : client[h] = "open" /\ ~failing[h] =>
        /\ state[h] \in {"PROTOCOL", "IDENTIFY", "VERIFY", "NORMAL"} <=> life[h] = "up"
        /\ state[h] = "DISCONNECTED" => life[h] \in {None, "over"} /\ users[h] = {}

(* An NMDC hub that is down is not counted, so that slots per hub are not given     *)
(* for it (updateCounts, UploadManager::getSlots).                            *)
CountedIsUp ==
    \A h \in Hubs \ Adc : counted[h] /\ client[h] = "open" => life[h] = "up" \/ failing[h]

(* dcassert(!sock) in ~Client (Client.cpp:60).                                 *)
NoSocketLeft == \A h \in Hubs : client[h] = "deleted" => life[h] = None

(* Who asks to reconnect gets a new connection, unless told not to come back.     *)
ReconnectHappens ==
    \A h \in Hubs : leaving[h] /\ autoReconnect[h] ~> ~leaving[h] \/ ~autoReconnect[h]
================================================================================
