------------------------------- MODULE HubsProofs -------------------------------
(***************************************************************************)
(* Proofs about Hubs, for any hubs, users and names: the types, then the       *)
(* lists of users, then the states of the hubs. Nothing is assumed of Env but   *)
(* in NoSocketLeft's theorem, which the timer breaks; what a refresh of a list    *)
(* breaks is left out by the properties themselves.                            *)
(***************************************************************************)
EXTENDS Hubs, TLAPS

-----------------------------------------------------------------------------
(* Types.                                                                   *)

PuttingType == [what : {"", "on", "login", "off"}, who : Users]

HubTypes ==
    /\ life \in [Hubs -> {None, "new", "trying", "up", "over"}]
    /\ state \in [Hubs -> States]
    /\ leaving \in [Hubs -> BOOLEAN] /\ autoReconnect \in [Hubs -> BOOLEAN]
    /\ counted \in [Hubs -> BOOLEAN]

ListType(list) == list \in [Hubs -> SUBSET AllEntries] /\ \A h \in Hubs : list[h] \subseteq Entries(h)
UserTypes == ListType(users) /\ ListType(arriving) /\ ListType(clearing)

AllType(list) == list \subseteq Hubs \X AllEntries /\ \A x \in list : x[2] \in Entries(x[1])
PuttingTypes == putting \in [Hubs -> PuttingType] /\ AllType(onlineUsers) /\ online \subseteq Users
WindowTypes == refreshes \in [Hubs -> Counts] /\ AllType(refreshing) /\ dropping \subseteq Users

PhaseTypes ==
    /\ failing \in [Hubs -> BOOLEAN]
    /\ client \in [Hubs -> {"made", "open", "closing", "deleting", "deleted"}]

(* The parts are the type invariant, before and after a step.                  *)
LEMMA Parts == TypeOK <=> HubTypes /\ UserTypes /\ PuttingTypes /\ WindowTypes /\ PhaseTypes
BY Zenon DEF TypeOK, HubTypes, UserTypes, PuttingTypes, WindowTypes, PhaseTypes, PuttingType, ListType, AllType

LEMMA PartsNext == TypeOK' <=> HubTypes' /\ UserTypes' /\ PuttingTypes' /\ WindowTypes' /\ PhaseTypes'
BY Parts, PTL

LEMMA HubsUnchanged == HubTypes /\ UNCHANGED hubVars => HubTypes'
BY DEF HubTypes, hubVars, States

LEMMA UsersUnchanged == UserTypes /\ UNCHANGED <<users, arriving, clearing>> => UserTypes'
BY DEF UserTypes, ListType, Entries

LEMMA OnlineUnchanged == PuttingTypes /\ UNCHANGED <<putting, onlineUsers, online>> => PuttingTypes'
BY DEF PuttingTypes, AllType, Entries

LEMMA WindowUnchanged == WindowTypes /\ UNCHANGED window => WindowTypes'
BY DEF WindowTypes, window, AllType, Entries

LEMMA ListsUnchanged ==
    TypeOK /\ UNCHANGED Lists => UserTypes' /\ PuttingTypes' /\ WindowTypes' /\ PhaseTypes'
BY Parts, UsersUnchanged, OnlineUnchanged, WindowUnchanged DEF PhaseTypes, Lists

LEMMA EntryType ==
    ASSUME NEW h \in Hubs, NEW entry \in Entries(h)
    PROVE  /\ entry[1] \in Names /\ entry[2] \in Users /\ entry \in AllEntries
           /\ entry = <<entry[1], entry[2], entry[3]>> /\ entry[3] \in Nat
BY HubAssumption DEF Entries, Names, AllEntries, Counts

LEMMA DoneType == Done \in PuttingType
BY HubAssumption DEF Done, PuttingType

LEMMA TypeInit == Init => TypeOK
<1> SUFFICES ASSUME Init PROVE TypeOK
  OBVIOUS
<1>1. UserTypes
  BY DEF Init, UserTypes, ListType
<1>2. PuttingTypes /\ WindowTypes /\ PhaseTypes
  BY HubAssumption, DoneType DEF Init, PuttingTypes, WindowTypes, PhaseTypes, AllType, Counts
<1>3. HubTypes
  BY DEF Init, HubTypes, States, None
<1> QED BY <1>1, <1>2, <1>3, Parts

(* One hub's entries are changed, to entries of that hub; or the list of all is.   *)
LEMMA ListChanged ==
    ASSUME NEW list, NEW later, ListType(list), NEW h \in Hubs, NEW new, new \subseteq Entries(h),
           later = [list EXCEPT ![h] = new]
    PROVE  ListType(later)
<1>1. new \subseteq AllEntries
  BY EntryType
<1>2. later \in [Hubs -> SUBSET AllEntries]
  BY <1>1 DEF ListType
<1>3. \A g \in Hubs : later[g] \subseteq Entries(g)
  BY DEF ListType
<1> QED BY <1>2, <1>3 DEF ListType

LEMMA ListEmptied ==
    ASSUME NEW list, NEW later, ListType(list), NEW h \in Hubs, later = [list EXCEPT ![h] = {}]
    PROVE  ListType(later)
BY DEF ListType

LEMMA UserTypesNext ==
    UserTypes' <=> ListType(users') /\ ListType(arriving') /\ ListType(clearing')
BY DEF UserTypes, ListType, Entries

LEMMA OnlineTypesNext ==
    /\ AllType(onlineUsers)' <=> AllType(onlineUsers')
    /\ AllType(refreshing)' <=> AllType(refreshing')
BY DEF AllType, Entries

LEMMA AddType ==
    ASSUME TypeOK, NEW h \in Hubs, NEW name, NEW u, <<name, u, refreshes[h]>> \in Entries(h),
           NEW then \in {"on", "login"}, Add(h, name, u, then)
    PROVE  UserTypes' /\ PuttingTypes' /\ WindowTypes' /\ PhaseTypes'
<1> USE Parts DEF UserTypes
<1> DEFINE entry == <<name, u, refreshes[h]>>
<1>1. [what |-> then, who |-> u] \in PuttingType
  <2>1. entry[2] \in Users
    BY EntryType
  <2> QED BY <2>1 DEF PuttingType
<1>2. putting' \in [Hubs -> PuttingType]
  BY <1>1 DEF Add, PuttingTypes
<1>3. users[h] \cup {entry} \subseteq Entries(h) /\ {entry} \subseteq Entries(h)
  BY DEF ListType
<1>4. users' = [users EXCEPT ![h] = users[h] \cup {entry}] /\ arriving' = [arriving EXCEPT ![h] = {entry}]
  BY DEF Add
<1> HIDE DEF entry
<1>5. ListType(users') /\ ListType(arriving')
  BY <1>3, <1>4, ListChanged
<1>6. UserTypes'
  BY <1>5, UserTypesNext DEF Add
<1> QED BY <1>2, <1>6, WindowUnchanged, OnlineTypesNext DEF Add, PuttingTypes, PhaseTypes

LEMMA PutOnlineType ==
    ASSUME TypeOK, NEW h \in Hubs, PutOnline(h)
    PROVE  TypeOK'
<1> USE Parts, PartsNext DEF UserTypes
<1>1. ListType(arriving')
  BY ListEmptied DEF PutOnline
<1>2. AllType(onlineUsers')
  <2>1. \A e \in arriving[h] : e \in Entries(h) /\ e \in AllEntries
    BY DEF ListType
  <2>2. ASSUME NEW x \in onlineUsers' PROVE x \in Hubs \X AllEntries /\ x[2] \in Entries(x[1])
    BY <2>1, <2>2 DEF PutOnline, PuttingTypes, AllType
  <2> QED BY <2>2 DEF AllType
<1>3. UserTypes'
  BY <1>1, UserTypesNext DEF PutOnline
<1>4. PuttingTypes'
  BY <1>2, OnlineTypesNext DEF PutOnline, PuttingTypes
<1> QED BY <1>3, <1>4, HubsUnchanged, WindowUnchanged DEF PutOnline, PhaseTypes

LEMMA LogInType ==
    ASSUME TypeOK, NEW h \in Hubs, LogIn(h)
    PROVE  HubTypes'
BY Parts DEF LogIn, HubTypes, States

LEMMA SetStateType ==
    ASSUME TypeOK, NEW h \in Hubs, NEW from, NEW to \in States, SetState(h, from, to)
    PROVE  HubTypes'
BY Parts DEF SetState, HubTypes

LEMMA PutOfflineType ==
    ASSUME TypeOK, NEW h \in Hubs, NEW entry \in Entries(h), PutOffline(h, entry)
    PROVE  PuttingTypes'
<1>1. [what |-> "off", who |-> entry[2]] \in PuttingType
  BY EntryType DEF PuttingType
<1>2. putting' \in [Hubs -> PuttingType]
  BY <1>1, Parts DEF PutOffline, PuttingTypes
<1>3. AllType(onlineUsers')
  BY Parts DEF PutOffline, PuttingTypes, AllType
<1> QED BY <1>2, <1>3, OnlineTypesNext, Parts DEF PutOffline, PuttingTypes

(* The steps of the connection and of the window.                              *)
LEMMA ConnectionType ==
    ASSUME TypeOK, NEW h \in Hubs,
           \/ Connecting(h) \/ Connected(h) \/ Disconnected(h) \/ Open(h) \/ Second(h)
           \/ Disconnect(h) \/ Reconnect(h) \/ Shutdown(h) \/ Deleted(h)
    PROVE  TypeOK'
<1> USE Parts, PartsNext
<1>1. UNCHANGED <<users, arriving, putting, clearing, window, onlineUsers, online>>
  BY DEF Connecting, Connected, Disconnected, Open, Second, Connect, Disconnect, Reconnect, Shutdown, Deleted
<1>2. UserTypes' /\ PuttingTypes' /\ WindowTypes'
  BY <1>1, UsersUnchanged, OnlineUnchanged, WindowUnchanged
<1>3. CASE Connecting(h) \/ Connected(h)
  BY <1>2, <1>3 DEF HubTypes, PhaseTypes, Connecting, Connected, Move, States
<1>4. CASE Disconnected(h)
  BY <1>2, <1>4 DEF HubTypes, PhaseTypes, Disconnected, States
<1>5. CASE Open(h) \/ Second(h)
  BY <1>2, <1>5 DEF HubTypes, PhaseTypes, Open, Second, Connect, States
<1>6. CASE Disconnect(h) \/ Reconnect(h)
  BY <1>2, <1>6 DEF HubTypes, PhaseTypes, Disconnect, Reconnect, Leave
<1>7. CASE Shutdown(h) \/ Deleted(h)
  BY <1>2, <1>7 DEF HubTypes, PhaseTypes, Shutdown, Deleted
<1> QED BY <1>3, <1>4, <1>5, <1>6, <1>7

LEMMA ClearType ==
    ASSUME TypeOK, NEW h \in Hubs, Failed(h) \/ Destroy(h)
    PROVE  TypeOK'
<1> USE Parts, PartsNext
<1>1. UserTypes'
  <2>1. users[h] \subseteq Entries(h) /\ {} \subseteq Entries(h)
    BY DEF UserTypes, ListType
  <2>2. ListType(users') /\ ListType(clearing')
    BY <2>1, ListChanged DEF Failed, Destroy, Clear, UserTypes
  <2> QED BY <2>2, UserTypesNext DEF Failed, Destroy, UserTypes
<1>2. HubTypes'
  BY DEF HubTypes, Failed, Destroy, Move, hubVars
<1>3. PuttingTypes' /\ WindowTypes' /\ PhaseTypes'
  BY OnlineUnchanged, WindowUnchanged DEF PhaseTypes, Failed, Destroy
<1> QED BY <1>1, <1>2, <1>3

LEMMA ClearUserType ==
    ASSUME TypeOK, NEW h \in Hubs, ClearUser(h)
    PROVE  TypeOK'
<1> USE Parts, PartsNext
<1>1. PICK entry \in clearing[h] :
         PutOffline(h, entry) /\ clearing' = [clearing EXCEPT ![h] = @ \ {entry}]
  BY DEF ClearUser
<1>2. entry \in Entries(h)
  BY DEF UserTypes, ListType
<1>3. UserTypes'
  <2>1. clearing[h] \ {entry} \subseteq Entries(h)
    BY DEF UserTypes, ListType
  <2>2. ListType(clearing')
    BY <1>1, <2>1, ListChanged DEF UserTypes
  <2> QED BY <2>2, UserTypesNext DEF ClearUser, UserTypes
<1>4. PuttingTypes'
  BY <1>1, <1>2, PutOfflineType
<1> QED BY <1>3, <1>4, HubsUnchanged, WindowUnchanged DEF ClearUser, PhaseTypes

LEMMA SetFlagType ==
    ASSUME TypeOK, NEW h \in Hubs, SetFlag(h)
    PROVE  TypeOK'
<1> USE Parts, PartsNext
<1>1. putting[h].who \in Users
  BY DEF PuttingTypes, PuttingType
<1>2. PuttingTypes'
  BY <1>1, DoneType, OnlineTypesNext DEF SetFlag, PuttingTypes
<1>3. HubTypes'
  BY LogInType, HubsUnchanged DEF SetFlag
<1> QED BY <1>2, <1>3, UsersUnchanged, WindowUnchanged DEF SetFlag, PhaseTypes

LEMMA QuitType ==
    ASSUME TypeOK, NEW h \in Hubs, NEW name, Quit(h, name)
    PROVE  TypeOK'
<1> USE Parts, PartsNext
<1>1. PICK entry \in Known(h, name) :
         /\ users' = [users EXCEPT ![h] = @ \ {entry}] /\ PutOffline(h, entry)
         /\ \E again \in IF h \in Adc /\ entry[2] = Me THEN BOOLEAN ELSE {autoReconnect[h]} :
                autoReconnect' = [autoReconnect EXCEPT ![h] = again]
  BY DEF Quit
<1>2. entry \in Entries(h)
  BY DEF UserTypes, ListType, Known
<1>3. UserTypes'
  <2>1. users[h] \ {entry} \subseteq Entries(h)
    BY DEF UserTypes, ListType
  <2>2. ListType(users')
    BY <1>1, <2>1, ListChanged DEF UserTypes
  <2> QED BY <2>2, UserTypesNext DEF Quit, UserTypes
<1>4. HubTypes'
  BY <1>1 DEF HubTypes, Quit
<1>5. PuttingTypes'
  BY <1>1, <1>2, PutOfflineType
<1> QED BY <1>3, <1>4, <1>5, WindowUnchanged DEF Quit, PhaseTypes

(* The steps of the window that refreshes a list.                              *)
LEMMA RefreshType ==
    ASSUME TypeOK, (\E h \in Hubs : RefreshUserList(h)) \/ RefreshUser \/ RefreshFlag
    PROVE  TypeOK'
<1> USE Parts, PartsNext
<1>1. ASSUME NEW h \in Hubs, RefreshUserList(h) PROVE TypeOK'
  <2>1. ListType(users')
    BY <1>1, ListEmptied DEF RefreshUserList, UserTypes
  <2>2. UserTypes'
    BY <1>1, <2>1, UserTypesNext DEF RefreshUserList, UserTypes
  <2>3. AllType(refreshing)'
    BY <1>1 DEF RefreshUserList, UserTypes, ListType, AllType, Entries
  <2>4. refreshes' \in [Hubs -> Counts]
    BY <1>1, HubAssumption DEF RefreshUserList, WindowTypes, Counts
  <2>5. PuttingTypes'
    BY <1>1, OnlineUnchanged DEF RefreshUserList
  <2> QED BY <1>1, <2>2, <2>3, <2>4, <2>5, HubsUnchanged DEF RefreshUserList, WindowTypes, PhaseTypes
<1>2. CASE RefreshUser
  <2>1. PICK x \in refreshing :
           /\ refreshing' = refreshing \ {x} /\ onlineUsers' = onlineUsers \ {x}
           /\ dropping' = IF OnHubs(x[2][2]) = {x} THEN {x[2][2]} ELSE {}
    BY <1>2 DEF RefreshUser
  <2>2. x[2] \in Entries(x[1]) /\ x[1] \in Hubs
    BY DEF WindowTypes, AllType
  <2>3. dropping' \subseteq Users
    BY <2>1, <2>2, EntryType
  <2>4. refreshing' \subseteq refreshing /\ onlineUsers' \subseteq onlineUsers
    BY <2>1
  <2>5. AllType(refreshing)' /\ AllType(onlineUsers)'
    <3>1. AllType(refreshing') /\ AllType(onlineUsers')
      BY <2>4 DEF WindowTypes, PuttingTypes, AllType
    <3> QED BY <3>1, OnlineTypesNext
  <2> QED BY <1>2, <2>3, <2>5, HubsUnchanged, UsersUnchanged
          DEF RefreshUser, WindowTypes, PuttingTypes, PhaseTypes
<1>3. CASE RefreshFlag
  <2>1. PuttingTypes'
    BY <1>3, OnlineTypesNext DEF RefreshFlag, PuttingTypes
  <2>2. WindowTypes'
    BY <1>3 DEF RefreshFlag, WindowTypes, AllType, Entries
  <2> QED BY <1>3, <2>1, <2>2, HubsUnchanged, UsersUnchanged DEF RefreshFlag, PhaseTypes
<1> QED BY <1>1, <1>2, <1>3

(* Our guests and we ourselves have entries on the hub.                        *)
LEMMA Newcomers ==
    ASSUME TypeOK, NEW h \in Hubs
    PROVE  /\ \A u \in Guests[h], sid \in Sids : h \in Adc => <<sid, u, refreshes[h]>> \in Entries(h)
           /\ \A u \in Guests[h] : h \notin Adc => <<u, u, refreshes[h]>> \in Entries(h)
           /\ h \notin Adc => <<Me, Me, refreshes[h]>> \in Entries(h)
<1>1. refreshes[h] \in Counts
  BY Parts DEF WindowTypes
<1> QED BY <1>1 DEF Entries

LEMMA LineType ==
    ASSUME TypeOK, NEW h \in Hubs, Line(h)
    PROVE  TypeOK'
<1> USE PartsNext
<1>h. TypeOK /\ UNCHANGED hubVars => HubTypes'
  BY Parts, HubsUnchanged
<1>1. CASE Identify(h)
  <2>1. HubTypes'
    BY <1>1, SetStateType DEF Identify, States
  <2> QED BY <1>1, <2>1, ListsUnchanged DEF Identify
<1>2. CASE Lock(h)
  <2>1. HubTypes'
    BY <1>2, SetStateType DEF Lock, States
  <2> QED BY <1>2, <2>1, Newcomers, AddType, ListsUnchanged DEF Lock
<1>3. CASE Hello(h)
  BY <1>3, <1>h, LogInType, Newcomers, AddType, ListsUnchanged DEF Hello
<1>4. CASE OpList(h) \/ Banned(h)
  <2>1. HubTypes'
    BY <1>4, Parts DEF OpList, Banned, HubTypes
  <2>2. UNCHANGED Lists
    BY <1>4 DEF OpList, Banned
  <2> QED BY <2>1, <2>2, ListsUnchanged
<1>5. CASE \E u \in Guests[h] : Nick(h, u)
  BY <1>5, <1>h, Newcomers, AddType DEF Nick
<1>6. ASSUME NEW u \in Guests[h], NEW sid \in Sids, Inf(h, sid, u) PROVE TypeOK'
  BY <1>6, <1>h, LogInType, Newcomers, AddType, ListsUnchanged DEF Inf
<1>7. CASE \E name \in Names : Quit(h, name)
  BY <1>7, QuitType
<1> QED BY <1>1, <1>2, <1>3, <1>4, <1>5, <1>6, <1>7 DEF Line

LEMMA TypeStep == TypeOK /\ [Next]_vars => TypeOK'
<1> SUFFICES ASSUME TypeOK, [Next]_vars PROVE TypeOK'
  OBVIOUS
<1>1. CASE UNCHANGED vars
  <2>1. UNCHANGED hubVars /\ UNCHANGED Lists
    BY <1>1 DEF vars, Lists, hubVars
  <2> QED BY <2>1, Parts, PartsNext, HubsUnchanged, ListsUnchanged
<1>2. ASSUME NEW h \in Hubs, Thread(h) PROVE TypeOK'
  BY <1>2, PutOnlineType, SetFlagType, ClearUserType, ConnectionType, ClearType, LineType DEF Thread
<1>3. ASSUME NEW h \in Hubs, Second(h) \/ Window(h) PROVE TypeOK'
  BY <1>3, ConnectionType, ClearType, RefreshType DEF Window
<1> QED BY <1>1, <1>2, <1>3, RefreshType DEF Next

(* Types hold of all hubs, whatever they send and whoever closes them.          *)
THEOREM TypesAlways == Spec => []TypeOK
BY TypeInit, TypeStep, PTL DEF Spec

-----------------------------------------------------------------------------
(* The lists of users.                                                       *)

Listed(h) == {e[2] : e \in {x \in onlineUsers : x[1] = h}}
Once(h) == \A e, f \in users[h] : e[1] = f[1] \/ e[2] = f[2] => e = f

Own(h) == (users[h] \cup clearing[h]) \ arriving[h]
People(h) == {e[2] : e \in Entries(h)}

(* One hub's part of ListIsUnion, and what OnlineIsListed needs besides: whom     *)
(* a thread puts online is on its hub, unless a refresh has just cleared it.      *)
HubList(h) ==
    /\ Own(h) \subseteq Listed(h) /\ (refreshes[h] = 0 => Listed(h) \subseteq Own(h))
    /\ users[h] = {} \/ clearing[h] = {}
    /\ Once(h)
    /\ arriving[h] # {} => putting[h].what \in {"on", "login"}
    /\ \A e \in arriving[h] : e[2] = putting[h].who
    /\ refreshes[h] = 0 => arriving[h] \subseteq users[h]
    /\ putting[h].what \in {"on", "login"} =>
          /\ putting[h].who \in People(h)
          /\ refreshes[h] = 0 => \E e \in users[h] : e[2] = putting[h].who
ListInv == \A h \in Hubs : HubList(h)

(* A refresh works on what it has taken from the hub; what the hub has since is    *)
(* new, so that the refresh does not put that offline.                         *)
RefreshInv ==
    /\ \A h \in Hubs : refreshes[h] > 0 => h \notin Adc
    /\ \A h \in Hubs : \A e \in users[h] \cup clearing[h] : e[3] <= refreshes[h]
    /\ \A x \in refreshing :
          x[2][3] < refreshes[x[1]] /\ x[2] \notin users[x[1]] \cup clearing[x[1]]
    /\ \A u \in dropping : Refreshed(u)

LEMMA ListInvIsUnion == ListInv => ListIsUnion
BY DEF ListInv, HubList, ListIsUnion, Listed, Once, Own

(* What the list has of a hub.                                              *)
LEMMA ListedEntry ==
    ASSUME TypeOK, NEW h, NEW entry
    PROVE  entry \in Listed(h) <=> <<h, entry>> \in onlineUsers
<1>1. \A x \in onlineUsers : x = <<x[1], x[2]>>
  BY Parts DEF PuttingTypes, AllType
<1> QED BY <1>1 DEF Listed

(* A hub whose lists stay keeps its part, as long as the list of all does.      *)
LEMMA SameList ==
    ASSUME NEW h, HubList(h), users'[h] = users[h], clearing'[h] = clearing[h],
           arriving'[h] = arriving[h], refreshes'[h] = refreshes[h], Listed(h)' = Listed(h),
           putting'[h] = putting[h] \/ (arriving[h] = {} /\ putting'[h].what \notin {"on", "login"})
    PROVE  HubList(h)'
BY DEF HubList, Once, Own, People, Entries

LEMMA DoneWhat == Done.what = ""
BY DEF Done

LEMMA OffWhat == \A u : [what |-> "off", who |-> u].what = "off" /\ [what |-> "off", who |-> u].who = u
OBVIOUS

LEMMA NobodyArrives == ASSUME NEW h, HubList(h), putting[h] = Done PROVE arriving[h] = {}
BY DoneWhat DEF HubList

LEMMA ListInit == Init => ListInv /\ RefreshInv
<1>1. ASSUME Init, NEW h \in Hubs PROVE HubList(h)
  <2>1. /\ users[h] = {} /\ arriving[h] = {} /\ clearing[h] = {} /\ putting[h] = Done
        /\ onlineUsers = {}
    BY <1>1 DEF Init
  <2>2. Listed(h) = {}
    BY <2>1 DEF Listed
  <2> QED BY <2>1, <2>2, DoneWhat DEF HubList, Once, Own
<1>2. Init => RefreshInv
  BY DEF Init, RefreshInv
<1> QED BY <1>1, <1>2 DEF ListInv

LEMMA AddList ==
    ASSUME TypeOK, ListInv, NEW h \in Hubs, NEW name, NEW u,
           <<name, u, refreshes[h]>> \in Entries(h), NEW then \in {"on", "login"},
           Idle(h), Add(h, name, u, then),
           \A e \in users[h] : e[1] # name /\ e[2] # u
    PROVE  ListInv'
<1> DEFINE entry == <<name, u, refreshes[h]>>
<1>0. UNCHANGED <<refreshes, onlineUsers, clearing>> /\ \A g \in Hubs : Listed(g)' = Listed(g)
  BY DEF Add, window, Listed
<1>1. ASSUME NEW g \in Hubs, g # h PROVE HubList(g)'
  <2>1. users'[g] = users[g] /\ arriving'[g] = arriving[g] /\ putting'[g] = putting[g]
    BY <1>1, Parts DEF Add, UserTypes, ListType, PuttingTypes
  <2> QED BY <1>0, <2>1, SameList DEF ListInv
<1>2. HubList(h)'
  <2>1. /\ users'[h] = users[h] \cup {entry} /\ arriving'[h] = {entry}
        /\ clearing'[h] = {} /\ clearing[h] = {} /\ arriving[h] = {}
    BY <1>0, Parts, NobodyArrives DEF Add, UserTypes, ListType, Idle, ListInv
  <2>2. putting'[h].what = then /\ putting'[h].who = u /\ entry[1] = name /\ entry[2] = u
    BY Parts DEF Add, PuttingTypes
  <2>3. entry \notin users[h] /\ u \in People(h)
    BY <2>2 DEF People
  <2> HIDE DEF entry
  <2>4. Own(h)' = Own(h) /\ Once(h)'
    BY <2>1, <2>2, <2>3 DEF ListInv, HubList, Once, Own
  <2>5. \E e \in users'[h] : e[2] = putting'[h].who
    BY <2>1, <2>2
  <2>6. People(h)' = People(h)
    BY DEF People, Entries
  <2> QED BY <1>0, <2>1, <2>2, <2>3, <2>4, <2>5, <2>6 DEF ListInv, HubList
<1> QED BY <1>1, <1>2 DEF ListInv

(* putOnline makes up for what getUser has just made.                          *)
LEMMA PutOnlineList ==
    ASSUME TypeOK, ListInv, NEW h \in Hubs, PutOnline(h)
    PROVE  ListInv'
<1>0. UNCHANGED <<refreshes, users, clearing, putting>>
  BY DEF PutOnline, window
<1>1. ASSUME NEW g \in Hubs, g # h PROVE HubList(g)'
  <2>1. Listed(g)' = Listed(g)
    BY <1>1 DEF PutOnline, Listed
  <2>2. arriving'[g] = arriving[g]
    BY <1>1, Parts DEF PutOnline, UserTypes, ListType
  <2> QED BY <1>0, <2>1, <2>2, SameList DEF ListInv
<1>2. HubList(h)'
  <2>1. Listed(h)' = Listed(h) \cup arriving[h]
    <3>1. {x \in onlineUsers' : x[1] = h} = {x \in onlineUsers : x[1] = h} \cup ({h} \X arriving[h])
      BY DEF PutOnline
    <3>2. {x[2] : x \in {h} \X arriving[h]} = arriving[h]
      <4>1. \A e \in arriving[h] : <<h, e>> \in {h} \X arriving[h] /\ <<h, e>>[2] = e
        OBVIOUS
      <4> QED BY <4>1
    <3> QED BY <3>1, <3>2 DEF Listed
  <2>2. arriving'[h] = {} /\ Own(h)' = users[h] \cup clearing[h]
    BY <1>0, Parts DEF PutOnline, UserTypes, ListType, Own
  <2>3. Once(h)' /\ People(h)' = People(h)
    BY <1>0 DEF ListInv, HubList, Once, People, Entries
  <2> QED BY <1>0, <2>1, <2>2, <2>3 DEF ListInv, HubList, Own
<1> QED BY <1>1, <1>2 DEF ListInv

(* An entry is taken from the list of all and from one of the hub's own.        *)
LEMMA PutOfflineList ==
    ASSUME TypeOK, ListInv, NEW h \in Hubs, NEW entry, PutOffline(h, entry), putting[h] = Done,
           users'[h] \subseteq users[h], clearing'[h] \subseteq clearing[h],
           users'[h] \cup clearing'[h] = (users[h] \cup clearing[h]) \ {entry},
           \A g \in Hubs \ {h} : users'[g] = users[g] /\ clearing'[g] = clearing[g],
           UNCHANGED <<arriving, refreshes>>
    PROVE  ListInv'
<1>1. ASSUME NEW g \in Hubs, g # h PROVE HubList(g)'
  <2>1. Listed(g)' = Listed(g)
    BY <1>1 DEF PutOffline, Listed
  <2>2. putting'[g] = putting[g]
    BY <1>1, Parts DEF PutOffline, PuttingTypes
  <2> QED BY <1>1, <2>1, <2>2, SameList DEF ListInv
<1>2. HubList(h)'
  <2>1. Listed(h)' = Listed(h) \ {entry}
    <3>1. \A x \in onlineUsers : x = <<x[1], x[2]>>
      BY Parts DEF PuttingTypes, AllType
    <3> QED BY <3>1 DEF PutOffline, Listed
  <2>2. putting'[h].what \in {"", "off"}
    <3>1. putting' = [putting EXCEPT ![h] = [what |-> "off", who |-> entry[2]]] \/ putting' = putting
      BY DEF PutOffline
    <3>2. putting'[h] = [what |-> "off", who |-> entry[2]] \/ putting'[h] = Done
      BY <3>1, Parts DEF PuttingTypes
    <3>3. CASE putting'[h] = [what |-> "off", who |-> entry[2]]
      BY <3>3, OffWhat
    <3>4. CASE putting'[h] = Done
      BY <3>4, DoneWhat
    <3> QED BY <3>2, <3>3, <3>4
  <2>3. Once(h)'
    BY DEF ListInv, HubList, Once
  <2>4. arriving[h] = {}
    BY NobodyArrives DEF ListInv
  <2>5. Own(h)' = Own(h) \ {entry}
    BY <2>4 DEF Own
  <2> QED BY <2>1, <2>2, <2>3, <2>4, <2>5 DEF ListInv, HubList
<1> QED BY <1>1, <1>2 DEF ListInv

LEMMA ClearList ==
    ASSUME TypeOK, ListInv, NEW h \in Hubs, Idle(h), Clear(h),
           UNCHANGED <<putting, onlineUsers, arriving, refreshes>>
    PROVE  ListInv'
<1>1. ASSUME NEW g \in Hubs, g # h PROVE HubList(g)'
  <2>1. Listed(g)' = Listed(g)
    BY DEF Listed
  <2>2. users'[g] = users[g] /\ clearing'[g] = clearing[g]
    BY <1>1, Parts DEF Clear, UserTypes, ListType
  <2> QED BY <2>1, <2>2, SameList DEF ListInv
<1>2. HubList(h)'
  <2>1. users'[h] = {} /\ clearing'[h] = users[h] /\ clearing[h] = {}
    BY Parts DEF Clear, UserTypes, ListType, Idle
  <2>2. putting'[h].what = "" /\ arriving[h] = {}
    BY DoneWhat, NobodyArrives DEF Idle, ListInv
  <2> QED BY <2>1, <2>2 DEF ListInv, HubList, Listed, Once, Own
<1> QED BY <1>1, <1>2 DEF ListInv

SamePutting(g) ==
    putting'[g] = putting[g] \/ (arriving[g] = {} /\ putting'[g].what \notin {"on", "login"})

LEMMA SameLists ==
    ListInv /\ UNCHANGED <<users, arriving, clearing, onlineUsers, refreshes>>
            /\ (\A g \in Hubs : SamePutting(g)) => ListInv'
<1> SUFFICES ASSUME ListInv, UNCHANGED <<users, arriving, clearing, onlineUsers, refreshes>>,
                    \A g \in Hubs : SamePutting(g), NEW g \in Hubs
             PROVE  HubList(g)'
  BY DEF ListInv
<1>1. Listed(g)' = Listed(g)
  BY DEF Listed
<1> QED BY <1>1, SameList DEF ListInv, SamePutting

LEMMA ListsStay ==
    ListInv /\ UNCHANGED <<users, arriving, putting, clearing, onlineUsers, refreshes>> => ListInv'
BY SameLists DEF SamePutting

LEMMA LineList ==
    ASSUME TypeOK, ListInv, NEW h \in Hubs, Line(h)
    PROVE  ListInv'
<1>n. ASSUME h \notin Adc PROVE \A e \in users[h] : e[1] = e[2]
  BY <1>n, Parts DEF UserTypes, ListType, Entries
<1>1. CASE Identify(h) \/ OpList(h) \/ Banned(h)
  <2>1. UNCHANGED Lists
    BY <1>1 DEF Identify, OpList, Banned
  <2> QED BY <2>1, ListsStay DEF Lists, window
<1>2. CASE Lock(h) \/ Hello(h)
  <2>1. CASE UNCHANGED Lists
    BY <2>1, ListsStay DEF Lists, window
  <2>2. ASSUME NEW then \in {"on", "login"}, Known(h, Me) = {}, Add(h, Me, Me, then) PROVE ListInv'
    <3>1. \A e \in users[h] : e[1] # Me /\ e[2] # Me
      BY <1>2, <1>n, <2>2 DEF Known, Lock, Hello
    <3> QED BY <1>2, <2>2, <3>1, Newcomers, AddList DEF Lock, Hello, Hears
  <2> QED BY <1>2, <2>1, <2>2 DEF Lock, Hello
<1>3. ASSUME NEW u \in Guests[h], Nick(h, u) PROVE ListInv'
  <2>1. \A e \in users[h] : e[1] # u /\ e[2] # u
    BY <1>3, <1>n DEF Known, Nick
  <2> QED BY <1>3, <2>1, Newcomers, AddList DEF Nick, Hears
<1>4. ASSUME NEW u \in Guests[h], NEW sid \in Sids, Inf(h, sid, u) PROVE ListInv'
  <2>1. CASE UNCHANGED Lists
    BY <2>1, ListsStay DEF Lists, window
  <2>2. ASSUME NEW then \in {"on", "login"}, Known(h, sid) = {}, Add(h, sid, u, then) PROVE ListInv'
    <3>1. \A e \in users[h] : e[1] # sid /\ e[2] # u
      BY <1>4, <2>2 DEF Known, Inf
    <3> QED BY <1>4, <2>2, <3>1, Newcomers, AddList DEF Inf, Hears
  <2> QED BY <1>4, <2>1, <2>2 DEF Inf
<1>5. ASSUME NEW name \in Names, Quit(h, name) PROVE ListInv'
  <2>1. PICK entry \in Known(h, name) : users' = [users EXCEPT ![h] = @ \ {entry}] /\ PutOffline(h, entry)
    BY <1>5 DEF Quit
  <2>2. entry \in users[h] /\ clearing[h] = {} /\ putting[h] = Done
    BY <1>5, <2>1 DEF Known, Quit, Hears, Idle
  <2>3. users'[h] = users[h] \ {entry} /\ UNCHANGED <<arriving, clearing, refreshes>>
    BY <1>5, <2>1, Parts DEF UserTypes, ListType, Quit, window
  <2>4. \A g \in Hubs \ {h} : users'[g] = users[g]
    BY <2>1, Parts DEF UserTypes, ListType
  <2> QED BY <2>1, <2>2, <2>3, <2>4, PutOfflineList
<1> QED BY <1>1, <1>2, <1>3, <1>4, <1>5 DEF Line

LEMMA ClearUserList ==
    ASSUME TypeOK, ListInv, NEW h \in Hubs, ClearUser(h)
    PROVE  ListInv'
<1>1. PICK entry \in clearing[h] :
         PutOffline(h, entry) /\ clearing' = [clearing EXCEPT ![h] = @ \ {entry}]
  BY DEF ClearUser
<1>2. UNCHANGED <<users, arriving, refreshes>> /\ users[h] = {} /\ putting[h] = Done
  BY <1>1 DEF ClearUser, ListInv, HubList, window
<1>3. clearing'[h] = clearing[h] \ {entry} /\ \A g \in Hubs \ {h} : clearing'[g] = clearing[g]
  BY <1>1, Parts DEF UserTypes, ListType
<1> QED BY <1>1, <1>2, <1>3, PutOfflineList

(* The refresh empties a hub's list, and puts offline what is not on it.          *)
LEMMA RefreshUserListList ==
    ASSUME TypeOK, ListInv, RefreshInv, NEW h \in Hubs, RefreshUserList(h)
    PROVE  ListInv' /\ RefreshInv'
<1>1. /\ UNCHANGED <<arriving, clearing, putting, onlineUsers, dropping>>
      /\ users'[h] = {} /\ refreshing' = {h} \X users[h] /\ h \notin Adc
      /\ refreshes'[h] = refreshes[h] + 1 /\ refreshes[h] \in Nat
      /\ \A g \in Hubs \ {h} : users'[g] = users[g] /\ refreshes'[g] = refreshes[g]
  BY Parts DEF RefreshUserList, UserTypes, ListType, WindowTypes, Counts
<1>2. \A g \in Hubs : Listed(g)' = Listed(g) /\ People(g)' = People(g)
  BY <1>1 DEF Listed, People, Entries
<1>3. ASSUME NEW g \in Hubs PROVE HubList(g)'
  <2>1. CASE g = h
    <3>1. refreshes'[h] # 0 /\ Own(h)' \subseteq Own(h)
      BY <1>1 DEF Own
    <3>2. Once(h)'
      BY <1>1 DEF Once
    <3> QED BY <1>1, <1>2, <2>1, <3>1, <3>2 DEF ListInv, HubList
  <2>2. CASE g # h
    BY <1>1, <1>2, <2>2, SameList DEF ListInv
  <2> QED BY <2>1, <2>2
<1>4. \A g \in Hubs : \A e \in users[g] \cup clearing[g] : e[3] \in Nat
  BY Parts, EntryType DEF UserTypes, ListType
<1>5. RefreshInv'
  <2>1. \A g \in Hubs : refreshes[g] \in Nat /\ refreshes'[g] \in Nat /\ refreshes'[g] >= refreshes[g]
    BY <1>1, Parts DEF WindowTypes, Counts
  <2>2. \A g \in Hubs : refreshes'[g] > 0 => g \notin Adc
    BY <1>1 DEF RefreshInv
  <2>3. \A g \in Hubs : \A e \in users'[g] \cup clearing'[g] : e[3] <= refreshes'[g]
    <3>1. \A g \in Hubs : users'[g] \subseteq users[g] /\ clearing'[g] = clearing[g]
      BY <1>1
    <3> QED BY <1>4, <2>1, <3>1 DEF RefreshInv
  <2>4. \A e \in users[h] : e[3] < refreshes'[h] /\ e \notin users'[h] \cup clearing'[h]
    BY <1>1, <1>4 DEF RefreshInv, ListInv, HubList
  <2>5. \A x \in refreshing' : x[1] = h /\ x[2] \in users[h]
    BY <1>1
  <2>6. \A u : Refreshed(u) => Refreshed(u)'
    BY <2>1 DEF Refreshed
  <2> QED BY <1>1, <2>2, <2>3, <2>4, <2>5, <2>6 DEF RefreshInv
<1> QED BY <1>3, <1>5 DEF ListInv

LEMMA RefreshUserStepList ==
    ASSUME TypeOK, ListInv, RefreshInv, RefreshUser
    PROVE  ListInv' /\ RefreshInv'
<1>1. PICK x \in refreshing :
         /\ refreshing' = refreshing \ {x} /\ onlineUsers' = onlineUsers \ {x}
         /\ dropping' = IF OnHubs(x[2][2]) = {x} THEN {x[2][2]} ELSE {}
  BY DEF RefreshUser
<1>2. UNCHANGED <<users, arriving, clearing, putting, refreshes>>
  BY DEF RefreshUser
<1>3. /\ x[1] \in Hubs /\ x = <<x[1], x[2]>> /\ x[2] \in Entries(x[1])
      /\ x[2][3] < refreshes[x[1]] /\ x[2] \notin users[x[1]] \cup clearing[x[1]]
  BY Parts DEF WindowTypes, AllType, RefreshInv
<1>4. refreshes[x[1]] > 0 /\ x[1] \notin Adc
  <2>1. refreshes[x[1]] \in Nat /\ x[2][3] \in Nat
    BY <1>3, Parts, EntryType DEF WindowTypes, Counts
  <2> QED BY <1>3, <2>1 DEF RefreshInv
<1>5. ASSUME NEW g \in Hubs PROVE HubList(g)'
  <2>1. Listed(g)' = Listed(g) \ {x[2]} \/ (g # x[1] /\ Listed(g)' = Listed(g))
    <3>1. \A y \in onlineUsers : y = <<y[1], y[2]>>
      BY Parts DEF PuttingTypes, AllType
    <3>2. CASE g = x[1]
      BY <1>1, <1>3, <3>1, <3>2 DEF Listed
    <3>3. CASE g # x[1]
      BY <1>1, <3>3 DEF Listed
    <3> QED BY <3>2, <3>3
  <2>2. CASE g # x[1]
    <3>1. Listed(g)' = Listed(g)
      BY <1>1, <2>2 DEF Listed
    <3> QED BY <1>2, <3>1, SameList DEF ListInv
  <2>3. CASE g = x[1]
    <3>1. Own(g)' = Own(g) /\ x[2] \notin Own(g) /\ Once(g)' /\ People(g)' = People(g)
      BY <1>2, <1>3, <2>3 DEF Own, Once, ListInv, HubList, People, Entries
    <3>2. Listed(g)' = Listed(g) \ {x[2]} /\ refreshes[g] # 0
      BY <1>4, <2>1, <2>3
    <3> QED BY <1>2, <3>1, <3>2 DEF ListInv, HubList
  <2> QED BY <2>2, <2>3
<1>6. Refreshed(x[2][2])
  <2>1. x[2][2] \in Guests[x[1]] \cup {Me}
    BY <1>3, <1>4 DEF Entries
  <2> QED BY <1>3, <1>4, <2>1 DEF Refreshed
<1>7. \A u \in dropping' : Refreshed(u)'
  BY <1>1, <1>2, <1>6 DEF Refreshed
<1>8. RefreshInv'
  BY <1>1, <1>2, <1>7 DEF RefreshInv
<1> QED BY <1>5, <1>8 DEF ListInv

(* Nothing but new entries comes to a hub while a refresh is at work.            *)
LEMMA SameRefresh ==
    ASSUME TypeOK, RefreshInv, UNCHANGED window,
           \A g \in Hubs : \A e \in users'[g] \cup clearing'[g] :
               e \in users[g] \cup clearing[g] \/ e[3] = refreshes[g]
    PROVE  RefreshInv'
<1>1. UNCHANGED <<refreshes, refreshing, dropping>>
  BY DEF window
<1>2. \A g \in Hubs : refreshes[g] \in Nat
  BY Parts DEF WindowTypes, Counts
<1>3. \A x \in refreshing : x[1] \in Hubs
  BY Parts DEF WindowTypes, AllType
<1>4. \A u \in dropping : Refreshed(u)'
  BY <1>1 DEF RefreshInv, Refreshed
<1>5. \A g \in Hubs : \A e \in users'[g] \cup clearing'[g] : e[3] <= refreshes'[g]
  BY <1>1, <1>2 DEF RefreshInv
<1>6. \A x \in refreshing : x[2] \notin users'[x[1]] \cup clearing'[x[1]]
  BY <1>2, <1>3 DEF RefreshInv
<1> QED BY <1>1, <1>4, <1>5, <1>6 DEF RefreshInv

LEMMA HubRefresh ==
    ASSUME TypeOK, RefreshInv, NEW h \in Hubs,
           Thread(h) \/ Second(h) \/ (Window(h) /\ ~RefreshUserList(h))
    PROVE  RefreshInv'
<1> USE Parts DEF UserTypes, ListType
<1>1. ASSUME NEW name, NEW u, NEW then, Add(h, name, u, then) PROVE RefreshInv'
  <2>1. <<name, u, refreshes[h]>>[3] = refreshes[h]
    OBVIOUS
  <2> QED BY <1>1, <2>1, SameRefresh DEF Add
<1>2. ASSUME UNCHANGED <<users, clearing, window>> PROVE RefreshInv'
  BY <1>2, SameRefresh
<1>3. CASE PutOnline(h) \/ SetFlag(h) \/ Connecting(h) \/ Connected(h) \/ Disconnected(h) \/ Second(h)
  BY <1>2, <1>3 DEF PutOnline, SetFlag, Connecting, Connected, Disconnected, Second, Connect
<1>4. CASE Open(h) \/ Disconnect(h) \/ Reconnect(h) \/ Shutdown(h) \/ Deleted(h)
  BY <1>2, <1>4 DEF Open, Disconnect, Reconnect, Shutdown, Deleted, Connect
<1>5. CASE Failed(h) \/ Destroy(h)
  <2>1. UNCHANGED window /\ Clear(h)
    BY <1>5 DEF Failed, Destroy
  <2>2. \A g \in Hubs : users'[g] \cup clearing'[g] \subseteq users[g] \cup clearing[g]
    BY <2>1 DEF Clear
  <2> QED BY <2>1, <2>2, SameRefresh
<1>6. CASE ClearUser(h)
  <2>1. UNCHANGED window /\ \A g \in Hubs : users'[g] \cup clearing'[g] \subseteq users[g] \cup clearing[g]
    BY <1>6 DEF ClearUser
  <2> QED BY <2>1, SameRefresh
<1>7. CASE Line(h)
  <2>1. UNCHANGED Lists => UNCHANGED <<users, clearing, window>>
    BY DEF Lists
  <2>2. CASE Identify(h) \/ OpList(h) \/ Banned(h)
    BY <1>2, <2>1, <2>2 DEF Identify, OpList, Banned
  <2>3. CASE Lock(h) \/ Hello(h)
    BY <1>1, <1>2, <2>1, <2>3 DEF Lock, Hello
  <2>4. CASE \E u \in Guests[h] : Nick(h, u)
    BY <1>1, <2>4 DEF Nick
  <2>5. ASSUME NEW u \in Guests[h], NEW sid \in Sids, Inf(h, sid, u) PROVE RefreshInv'
    BY <1>1, <1>2, <2>1, <2>5 DEF Inf
  <2>6. ASSUME NEW name \in Names, Quit(h, name) PROVE RefreshInv'
    <3>1. UNCHANGED <<clearing, window>> /\ \A g \in Hubs : users'[g] \subseteq users[g]
      BY <2>6 DEF Quit
    <3> QED BY <3>1, SameRefresh
  <2> QED BY <1>7, <2>2, <2>3, <2>4, <2>5, <2>6 DEF Line
<1> QED BY <1>3, <1>4, <1>5, <1>6, <1>7 DEF Thread, Window

LEMMA ListStep == TypeOK /\ ListInv /\ RefreshInv /\ [Next]_vars => ListInv' /\ RefreshInv'
<1> SUFFICES ASSUME TypeOK, ListInv, RefreshInv, [Next]_vars PROVE ListInv' /\ RefreshInv'
  OBVIOUS
<1>1. CASE UNCHANGED vars
  <2>1. UNCHANGED <<users, arriving, putting, clearing, window, onlineUsers>>
    BY <1>1 DEF vars
  <2> QED BY <2>1, ListsStay, SameRefresh DEF window
<1>2. ASSUME NEW h \in Hubs, SetFlag(h) PROVE ListInv'
  <2>1. \A g \in Hubs : SamePutting(g)
    BY <1>2, Parts DEF SetFlag, PuttingTypes, Done, SamePutting
  <2>2. UNCHANGED <<users, arriving, clearing, onlineUsers, refreshes>>
    BY <1>2 DEF SetFlag, window
  <2> QED BY <2>1, <2>2, SameLists
<1>3. ASSUME NEW h \in Hubs, Failed(h) \/ Destroy(h) PROVE ListInv'
  <2>1. Idle(h) /\ Clear(h) /\ UNCHANGED <<putting, onlineUsers, arriving, refreshes>>
    BY <1>3 DEF Failed, Destroy, window
  <2> QED BY <2>1, ClearList
<1>4. ASSUME NEW h \in Hubs,
             \/ Connecting(h) \/ Connected(h) \/ Disconnected(h) \/ Open(h) \/ Second(h)
             \/ Disconnect(h) \/ Reconnect(h) \/ Shutdown(h) \/ Deleted(h)
      PROVE  ListInv'
  <2>1. UNCHANGED <<users, arriving, putting, clearing, onlineUsers, refreshes>>
    BY <1>4 DEF Connecting, Connected, Disconnected, Open, Second, Connect, Disconnect, Reconnect,
                Shutdown, Deleted, window
  <2> QED BY <2>1, ListsStay
<1>5. CASE RefreshFlag
  <2>1. UNCHANGED <<users, arriving, putting, clearing, onlineUsers, refreshes, refreshing>> /\ dropping' = {}
    BY <1>5 DEF RefreshFlag
  <2>2. RefreshInv'
    BY <2>1 DEF RefreshInv
  <2> QED BY <2>1, <2>2, ListsStay
<1>6. ASSUME NEW h \in Hubs, Thread(h) \/ Second(h) \/ Window(h) PROVE ListInv' /\ RefreshInv'
  <2>1. CASE RefreshUserList(h)
    BY <2>1, RefreshUserListList
  <2>2. CASE ~RefreshUserList(h)
    <3>1. RefreshInv'
      BY <1>6, <2>2, HubRefresh
    <3>2. ListInv'
      BY <1>2, <1>3, <1>4, <1>6, <2>2, PutOnlineList, LineList, ClearUserList DEF Thread, Window
    <3> QED BY <3>1, <3>2
  <2> QED BY <2>1, <2>2
<1> QED BY <1>1, <1>5, <1>6, RefreshUserStepList DEF Next

LEMMA ListAlways == Spec => [](TypeOK /\ ListInv /\ RefreshInv)
BY TypeInit, TypeStep, ListInit, ListStep, PTL DEF Spec

(* The list of all users has everybody on the hubs' own, for any hubs and users,    *)
(* and nobody else of a hub whose list the window never refreshed.              *)
THEOREM ListIsUnionAlways == Spec => []ListIsUnion
BY ListAlways, ListInvIsUnion, PTL

-----------------------------------------------------------------------------
(* The flag.                                                                *)

PuttingOff(u) == \E h \in Hubs : putting[h] = [what |-> "off", who |-> u]

LEMMA OnHubsEntry == \A u, x : x \in OnHubs(u) <=> x \in onlineUsers /\ x[2][2] = u
BY DEF OnHubs

(* A refresh is never forgotten.                                             *)
LEMMA RefreshedStays ==
    ASSUME NEW u, UNCHANGED refreshes
    PROVE  Refreshed(u)' <=> Refreshed(u)
BY DEF Refreshed

(* Who is listed stays so, except for the one user whose last entry goes.        *)
LEMMA AddOnline ==
    ASSUME TypeOK, OnlineIsListed, NEW h \in Hubs, NEW name, NEW user, NEW then, Idle(h),
           Add(h, name, user, then)
    PROVE  OnlineIsListed'
<1> SUFFICES ASSUME NEW u \in online', ~Refreshed(u)' PROVE OnHubs(u)' # {} \/ PuttingOff(u)'
  BY DEF OnlineIsListed, PuttingOff
<1>1. OnHubs(u)' = OnHubs(u) /\ u \in online /\ ~Refreshed(u)
  BY RefreshedStays DEF OnHubs, Add, window
<1>2. PuttingOff(u) => PuttingOff(u)'
  <2>1. ASSUME NEW g \in Hubs, putting[g] = [what |-> "off", who |-> u] PROVE putting'[g] = putting[g]
    <3>1. g # h
      BY <2>1, DoneWhat, OffWhat DEF Idle
    <3> QED BY <3>1, Parts DEF Add, PuttingTypes
  <2> QED BY <2>1 DEF PuttingOff
<1> QED BY <1>1, <1>2 DEF OnlineIsListed, PuttingOff

LEMMA PutOnlineOnline ==
    ASSUME OnlineIsListed, NEW h \in Hubs, PutOnline(h)
    PROVE  OnlineIsListed'
<1> SUFFICES ASSUME NEW u \in online', ~Refreshed(u)' PROVE OnHubs(u)' # {} \/ PuttingOff(u)'
  BY DEF OnlineIsListed, PuttingOff
<1>1. OnHubs(u) \subseteq OnHubs(u)' /\ u \in online /\ putting' = putting /\ ~Refreshed(u)
  BY RefreshedStays DEF OnHubs, PutOnline, window
<1> QED BY <1>1 DEF OnlineIsListed, PuttingOff

LEMMA PutOfflineOnline ==
    ASSUME TypeOK, ListInv, OnlineIsListed, NEW h \in Hubs, NEW entry \in users[h] \cup clearing[h],
           putting[h] = Done, PutOffline(h, entry), UNCHANGED refreshes
    PROVE  OnlineIsListed'
<1> SUFFICES ASSUME NEW u \in online', ~Refreshed(u)' PROVE OnHubs(u)' # {} \/ PuttingOff(u)'
  BY DEF OnlineIsListed, PuttingOff
<1>1. u \in online /\ ~Refreshed(u)
  BY RefreshedStays DEF PutOffline
<1>2. PuttingOff(u) => PuttingOff(u)'
  <2>1. ASSUME NEW g \in Hubs, putting[g] = [what |-> "off", who |-> u] PROVE putting'[g] = putting[g]
    <3>1. g # h
      BY <2>1, DoneWhat, OffWhat
    <3> QED BY <3>1, Parts DEF PutOffline, PuttingTypes
  <2> QED BY <2>1 DEF PuttingOff
<1>3. CASE OnHubs(u) = {<<h, entry>>}
  <2>1. entry[2] = u
    BY <1>3, OnHubsEntry
  <2>2. putting'[h] = [what |-> "off", who |-> u]
    BY <1>3, <2>1, Parts DEF PutOffline, PuttingTypes
  <2> QED BY <2>2 DEF PuttingOff
<1>4. CASE OnHubs(u) # {<<h, entry>>} /\ OnHubs(u) # {}
  <2>1. PICK x \in OnHubs(u) : x # <<h, entry>>
    BY <1>4
  <2>2. x \in OnHubs(u)'
    BY <2>1 DEF OnHubs, PutOffline
  <2> QED BY <2>2
<1> QED BY <1>1, <1>2, <1>3, <1>4 DEF OnlineIsListed, PuttingOff

(* Whom a hub has that was refreshed may be on one that was.                    *)
LEMMA RefreshedPeople ==
    ASSUME TypeOK, RefreshInv, NEW h \in Hubs, refreshes[h] # 0, NEW u \in People(h)
    PROVE  Refreshed(u)
<1>1. refreshes[h] > 0 /\ h \notin Adc
  BY Parts DEF WindowTypes, Counts, RefreshInv
<1>2. u \in Guests[h] \cup {Me}
  BY <1>1 DEF People, Entries
<1> QED BY <1>1, <1>2 DEF Refreshed

LEMMA SetFlagOnline ==
    ASSUME TypeOK, ListInv, RefreshInv, OnlineIsListed, NEW h \in Hubs, SetFlag(h)
    PROVE  OnlineIsListed'
<1> SUFFICES ASSUME NEW u \in online', ~Refreshed(u)' PROVE OnHubs(u)' # {} \/ PuttingOff(u)'
  BY DEF OnlineIsListed, PuttingOff
<1>1. OnHubs(u)' = OnHubs(u) /\ ~Refreshed(u)
  BY RefreshedStays DEF OnHubs, SetFlag, window
<1>2. CASE u = putting[h].who
  <2>1. putting[h].what \in {"on", "login"}
    BY <1>2, Parts DEF SetFlag, PuttingTypes, PuttingType
  <2>2. refreshes[h] = 0
    BY <1>1, <1>2, <2>1, RefreshedPeople DEF ListInv, HubList
  <2>3. PICK e \in users[h] : e[2] = u
    BY <1>2, <2>1, <2>2 DEF ListInv, HubList
  <2>4. <<h, e>> \in onlineUsers
    BY ListedEntry DEF ListInv, HubList, Own, SetFlag
  <2> QED BY <1>1, <2>3, <2>4 DEF OnHubs
<1>3. CASE u # putting[h].who
  <2>1. u \in online
    BY <1>3 DEF SetFlag
  <2>2. ASSUME NEW g \in Hubs, putting[g] = [what |-> "off", who |-> u] PROVE putting'[g] = putting[g]
    <3>1. g # h
      BY <1>3, <2>2, OffWhat
    <3> QED BY <3>1, Parts DEF SetFlag, PuttingTypes
  <2> QED BY <1>1, <2>1, <2>2 DEF OnlineIsListed, PuttingOff
<1> QED BY <1>2, <1>3

LEMMA OnlineStays ==
    UNCHANGED <<putting, refreshes, onlineUsers, online>> /\ OnlineIsListed => OnlineIsListed'
BY DEF OnlineIsListed, OnHubs, Refreshed

(* The refresh puts offline only who may be on its hub.                         *)
LEMMA RefreshOnline ==
    ASSUME TypeOK, RefreshInv, OnlineIsListed,
           (\E h \in Hubs : RefreshUserList(h)) \/ RefreshUser \/ RefreshFlag
    PROVE  OnlineIsListed'
<1> SUFFICES ASSUME NEW u \in online', ~Refreshed(u)' PROVE OnHubs(u)' # {} \/ PuttingOff(u)'
  BY DEF OnlineIsListed, PuttingOff
<1>1. putting' = putting /\ u \in online
  BY DEF RefreshUserList, RefreshUser, RefreshFlag
<1>2. ~Refreshed(u)
  <2>1. ASSUME NEW g \in Hubs, refreshes[g] > 0 PROVE refreshes'[g] > 0
    <3>1. \/ refreshes' = refreshes
          \/ \E h \in Hubs : refreshes' = [refreshes EXCEPT ![h] = @ + 1]
      BY DEF RefreshUserList, RefreshUser, RefreshFlag
    <3>2. refreshes \in [Hubs -> Nat]
      BY Parts DEF WindowTypes, Counts
    <3> QED BY <2>1, <3>1, <3>2
  <2> QED BY <2>1 DEF Refreshed
<1>3. OnHubs(u)' = OnHubs(u)
  <2>1. CASE RefreshUser
    <3>1. PICK x \in refreshing : onlineUsers' = onlineUsers \ {x}
      BY <2>1 DEF RefreshUser
    <3>2. x[1] \in Hubs /\ refreshes[x[1]] # 0 /\ x[2] \in Entries(x[1])
      <4>1. x[1] \in Hubs /\ x[2] \in Entries(x[1])
        BY Parts DEF WindowTypes, AllType
      <4>2. x[2][3] \in Nat /\ x[2][3] < refreshes[x[1]]
        BY <4>1, EntryType DEF RefreshInv
      <4> QED BY <4>1, <4>2
    <3>3. Refreshed(x[2][2])
      BY <3>2, RefreshedPeople DEF People
    <3>4. x \notin OnHubs(u)
      BY <1>2, <3>3, OnHubsEntry
    <3> QED BY <3>1, <3>4 DEF OnHubs
  <2>2. CASE (\E h \in Hubs : RefreshUserList(h)) \/ RefreshFlag
    BY <2>2 DEF RefreshUserList, RefreshFlag, OnHubs
  <2> QED BY <2>1, <2>2
<1> QED BY <1>1, <1>2, <1>3 DEF OnlineIsListed, PuttingOff

LEMMA LineOnline ==
    ASSUME TypeOK, ListInv, OnlineIsListed, NEW h \in Hubs, Line(h)
    PROVE  OnlineIsListed'
<1>0. ASSUME UNCHANGED Lists PROVE OnlineIsListed'
  BY <1>0, OnlineStays DEF Lists, window
<1>1. ASSUME NEW name, NEW u, NEW then, Add(h, name, u, then), Hears(h) PROVE OnlineIsListed'
  BY <1>1, AddOnline DEF Hears
<1>2. CASE Identify(h) \/ OpList(h) \/ Banned(h)
  BY <1>0, <1>2 DEF Identify, OpList, Banned, Lists
<1>3. CASE Lock(h) \/ Hello(h)
  BY <1>0, <1>1, <1>3 DEF Lock, Hello
<1>4. CASE \E u \in Guests[h] : Nick(h, u)
  BY <1>1, <1>4 DEF Nick
<1>5. ASSUME NEW u \in Guests[h], NEW sid \in Sids, Inf(h, sid, u) PROVE OnlineIsListed'
  BY <1>0, <1>1, <1>5 DEF Inf
<1>6. ASSUME NEW name \in Names, Quit(h, name) PROVE OnlineIsListed'
  <2>1. PICK entry \in Known(h, name) : PutOffline(h, entry)
    BY <1>6 DEF Quit
  <2> QED BY <1>6, <2>1, PutOfflineOnline DEF Quit, Hears, Idle, Known, window
<1> QED BY <1>2, <1>3, <1>4, <1>5, <1>6 DEF Line

LEMMA OnlineStep == TypeOK /\ ListInv /\ RefreshInv /\ OnlineIsListed /\ [Next]_vars => OnlineIsListed'
<1> SUFFICES ASSUME TypeOK, ListInv, RefreshInv, OnlineIsListed, [Next]_vars PROVE OnlineIsListed'
  OBVIOUS
<1>1. CASE UNCHANGED vars
  BY <1>1, OnlineStays DEF vars, window
<1>2. ASSUME NEW h \in Hubs, ClearUser(h) PROVE OnlineIsListed'
  BY <1>2, PutOfflineOnline DEF ClearUser, window
<1>3. ASSUME NEW h \in Hubs,
             \/ Connecting(h) \/ Connected(h) \/ Failed(h) \/ Disconnected(h) \/ Open(h) \/ Second(h)
             \/ Disconnect(h) \/ Reconnect(h) \/ Shutdown(h) \/ Destroy(h) \/ Deleted(h)
      PROVE  OnlineIsListed'
  <2>1. UNCHANGED <<putting, refreshes, onlineUsers, online>>
    BY <1>3 DEF Connecting, Connected, Failed, Disconnected, Open, Second, Connect, Disconnect,
                Reconnect, Shutdown, Destroy, Deleted, window
  <2> QED BY <2>1, OnlineStays
<1> QED BY <1>1, <1>2, <1>3, LineOnline, PutOnlineOnline, SetFlagOnline, RefreshOnline
        DEF Next, Thread, Window

(* Whoever has the flag is on some hub, or about to lose it, or may be on a hub     *)
(* whose list the window refreshed, however many hubs there are.                 *)
THEOREM OnlineIsListedAlways == Spec => []OnlineIsListed
<1>1. Init => OnlineIsListed
  BY DEF Init, OnlineIsListed
<1> QED BY <1>1, ListAlways, OnlineStep, PTL DEF Spec

-----------------------------------------------------------------------------
(* Who may be on one hub only: on NMDC hubs all but ourselves.                *)

OneHub(u) == \A g, h \in Hubs : u \in People(g) /\ u \in People(h) => g = h

(* Whoever is listed has the flag or is about to get it, and who is about to     *)
(* lose it is not listed any more.                                           *)
AloneInv(u) ==
    /\ \A x \in OnHubs(u) :
           u \in online \/ (putting[x[1]].what \in {"on", "login"} /\ putting[x[1]].who = u)
    /\ \A h \in Hubs :
           putting[h].what = "off" /\ putting[h].who = u => u \in People(h) /\ OnHubs(u) = {}
Alone(u) == OneHub(u) /\ ~Refreshed(u)
OneHubInv == \A u \in Users : Alone(u) => AloneInv(u)

LEMMA OneHubStays ==
    OneHubInv /\ UNCHANGED <<putting, refreshes, onlineUsers, online>> => OneHubInv'
BY DEF OneHubInv, Alone, Refreshed, OneHub, AloneInv, OnHubs, People, Entries

LEMMA AloneStays ==
    ASSUME NEW u, UNCHANGED refreshes
    PROVE  Alone(u)' <=> Alone(u)
BY DEF Alone, OneHub, Refreshed, People, Entries

LEMMA SamePeople == \A h : People(h)' = People(h)
BY DEF People, Entries

LEMMA ListedPeople ==
    ASSUME TypeOK, NEW u, NEW x \in OnHubs(u)
    PROVE  x[1] \in Hubs /\ x = <<x[1], x[2]>> /\ u \in People(x[1])
BY Parts DEF OnHubs, PuttingTypes, AllType, People

LEMMA AddAlone ==
    ASSUME TypeOK, ListInv, NEW u, AloneInv(u), NEW h \in Hubs, NEW name, NEW user,
           NEW then \in {"on", "login"}, Idle(h), Add(h, name, user, then)
    PROVE  AloneInv(u)'
<1>1. /\ putting'[h].what = then /\ putting[h].what = ""
      /\ \A g \in Hubs \ {h} : putting'[g] = putting[g]
  BY Parts, DoneWhat DEF Add, PuttingTypes, Idle
<1>2. OnHubs(u)' = OnHubs(u) /\ online' = online
  BY DEF Add, OnHubs
<1>3. \A x \in OnHubs(u) : u \in online \/ (putting'[x[1]].what \in {"on", "login"} /\ putting'[x[1]].who = u)
  <2>1. ASSUME NEW x \in OnHubs(u), u \notin online PROVE putting'[x[1]] = putting[x[1]]
    BY <1>1, <2>1, ListedPeople DEF AloneInv
  <2> QED BY <2>1 DEF AloneInv
<1>4. \A g \in Hubs : putting'[g].what = "off" => putting'[g] = putting[g]
  BY <1>1
<1> QED BY <1>2, <1>3, <1>4, SamePeople DEF AloneInv

LEMMA PutOnlineAlone ==
    ASSUME TypeOK, ListInv, NEW u, OneHub(u), AloneInv(u), NEW h \in Hubs, PutOnline(h)
    PROVE  AloneInv(u)'
<1>1. putting' = putting /\ online' = online
  BY DEF PutOnline
<1>2. /\ putting[h].what \in {"on", "login"} /\ putting[h].who \in People(h)
      /\ \A e \in arriving[h] : e[2] = putting[h].who
  BY DEF PutOnline, ListInv, HubList
<1>3. \A x \in OnHubs(u)' : x \in OnHubs(u) \/ (x[1] = h /\ putting[h].who = u)
  <2>1. ASSUME NEW x \in OnHubs(u)', x \notin OnHubs(u) PROVE x[1] = h /\ putting[h].who = u
    <3>1. PICK e \in arriving[h] : x = <<h, e>> /\ x[2][2] = u
      BY <2>1 DEF OnHubs, PutOnline
    <3> QED BY <1>2, <3>1
  <2> QED BY <2>1
<1>4. ASSUME NEW g \in Hubs, putting[g].what = "off", putting[g].who = u
      PROVE  u \in People(g) /\ OnHubs(u)' = {}
  <2>1. u \in People(g) /\ OnHubs(u) = {} /\ g # h
    BY <1>2, <1>4 DEF AloneInv
  <2>2. putting[h].who # u
    BY <1>2, <2>1 DEF OneHub
  <2> QED BY <1>3, <2>1, <2>2
<1> QED BY <1>1, <1>2, <1>3, <1>4, SamePeople DEF AloneInv

LEMMA PutOfflineAlone ==
    ASSUME TypeOK, ListInv, NEW u, AloneInv(u), NEW h \in Hubs,
           NEW entry \in users[h] \cup clearing[h], putting[h] = Done, PutOffline(h, entry)
    PROVE  AloneInv(u)'
<1>1. OnHubs(u)' = OnHubs(u) \ {<<h, entry>>} /\ online' = online /\ putting[h].what = ""
  BY DoneWhat DEF OnHubs, PutOffline
<1>2. \A g \in Hubs \ {h} : putting'[g] = putting[g]
  BY Parts DEF PutOffline, PuttingTypes
<1>3. ASSUME NEW x \in OnHubs(u)'
      PROVE  u \in online' \/ (putting'[x[1]].what \in {"on", "login"} /\ putting'[x[1]].who = u)
  BY <1>1, <1>2, <1>3, ListedPeople DEF AloneInv
<1>4. ASSUME NEW g \in Hubs, putting'[g].what = "off", putting'[g].who = u
      PROVE  u \in People(g) /\ OnHubs(u)' = {}
  <2>1. CASE g # h
    BY <1>1, <1>2, <1>4, <2>1 DEF AloneInv
  <2>2. CASE g = h
    <3>1. OnHubs(entry[2]) = {<<h, entry>>} /\ putting'[h] = [what |-> "off", who |-> entry[2]]
      BY <1>1, <1>4, <2>2, Parts DEF PutOffline, PuttingTypes
    <3>2. entry[2] = u
      BY <1>4, <2>2, <3>1
    <3>3. u \in People(h)
      BY <3>2, Parts DEF UserTypes, ListType, People
    <3> QED BY <1>1, <2>2, <3>1, <3>2, <3>3
  <2> QED BY <2>1, <2>2
<1> QED BY <1>3, <1>4, SamePeople DEF AloneInv

LEMMA SetFlagAlone ==
    ASSUME TypeOK, ListInv, NEW u, AloneInv(u), NEW h \in Hubs, SetFlag(h)
    PROVE  AloneInv(u)'
<1>1. /\ OnHubs(u)' = OnHubs(u) /\ putting'[h].what = "" /\ putting[h].what # ""
      /\ \A g \in Hubs \ {h} : putting'[g] = putting[g]
  BY Parts, DoneWhat DEF SetFlag, PuttingTypes, OnHubs
<1>2. ASSUME NEW x \in OnHubs(u)
      PROVE  u \in online' \/ (putting'[x[1]].what \in {"on", "login"} /\ putting'[x[1]].who = u)
  <2>1. x[1] \in Hubs
    BY ListedPeople
  <2>2. CASE putting[h].who = u
    <3>1. putting[h].what # "off"
      BY <1>2, <2>2 DEF AloneInv
    <3> QED BY <2>2, <3>1 DEF SetFlag
  <2>3. CASE putting[h].who # u
    <3>1. u \in online => u \in online'
      BY <2>3 DEF SetFlag
    <3>2. putting[x[1]].who = u => x[1] # h
      BY <2>3
    <3> QED BY <1>1, <1>2, <2>1, <3>1, <3>2 DEF AloneInv
  <2> QED BY <2>2, <2>3
<1>3. ASSUME NEW g \in Hubs, putting'[g].what = "off", putting'[g].who = u
      PROVE  u \in People(g) /\ OnHubs(u)' = {}
  <2>1. g # h
    BY <1>1, <1>3
  <2> QED BY <1>1, <1>3, <2>1 DEF AloneInv
<1> QED BY <1>1, <1>2, <1>3, SamePeople DEF AloneInv

(* The refresh touches only who may be on its hub.                             *)
LEMMA RefreshAlone ==
    ASSUME TypeOK, RefreshInv, NEW u, ~Refreshed(u), AloneInv(u),
           (\E h \in Hubs : RefreshUserList(h)) \/ RefreshUser \/ RefreshFlag
    PROVE  AloneInv(u)'
<1>1. putting' = putting
  BY DEF RefreshUserList, RefreshUser, RefreshFlag
<1>2. u \in online => u \in online'
  BY DEF RefreshUserList, RefreshUser, RefreshFlag, RefreshInv
<1>3. OnHubs(u)' \subseteq OnHubs(u)
  BY DEF RefreshUserList, RefreshUser, RefreshFlag, OnHubs
<1> QED BY <1>1, <1>2, <1>3, SamePeople DEF AloneInv

LEMMA OneHubStep == TypeOK /\ ListInv /\ RefreshInv /\ OneHubInv /\ [Next]_vars => OneHubInv'
<1> SUFFICES ASSUME TypeOK, ListInv, RefreshInv, OneHubInv, [Next]_vars PROVE OneHubInv'
  OBVIOUS
<1>1. CASE UNCHANGED <<putting, refreshes, onlineUsers, online>>
  BY <1>1, OneHubStays
<1>2. ASSUME NEW h \in Hubs, SetFlag(h) \/ PutOnline(h) PROVE OneHubInv'
  <2>1. UNCHANGED refreshes
    BY <1>2 DEF SetFlag, PutOnline, window
  <2> QED BY <1>2, <2>1, AloneStays, SetFlagAlone, PutOnlineAlone DEF OneHubInv, Alone
<1>3. ASSUME NEW h \in Hubs, NEW entry \in users[h] \cup clearing[h], putting[h] = Done,
             PutOffline(h, entry), UNCHANGED refreshes
      PROVE  OneHubInv'
  BY <1>3, AloneStays, PutOfflineAlone DEF OneHubInv
<1>4. ASSUME NEW h \in Hubs, NEW name, NEW user, NEW then \in {"on", "login"}, Hears(h),
             Add(h, name, user, then)
      PROVE  OneHubInv'
  <2>1. UNCHANGED refreshes
    BY <1>4 DEF Add, window
  <2> QED BY <1>4, <2>1, AloneStays, AddAlone DEF OneHubInv, Hears
<1>5. ASSUME NEW h \in Hubs, ClearUser(h) PROVE OneHubInv'
  BY <1>3, <1>5 DEF ClearUser, window
<1>6. ASSUME NEW h \in Hubs, Line(h) PROVE OneHubInv'
  <2>1. UNCHANGED Lists => OneHubInv'
    BY <1>1 DEF Lists, window
  <2>2. CASE Identify(h) \/ OpList(h) \/ Banned(h)
    BY <2>1, <2>2 DEF Identify, OpList, Banned
  <2>3. CASE Lock(h) \/ Hello(h)
    BY <1>4, <2>1, <2>3 DEF Lock, Hello
  <2>4. ASSUME NEW u \in Guests[h], Nick(h, u) PROVE OneHubInv'
    BY <1>4, <2>4 DEF Nick
  <2>5. ASSUME NEW u \in Guests[h], NEW sid \in Sids, Inf(h, sid, u) PROVE OneHubInv'
    BY <1>4, <2>1, <2>5 DEF Inf
  <2>6. ASSUME NEW name \in Names, Quit(h, name) PROVE OneHubInv'
    BY <1>3, <2>6 DEF Quit, Known, Hears, Idle, window
  <2> QED BY <1>6, <2>2, <2>3, <2>4, <2>5, <2>6 DEF Line
<1>7. CASE UNCHANGED vars
  BY <1>1, <1>7 DEF vars, window
<1>8. ASSUME NEW h \in Hubs,
             \/ Connecting(h) \/ Connected(h) \/ Failed(h) \/ Disconnected(h) \/ Open(h) \/ Second(h)
             \/ Disconnect(h) \/ Reconnect(h) \/ Shutdown(h) \/ Destroy(h) \/ Deleted(h)
      PROVE  OneHubInv'
  <2>1. UNCHANGED <<putting, refreshes, onlineUsers, online>>
    BY <1>8 DEF Connecting, Connected, Failed, Disconnected, Open, Second, Connect, Disconnect,
                Reconnect, Shutdown, Destroy, Deleted, window
  <2> QED BY <1>1, <2>1
<1>9. ASSUME (\E h \in Hubs : RefreshUserList(h)) \/ RefreshUser \/ RefreshFlag PROVE OneHubInv'
  <2>1. \A u : Alone(u)' => Alone(u)
    <3>1. \/ refreshes' = refreshes
          \/ \E h \in Hubs : refreshes' = [refreshes EXCEPT ![h] = @ + 1]
      BY <1>9 DEF RefreshUserList, RefreshUser, RefreshFlag
    <3>2. refreshes \in [Hubs -> Nat]
      BY Parts DEF WindowTypes, Counts
    <3>3. \A g \in Hubs : refreshes[g] > 0 => refreshes'[g] > 0
      BY <3>1, <3>2
    <3> QED BY <3>3 DEF Alone, Refreshed, OneHub, People, Entries
  <2> QED BY <1>9, <2>1, RefreshAlone DEF OneHubInv, Alone
<1> QED BY <1>2, <1>5, <1>6, <1>7, <1>8, <1>9 DEF Next, Thread, Window

LEMMA OneHubAlways == Spec => [](TypeOK /\ OneHubInv)
<1>1. Init => OneHubInv
  <2> SUFFICES ASSUME Init, NEW u PROVE AloneInv(u)
    BY DEF OneHubInv
  <2>1. OnHubs(u) = {} /\ \A h \in Hubs : putting[h].what = ""
    BY DoneWhat DEF Init, OnHubs
  <2> QED BY <2>1 DEF AloneInv
<1> QED BY <1>1, ListAlways, OneHubStep, PTL DEF Spec

(* OfflineIsUnlisted fails for users that two hubs know (the run hubs_offline),  *)
(* and for those on a hub whose list the window had sent again, and for them      *)
(* only: whoever can be on one hub alone, never refreshed, and lost the flag is    *)
(* on no hub, for any number of hubs.                                        *)
OneHubUsersAreUnlisted ==
    \A u \in Users \ online :
        Alone(u) /\ (\A h \in Hubs : putting[h].who # u \/ putting[h] = Done) => OnHubs(u) = {}

THEOREM OneHubUsersAreUnlistedAlways == Spec => []OneHubUsersAreUnlisted
<1>1. TypeOK /\ OneHubInv => OneHubUsersAreUnlisted
  <2> SUFFICES ASSUME TypeOK, OneHubInv, NEW u \in Users \ online, Alone(u),
                      \A h \in Hubs : putting[h].who # u \/ putting[h] = Done,
                      NEW x \in OnHubs(u)
               PROVE  FALSE
    BY DEF OneHubUsersAreUnlisted
  <2>1. x[1] \in Hubs
    BY ListedPeople
  <2> QED BY <2>1, DoneWhat DEF OneHubInv, AloneInv
<1> QED BY <1>1, OneHubAlways, PTL

(* So with a single hub OfflineIsUnlisted holds for as long as the window does not  *)
(* refresh its list, which that of an ADC hub never is.                         *)
THEOREM OfflineIsUnlistedOnOneHub ==
    ASSUME \A g, h \in Hubs : g = h
    PROVE  Spec => []((\A h \in Hubs \ Adc : refreshes[h] = 0) => OfflineIsUnlisted)
<1>1. OneHubUsersAreUnlisted => ((\A h \in Hubs \ Adc : refreshes[h] = 0) => OfflineIsUnlisted)
  BY DEF OneHubUsersAreUnlisted, OfflineIsUnlisted, Alone, OneHub, Refreshed
<1> QED BY <1>1, OneHubUsersAreUnlistedAlways, PTL

(* And a user of an NMDC hub is such a user, unless we are meant.               *)
LEMMA NmdcUsersAreOnOneHub ==
    ASSUME NEW h \in Hubs \ Adc, NEW u \in Guests[h] \ {Me}
    PROVE  OneHub(u)
<1>1. \A g \in Hubs : u \in People(g) => u \in Guests[g]
  BY DEF People, Entries
<1> QED BY <1>1, HubAssumption DEF OneHub

-----------------------------------------------------------------------------
(* The states of the hubs.                                                   *)

Putting(h) == putting[h].what \in {"on", "login"}

(* A hub's state, its connection and its users. That nothing is put online but on  *)
(* a connection that is up carries the rest through the callback that logs in.   *)
HubState(h) ==
    /\ client[h] = "made" =>
          life[h] = None /\ state[h] = "DISCONNECTED" /\ ~failing[h] /\ ~counted[h] /\ users[h] = {}
    /\ failing[h] => life[h] = "over" /\ users[h] = {}
    /\ Putting(h) => life[h] = "up" /\ ~failing[h]
    /\ client[h] = "open" =>
          /\ life[h] # "up" => users[h] = {}
          /\ ~failing[h] => /\ state[h] = "CONNECTING" <=> life[h] \in {"new", "trying"}
                            /\ state[h] = "DISCONNECTED" <=> life[h] \in {None, "over"}
          /\ h \notin Adc /\ counted[h] => life[h] = "up" \/ failing[h]
StateInv == \A h \in Hubs : HubState(h)

LEMMA StateInvIsTrue == TypeOK /\ StateInv => StateIsTrue /\ CountedIsUp
<1> SUFFICES ASSUME TypeOK, StateInv PROVE StateIsTrue /\ CountedIsUp
  OBVIOUS
<1>1. \A h \in Hubs : state[h] \in States /\ life[h] \in {None, "new", "trying", "up", "over"}
  BY Parts DEF HubTypes
<1> QED BY <1>1 DEF StateInv, HubState, StateIsTrue, CountedIsUp, States, None

LEMMA StateInit == Init => StateInv
<1> SUFFICES ASSUME Init, NEW h \in Hubs PROVE HubState(h)
  BY DEF StateInv
<1>1. /\ life[h] = None /\ state[h] = "DISCONNECTED" /\ ~failing[h] /\ ~counted[h] /\ users[h] = {}
      /\ putting[h] = Done /\ client[h] = "made"
  BY DEF Init
<1> QED BY <1>1, DoneWhat DEF HubState, Putting

(* A step of one hub is none of the others'.                                   *)
Untouched(g) ==
    /\ life'[g] = life[g] /\ state'[g] = state[g] /\ counted'[g] = counted[g]
    /\ users'[g] = users[g] /\ putting'[g] = putting[g] /\ failing'[g] = failing[g]
    /\ client'[g] = client[g]

LEMMA UntouchedState == ASSUME NEW g, HubState(g), Untouched(g) PROVE HubState(g)'
BY DEF HubState, Untouched, Putting

LEMMA OtherHubs ==
    ASSUME TypeOK, NEW h \in Hubs, Thread(h) \/ Second(h) \/ Window(h)
    PROVE  \A g \in Hubs \ {h} : Untouched(g)
<1> USE Parts DEF HubTypes, UserTypes, ListType, PuttingTypes, PhaseTypes
<1>1. ASSUME UNCHANGED Lists PROVE \A g \in Hubs : /\ users'[g] = users[g] /\ putting'[g] = putting[g]
                                                  /\ failing'[g] = failing[g] /\ client'[g] = client[g]
  BY <1>1 DEF Lists
<1>2. ASSUME NEW name, NEW u, NEW then, Add(h, name, u, then)
      PROVE  \A g \in Hubs \ {h} : /\ users'[g] = users[g] /\ putting'[g] = putting[g]
                                   /\ failing'[g] = failing[g] /\ client'[g] = client[g]
  BY <1>2 DEF Add
<1>3. ASSUME LogIn(h) \/ UNCHANGED hubVars \/ \E from, to : SetState(h, from, to)
      PROVE  \A g \in Hubs \ {h} : life'[g] = life[g] /\ state'[g] = state[g] /\ counted'[g] = counted[g]
  BY <1>3 DEF LogIn, hubVars, SetState
<1>4. CASE SetFlag(h)
  BY <1>3, <1>4 DEF SetFlag, Untouched
<1>5. CASE ClearUser(h) \/ PutOnline(h) \/ RefreshUserList(h)
  BY <1>5 DEF ClearUser, PutOffline, PutOnline, RefreshUserList, Untouched, hubVars
<1>6. CASE Connecting(h) \/ Connected(h) \/ Failed(h) \/ Disconnected(h)
  BY <1>6 DEF Connecting, Connected, Failed, Disconnected, Move, Clear, Untouched
<1>7. CASE Second(h) \/ Open(h)
  BY <1>7 DEF Second, Open, Connect, Untouched
<1>8. CASE Disconnect(h) \/ Reconnect(h) \/ Shutdown(h) \/ Destroy(h) \/ Deleted(h)
  BY <1>8 DEF Disconnect, Reconnect, Shutdown, Destroy, Deleted, Clear, Untouched, hubVars
<1>9. CASE Line(h)
  <2>1. CASE Identify(h)
    BY <1>1, <1>3, <2>1 DEF Identify, Untouched
  <2>2. CASE Lock(h) \/ Hello(h)
    BY <1>1, <1>2, <1>3, <2>2 DEF Lock, Hello, Untouched
  <2>3. CASE OpList(h) \/ Banned(h)
    BY <2>3 DEF OpList, Banned, Untouched, Lists
  <2>4. CASE \E u \in Guests[h] : Nick(h, u)
    BY <1>2, <1>3, <2>4 DEF Nick, Untouched
  <2>5. ASSUME NEW u \in Guests[h], NEW sid \in Sids, Inf(h, sid, u) PROVE \A g \in Hubs \ {h} : Untouched(g)
    BY <1>1, <1>2, <1>3, <2>5 DEF Inf, Untouched
  <2>6. CASE \E name \in Names : Quit(h, name)
    BY <2>6 DEF Quit, PutOffline, Untouched
  <2> QED BY <1>9, <2>1, <2>2, <2>3, <2>4, <2>5, <2>6 DEF Line
<1> QED BY <1>4, <1>5, <1>6, <1>7, <1>8, <1>9 DEF Thread, Window

(* On a connection that is up the hub may say what it likes.                   *)
LEMMA LineState ==
    ASSUME TypeOK, NEW h \in Hubs, HubState(h), Line(h)
    PROVE  HubState(h)'
<1> USE Parts DEF HubTypes, UserTypes, ListType, PuttingTypes, PhaseTypes
<1>1. life[h] = "up" /\ ~failing[h] /\ client[h] # "made"
  BY DEF Line, Identify, Lock, Hello, OpList, Banned, Nick, Inf, Quit, Hears, Idle, HubState, None
<1>2. life' = life /\ failing' = failing /\ client' = client
  BY DEF Line, Identify, Lock, Hello, OpList, Banned, Nick, Inf, Quit, Lists, SetState, LogIn, Add, hubVars
<1>3. state'[h] = state[h] \/ state'[h] \in {"IDENTIFY", "VERIFY", "NORMAL"}
  BY DEF Line, Identify, Lock, Hello, OpList, Banned, Nick, Inf, Quit, Lists, SetState, LogIn, Add, hubVars
<1> QED BY <1>1, <1>2, <1>3 DEF HubState, Putting, None

LEMMA ThreadState ==
    ASSUME TypeOK, NEW h \in Hubs, HubState(h), Thread(h)
    PROVE  HubState(h)'
<1> USE Parts DEF HubTypes, UserTypes, ListType, PuttingTypes, PhaseTypes
<1>1. CASE SetFlag(h)
  <2>1. putting'[h] = Done /\ UNCHANGED <<users, failing, client, life>>
    BY <1>1 DEF SetFlag, LogIn, hubVars
  <2>2. CASE putting[h].what = "login"
    <3>1. life[h] = "up" /\ ~failing[h] /\ client[h] # "made"
      BY <2>2 DEF HubState, Putting, None
    <3>2. state'[h] = "NORMAL"
      BY <1>1, <2>2 DEF SetFlag, LogIn
    <3> QED BY <2>1, <3>1, <3>2, DoneWhat DEF HubState, Putting, None
  <2>3. CASE UNCHANGED hubVars
    BY <2>1, <2>3, DoneWhat DEF HubState, Putting, hubVars
  <2> QED BY <1>1, <2>2, <2>3 DEF SetFlag
<1>2. CASE ClearUser(h)
  <2>1. putting'[h] = putting[h] \/ putting'[h].what = "off"
    BY <1>2, OffWhat DEF ClearUser, PutOffline
  <2> QED BY <1>2, <2>1 DEF ClearUser, HubState, Putting, hubVars
<1>3. CASE Connecting(h) \/ Connected(h)
  <2>1. putting'[h] = Done /\ failing'[h] = FALSE /\ users' = users /\ counted' = counted /\ client' = client
    BY <1>3 DEF Connecting, Connected, Idle
  <2>2. CASE life[h] = "new" /\ life'[h] = "trying" /\ state' = state
    BY <2>1, <2>2, DoneWhat DEF HubState, Putting, None
  <2>3. CASE life[h] = "trying" /\ life'[h] = "up" /\ state'[h] = "PROTOCOL"
    BY <2>1, <2>3, DoneWhat DEF HubState, Putting, None
  <2> QED BY <1>3, <2>2, <2>3 DEF Connecting, Connected, Move
<1>4. CASE Failed(h)
  <2>1. putting'[h] = Done /\ failing'[h] /\ users'[h] = {} /\ client' = client /\ life'[h] = "over"
    BY <1>4 DEF Failed, Idle, Clear, Move
  <2>2. life[h] \in {"trying", "up"}
    BY <1>4 DEF Failed, Move, Socket!Moves
  <2> QED BY <2>1, <2>2, DoneWhat DEF HubState, Putting, None
<1>5. CASE Disconnected(h)
  <2>1. /\ putting'[h] = Done /\ ~failing'[h] /\ state'[h] = "DISCONNECTED"
        /\ UNCHANGED <<users, client, life>> /\ failing[h] /\ (h \notin Adc => ~counted'[h])
    BY <1>5 DEF Disconnected
  <2> QED BY <2>1, DoneWhat DEF HubState, Putting, None
<1>6. CASE PutOnline(h)
  BY <1>6 DEF PutOnline, HubState, Putting, hubVars
<1> QED BY <1>1, <1>2, <1>3, <1>4, <1>5, <1>6, LineState DEF Thread

LEMMA WindowState ==
    ASSUME TypeOK, NEW h \in Hubs, HubState(h), Second(h) \/ Window(h)
    PROVE  HubState(h)'
<1> USE Parts DEF HubTypes, UserTypes, ListType, PuttingTypes, PhaseTypes
<1>1. CASE Second(h) \/ Open(h)
  <2>1. UNCHANGED <<counted, users, putting, failing>> /\ ~failing[h] /\ ~Putting(h)
    BY <1>1, DoneWhat DEF Second, Open, Connect, Idle, HubState, Putting, None
  <2>2. \/ state'[h] = "CONNECTING" /\ life'[h] = "new"
        \/ state'[h] = "DISCONNECTED" /\ life'[h] = None
    BY <1>1 DEF Second, Open, Connect
  <2>3. /\ client'[h] # "made"
        /\ client'[h] = "open" => life[h] \in {None, "over"} /\ users[h] = {} /\ (h \notin Adc => ~counted[h])
    BY <1>1, <2>1 DEF Second, Open, HubState, None
  <2> QED BY <2>1, <2>2, <2>3 DEF HubState, Putting, None
<1>2. CASE Disconnect(h) \/ Reconnect(h)
  BY <1>2 DEF Disconnect, Reconnect, HubState, Putting
<1>3. CASE Shutdown(h) \/ Destroy(h) \/ Deleted(h)
  <2>1. client'[h] \in {"closing", "deleting", "deleted"}
    BY <1>3 DEF Shutdown, Destroy, Deleted
  <2>2. putting'[h] = Done /\ ~failing'[h]
    BY <1>3 DEF Shutdown, Destroy, Deleted, Idle
  <2> QED BY <2>1, <2>2, DoneWhat DEF HubState, Putting
<1>4. CASE RefreshUserList(h)
  <2>1. users'[h] = {} /\ UNCHANGED <<hubVars, putting, failing, client>>
    BY <1>4 DEF RefreshUserList
  <2> QED BY <2>1 DEF HubState, Putting, hubVars
<1> QED BY <1>1, <1>2, <1>3, <1>4 DEF Window

LEMMA StateStep == TypeOK /\ StateInv /\ [Next]_vars => StateInv'
<1> SUFFICES ASSUME TypeOK, StateInv, [Next]_vars PROVE StateInv'
  OBVIOUS
<1>1. CASE UNCHANGED vars
  BY <1>1 DEF vars, hubVars, StateInv, HubState, Putting
<1>2. ASSUME NEW h \in Hubs, Thread(h) \/ Second(h) \/ Window(h) PROVE StateInv'
  <2>1. HubState(h)'
    BY <1>2, ThreadState, WindowState DEF StateInv
  <2>2. \A g \in Hubs \ {h} : HubState(g)'
    BY <1>2, OtherHubs, UntouchedState DEF StateInv
  <2> QED BY <2>1, <2>2 DEF StateInv
<1>3. CASE RefreshUser \/ RefreshFlag
  BY <1>3 DEF RefreshUser, RefreshFlag, hubVars, StateInv, HubState, Putting
<1> QED BY <1>1, <1>2, <1>3 DEF Next

LEMMA StateAlways == Spec => [](TypeOK /\ StateInv)
BY TypeInit, TypeStep, StateInit, StateStep, PTL DEF Spec

(* A hub that is logged in has a connection, one that is disconnected neither a     *)
(* connection nor users.                                                    *)
THEOREM StateIsTrueAlways == Spec => []StateIsTrue
BY StateAlways, StateInvIsTrue, PTL

(* No slots are given for an NMDC hub that is down.                            *)
THEOREM CountedIsUpAlways == Spec => []CountedIsUp
BY StateAlways, StateInvIsTrue, PTL

-----------------------------------------------------------------------------
(* The assertion in ~Client holds where the timer does not run beside putClient.  *)

Closed(h) == client[h] \in {"closing", "deleting", "deleted"} => life[h] = None
CloseInv == \A h \in Hubs : Closed(h)

LEMMA CloseStep == "close" \notin Env /\ TypeOK /\ CloseInv /\ [Next]_vars => CloseInv'
<1> SUFFICES ASSUME "close" \notin Env, TypeOK, CloseInv, [Next]_vars PROVE CloseInv'
  OBVIOUS
<1> USE Parts DEF HubTypes, PhaseTypes
<1>1. CASE UNCHANGED vars
  BY <1>1 DEF vars, hubVars, CloseInv, Closed
<1>2. ASSUME NEW h \in Hubs, Thread(h) \/ Second(h) \/ Window(h) PROVE Closed(h)'
  <2>1. CASE PutOnline(h) \/ SetFlag(h) \/ ClearUser(h) \/ Disconnected(h) \/ Line(h) \/ RefreshUserList(h)
    <3>1. life' = life /\ client' = client
      BY <2>1 DEF PutOnline, RefreshUserList, SetFlag, ClearUser, Disconnected, Line, Identify, Lock, Hello, OpList, Banned, Nick, Inf,
                  Quit, Lists, SetState, LogIn, Add, hubVars
    <3> QED BY <3>1 DEF CloseInv, Closed
  <2>2. CASE Connecting(h) \/ Connected(h) \/ Failed(h)
    <3>1. life[h] \in {"new", "trying", "up"} /\ client' = client
      BY <2>2 DEF Connecting, Connected, Failed, Move, Socket!Moves
    <3> QED BY <3>1 DEF CloseInv, Closed, None
  <2>3. CASE Second(h) \/ Open(h) \/ Disconnect(h) \/ Reconnect(h)
    <3>1. client'[h] = "open"
      BY <2>3 DEF Second, Open, Disconnect, Reconnect
    <3> QED BY <3>1 DEF Closed
  <2>4. CASE Shutdown(h) \/ Destroy(h) \/ Deleted(h)
    BY <2>4 DEF Shutdown, Destroy, Deleted, CloseInv, Closed, hubVars
  <2> QED BY <1>2, <2>1, <2>2, <2>3, <2>4 DEF Thread, Window
<1>3. ASSUME NEW h \in Hubs, Thread(h) \/ Second(h) \/ Window(h) PROVE CloseInv'
  BY <1>2, <1>3, OtherHubs DEF CloseInv, Closed, Untouched
<1>4. CASE RefreshUser \/ RefreshFlag
  BY <1>4 DEF RefreshUser, RefreshFlag, hubVars, CloseInv, Closed
<1> QED BY <1>1, <1>3, <1>4 DEF Next

(* A deleted hub has no socket, unless the timer connected it while it closed.   *)
THEOREM NoSocketLeftAlone ==
    ASSUME "close" \notin Env PROVE Spec => []NoSocketLeft
<1>1. Init => CloseInv
  BY DEF Init, CloseInv, Closed
<1>2. TypeOK /\ CloseInv /\ [Next]_vars => CloseInv'
  BY CloseStep
<1>3. CloseInv => NoSocketLeft
  BY DEF CloseInv, Closed, NoSocketLeft
<1>4. Spec => []TypeOK
  BY TypesAlways
<1> QED BY <1>1, <1>2, <1>3, <1>4, PTL DEF Spec
================================================================================
