---------------------------- MODULE RoomServer ----------------------------
(***************************************************************************)
(* The core of the game server: which client sits in which room.           *)
(*                                                                         *)
(* Three threads share the state without a common lock:                    *)
(*   - the IOCP worker (ServerWorkerThread) runs the packet handlers, one  *)
(*     at a time, each of which is several steps here where another thread *)
(*     can see the difference;                                             *)
(*   - the main loop walks g_xRoomList under the list's lock, runs every   *)
(*     room's Update() and takes the closed rooms off the list; it does    *)
(*     not take the lock of a room;                                        *)
(*   - the KCP workers attach a player object to a user.                   *)
(***************************************************************************)
EXTENDS Integers, Sequences, SequencesExt, StaticArray

CONSTANTS NumUsers,      \* slots of g_xUserInfoArr (480 in the code)
          NumRooms,      \* slots of g_xRoom (_NUM_OF_MAXROOM)
          MaxPlayers,    \* _NUM_OF_MAXPLAYER, the cap on a room's size
          AskedSizes,    \* values of CreateRoomReq.maxplayer that are tried
          AskedPatterns, \* values of CreateRoomReq.pattern that are tried
          Gate,          \* gate connections (CGateInfo objects)
          NoGate,        \* m_pGateInfo == NULL
          MaxListed,     \* bound: nodes of one user in g_xUserInfoList
          MaxNodes       \* bound: nodes of g_xRoomList

Pattern == {"normal", "record", "replay"}

ASSUME RoomServerAssumption ==
    /\ NumUsers \in Nat \ {0}
    /\ NumRooms \in Nat \ {0}
    /\ MaxPlayers \in Nat \ {0}
    /\ AskedSizes \subseteq Nat
    /\ AskedPatterns \subseteq Pattern
    /\ NoGate \notin Gate
    /\ MaxListed \in Nat
    /\ MaxNodes \in Nat

User == 0 .. NumUsers - 1
Room == 0 .. NumRooms - 1
NoRoom == -1

VARIABLES
    users,       \* the user slots: m_bEmpty, m_pGateInfo, m_pRoom, m_pxPlayerObject # NULL
    listed,      \* how many nodes of g_xUserInfoList hold each user
    userCursor,  \* g_xUserInfoArr.m_nCursor
    gates,       \* the connected gates
    maxPlayer,   \* m_nMaxPlayer of each room
    count,       \* m_nCount
    players,     \* m_pUserList
    waitClose,   \* m_dwWaitClose: "off" is 0, "fresh" and "due" a time less and
                 \* at least 30000 ms ago
    gameStart,   \* m_bGameStart
    running,     \* running
    kcpServer,   \* m_pKcpServer # NULL
    kcpUsers,    \* the users on the room's KcpServer::users
    roomCursor,  \* g_xRoom.m_nCursor
    roomList,    \* g_xRoomList
    worker,      \* where the IOCP worker is in a handler, and on what
    mainPc,      \* where the main loop is; everywhere but at "idle" it holds
                 \* the lock of g_xRoomList
    pos,         \* the node of g_xRoomList the main loop is at
    closed,      \* the main loop's local list of closed rooms
    behind,      \* the visited room's m_currentTick is later than Update()'s t
    up           \* FALSE once the process has touched memory it does not own

userVars == <<users, listed, userCursor, gates>>
roomVars == <<maxPlayer, count, players, waitClose, gameStart, running,
              kcpServer, kcpUsers, roomCursor>>
mainVars == <<mainPc, pos, closed, behind>>
vars == <<userVars, roomVars, roomList, worker, mainVars, up>>

WorkerPc == {"idle", "list", "enter", "turn1", "turn2", "turn3", "enlist",
             "allLeft1", "allLeft2", "leave"}
MainPc == {"idle", "visit", "waitClose", "close1", "close2", "start", "turn",
           "newTurn1", "newTurn2", "newTurn3", "collect", "reap"}

UserRecord == [empty : BOOLEAN, gate : Gate \cup {NoGate},
               room : Room \cup {NoRoom}, player : BOOLEAN]
WorkerRecord == [pc : WorkerPc, user : User, room : Room,
                 pattern : Pattern, port : BOOLEAN]

AtRest == [pc |-> "idle", user |-> 0, room |-> 0, pattern |-> "normal", port |-> FALSE]

TypeOK ==
    /\ users \in [User -> UserRecord]
    /\ listed \in [User -> 0 .. MaxListed]
    /\ userCursor \in 0 .. NumUsers + 1
    /\ gates \in SUBSET Gate
    /\ maxPlayer \in [Room -> 0 .. MaxPlayers]
    /\ count \in [Room -> Nat]
    /\ players \in [Room -> Seq(User)]
    /\ waitClose \in [Room -> {"off", "fresh", "due"}]
    /\ gameStart \in [Room -> BOOLEAN]
    /\ running \in [Room -> BOOLEAN]
    /\ kcpServer \in [Room -> BOOLEAN]
    /\ kcpUsers \in [Room -> SUBSET User]
    /\ roomCursor \in 0 .. NumRooms + 1
    /\ roomList \in Seq(Room)
    /\ worker \in WorkerRecord
    /\ mainPc \in MainPc
    /\ pos \in Nat
    /\ closed \in Seq(Room)
    /\ behind \in BOOLEAN
    /\ up \in BOOLEAN
-----------------------------------------------------------------------------
(* The tables come from the heap; the members their constructors do not    *)
(* set (m_pKcpServer of a room) are taken to be zero, without which no     *)
(* room could ever be created.                                             *)

Init ==
    /\ users = [u \in User |-> [empty |-> TRUE, gate |-> NoGate,
                                room |-> NoRoom, player |-> FALSE]]
    /\ listed = [u \in User |-> 0]
    /\ userCursor = 0
    /\ gates = {}
    /\ maxPlayer = [r \in Room |-> 0]
    /\ count = [r \in Room |-> 0]
    /\ players = [r \in Room |-> <<>>]
    /\ waitClose = [r \in Room |-> "off"]
    /\ gameStart = [r \in Room |-> FALSE]
    /\ running = [r \in Room |-> FALSE]
    /\ kcpServer = [r \in Room |-> FALSE]
    /\ kcpUsers = [r \in Room |-> {}]
    /\ roomCursor = 0
    /\ roomList = <<>>
    /\ worker = AtRest
    /\ mainPc = "idle"
    /\ pos = 0
    /\ closed = <<>>
    /\ behind = FALSE
    /\ up = TRUE

IsEmptyIfStopped(r) == ~running[r]     \* mutant
IsEmptyIfUncounted(r) == count[r] = 0  \* mutant

\* CRoomInfo::IsEmpty, what GetFreeKey and the main loop ask of a room.
IsEmpty(r) == count[r] = 0 /\ ~running[r]

FreeRooms == {r \in Room : IsEmpty(r)}
FreeUsers == {u \in User : users[u].empty}

\* A packet names a user by an index the server once handed out (the first
\* NumUsers keys are handed out in order), or by the 0 a slot of the gate begins
\* with, before any GM_OPEN.
Opened == {u \in User : u < userCursor \/ u = 0}

\* The lock of g_xRoomList, which only the main loop holds across steps.
ListFree == mainPc = "idle"

\* The worker is between two packets; a packet arrives through some gate.
Ready == up /\ worker.pc = "idle" /\ gates # {}

WorkerAt(pc) == up /\ worker.pc = pc
WorkerGoto(pc) == worker' = [worker EXCEPT !.pc = pc]

\* An access outside the table, or through a null pointer, ends the process.
Crash ==
    /\ up' = FALSE
    /\ UNCHANGED <<userVars, roomVars, roomList, worker, mainVars>>
-----------------------------------------------------------------------------
(* Gates and users.                                                        *)

\* AcceptThread: a gate connects.
AcceptGate(g) ==
    /\ up
    /\ g \notin gates
    /\ gates' = gates \cup {g}
    /\ UNCHANGED <<users, listed, userCursor, roomVars, roomList, worker, mainVars, up>>

\* CGateInfo::OpenNewUser: GM_OPEN takes a slot for a client.  m_pRoom keeps
\* whatever the previous owner of the slot left there.
OpenNewUser(g) ==
    LET key == GetFreeKey(FreeUsers, NumUsers, userCursor)
    IN  /\ Ready
        /\ g \in gates
        /\ \/ /\ key = Wild
              /\ Crash
           \/ /\ key \in User
              /\ listed[key] < MaxListed
              /\ users' = [users EXCEPT ![key].empty = FALSE, ![key].gate = g,
                                        ![key].player = FALSE]
              /\ listed' = [listed EXCEPT ![key] = @ + 1]
              /\ userCursor' = CursorAfter(key, NumUsers, userCursor)
              /\ UNCHANGED <<gates, roomVars, roomList, worker, mainVars, up>>

\* ServerWorkerThread on a completion of zero bytes: the gate is gone.  Its
\* users become free slots, but stay on g_xUserInfoList and in their rooms.
GateLost(g) ==
    /\ Ready
    /\ g \in gates
    /\ gates' = gates \ {g}
    /\ users' = [u \in User |->
                    IF listed[u] > 0 /\ users[u].gate = g
                    THEN [users[u] EXCEPT !.empty = TRUE, !.gate = NoGate]
                    ELSE users[u]]
    /\ UNCHANGED <<listed, userCursor, roomVars, roomList, worker, mainVars, up>>

\* CUserInfo::OnEnterLevel, on a KCP worker: SpawnPlayer from a user some KCP
\* server knows takes a player object, if one is found.  OnPlayerSpawn then
\* goes through KcpServer::frame, which nothing has initialised: the process
\* may die there.
SpawnPlayer(u) ==
    /\ up
    /\ \E r \in Room : u \in kcpUsers[r]
    /\ \E found \in BOOLEAN : users' = [users EXCEPT ![u].player = @ \/ found]
    /\ up' \in BOOLEAN
    /\ UNCHANGED <<listed, userCursor, gates, roomVars, roomList, worker, mainVars>>

ReleaseUserWithPlayer(u) ==  \* mutant: m_pRoom is reset with the slot only
    /\ users' = [users EXCEPT ![u] =
                    IF @.player
                    THEN [empty |-> TRUE, gate |-> NoGate, room |-> NoRoom, player |-> FALSE]
                    ELSE @]
    /\ listed' = [listed EXCEPT ![u] = IF @ > 0 THEN @ - 1 ELSE 0]
    /\ UNCHANGED <<userCursor, gates>>

\* The end of CloseUser: the user is in no room; only one that has a player
\* object gives its slot back; one node leaves g_xUserInfoList.
ReleaseUser(u) ==
    /\ users' = [users EXCEPT ![u] =
                    IF @.player
                    THEN [empty |-> TRUE, gate |-> NoGate, room |-> NoRoom, player |-> FALSE]
                    ELSE [@ EXCEPT !.room = NoRoom]]
    /\ listed' = [listed EXCEPT ![u] = IF @ > 0 THEN @ - 1 ELSE 0]
    /\ UNCHANGED <<userCursor, gates>>

\* CloseUser of a user in no room.
CloseOutside(u) ==
    /\ Ready
    /\ u \in Opened
    /\ users[u].room = NoRoom
    /\ ReleaseUser(u)
    /\ UNCHANGED <<roomVars, roomList, worker, mainVars, up>>

RemovePlayerCountingFirst(u, r) ==  \* mutant: the count is taken too early
    /\ players' = [players EXCEPT ![r] = RemoveFirst(@, u)]
    /\ count' = [count EXCEPT ![r] = Len(players[r])]

\* CRoomInfo::RemovePlayer.
RemovePlayer(u, r) ==
    LET rest == RemoveFirst(players[r], u)
    IN  /\ players' = [players EXCEPT ![r] = rest]
        /\ count' = [count EXCEPT ![r] = Len(rest)]

\* CloseUser of a user in a room, up to CRoomInfo::RemovePlayer.
CloseInRoom(u) ==
    LET r == users[u].room
    IN  /\ Ready
        /\ u \in Opened
        /\ r # NoRoom
        /\ RemovePlayer(u, r)
        /\ worker' = [AtRest EXCEPT !.pc = IF players'[r] = <<>> THEN "allLeft1" ELSE "leave",
                                    !.user = u, !.room = r]
        /\ UNCHANGED <<userVars, maxPlayer, waitClose, gameStart, running, kcpServer,
                       kcpUsers, roomCursor, roomList, mainVars, up>>

\* CRoomInfo::OnPlayerAllLeaved, first write.
AllLeft1 ==
    /\ WorkerAt("allLeft1")
    /\ gameStart' = [gameStart EXCEPT ![worker.room] = FALSE]
    /\ WorkerGoto("allLeft2")
    /\ UNCHANGED <<userVars, maxPlayer, count, players, waitClose, running, kcpServer,
                   kcpUsers, roomCursor, roomList, mainVars, up>>

\* CRoomInfo::OnPlayerAllLeaved, second write.
AllLeft2 ==
    /\ WorkerAt("allLeft2")
    /\ waitClose' = [waitClose EXCEPT ![worker.room] = "fresh"]
    /\ WorkerGoto("leave")
    /\ UNCHANGED <<userVars, maxPlayer, count, players, gameStart, running, kcpServer,
                   kcpUsers, roomCursor, roomList, mainVars, up>>

\* The rest of CloseUser.
Leave ==
    /\ WorkerAt("leave")
    /\ ReleaseUser(worker.user)
    /\ worker' = AtRest
    /\ UNCHANGED <<roomVars, roomList, mainVars, up>>
-----------------------------------------------------------------------------
(* Creating and joining a room.                                            *)

SizeAsAsked(size) == size  \* mutant

\* CreateRoomReq: min(maxplayer, _NUM_OF_MAXPLAYER).
RoomSize(size) == Min({size, MaxPlayers})

\* CreateRoomReq up to InitKcpServer: a free slot is filled in, and gets a KCP
\* server and its port unless it already has one or the room is a replay.  A
\* user in a room and a full table are refused, which changes nothing.
CreateRoom(u, size, pattern) ==
    LET r == GetFreeKey(FreeRooms, NumRooms, roomCursor)
        newServer == ~kcpServer[r] /\ pattern # "replay"
    IN  /\ Ready
        /\ u \in Opened
        /\ users[u].room = NoRoom
        /\ \/ /\ r = Wild
              /\ Crash
           \/ /\ r \in Room
              /\ Len(roomList) < MaxNodes
              /\ maxPlayer' = [maxPlayer EXCEPT ![r] = RoomSize(size)]
              /\ kcpServer' = [kcpServer EXCEPT ![r] = @ \/ newServer]
              /\ roomCursor' = CursorAfter(r, NumRooms, roomCursor)
              /\ worker' = [pc |-> "list", user |-> u, room |-> r,
                            pattern |-> pattern, port |-> newServer]
              /\ UNCHANGED <<userVars, count, players, waitClose, gameStart, running,
                             kcpUsers, roomList, mainVars, up>>

\* The new room goes on g_xRoomList, under its lock; the reply is queued.
ListRoom ==
    /\ WorkerAt("list")
    /\ ListFree
    /\ roomList' = Append(roomList, worker.room)
    /\ WorkerGoto("enter")
    /\ UNCHANGED <<userVars, roomVars, mainVars, up>>

HasPlaceOnServer(r) == count[r] < MaxPlayers  \* mutant

\* JoinRoomReq: the room is not full.
HasPlace(r) == count[r] < maxPlayer[r]

\* JoinRoomReq that is granted: FindRoom under the list's lock, a user in no
\* room, a room that is not full.  m_bHasPsd is never set, so no password is
\* ever asked for.  A refusal changes nothing.
JoinRoom(u, r) ==
    /\ Ready
    /\ u \in Opened
    /\ ListFree
    /\ Contains(roomList, r)
    /\ users[u].room = NoRoom
    /\ HasPlace(r)
    /\ worker' = [AtRest EXCEPT !.pc = "enter", !.user = u, !.room = r]
    /\ UNCHANGED <<userVars, roomVars, roomList, mainVars, up>>

\* OnUserJoinRoom up to m_nCount++.  KcpServer::OnPlayerEnter goes through
\* m_pKcpServer, which a replay room on a fresh slot does not have.
Enter ==
    LET u == worker.user
        r == worker.room
    IN  /\ WorkerAt("enter")
        /\ \/ /\ ~kcpServer[r]
              /\ Crash
           \/ /\ kcpServer[r]
              /\ users' = [users EXCEPT ![u].room = r]
              /\ kcpUsers' = [kcpUsers EXCEPT ![r] = @ \cup {u}]
              /\ count' = [count EXCEPT ![r] = @ + 1]
              /\ WorkerGoto("turn1")
              /\ UNCHANGED <<listed, userCursor, gates, maxPlayer, players, waitClose,
                             gameStart, running, kcpServer, roomCursor, roomList,
                             mainVars, up>>

\* CRoomInfo::OnNewTurn in the worker: m_dwWaitClose and m_currentTick.  Where
\* the main loop has read its t for this very room, the new tick may be later.
Turn1 ==
    /\ WorkerAt("turn1")
    /\ waitClose' = [waitClose EXCEPT ![worker.room] = "off"]
    /\ behind' \in IF mainPc = "turn" /\ roomList[pos] = worker.room
                   THEN BOOLEAN ELSE {behind}
    /\ WorkerGoto("turn2")
    /\ UNCHANGED <<userVars, maxPlayer, count, players, gameStart, running, kcpServer,
                   kcpUsers, roomCursor, roomList, mainPc, pos, closed, up>>

\* OnNewTurn: m_bGameStart.
Turn2 ==
    /\ WorkerAt("turn2")
    /\ gameStart' = [gameStart EXCEPT ![worker.room] = TRUE]
    /\ WorkerGoto("turn3")
    /\ UNCHANGED <<userVars, maxPlayer, count, players, waitClose, running, kcpServer,
                   kcpUsers, roomCursor, roomList, mainVars, up>>

\* OnNewTurn: running.
Turn3 ==
    /\ WorkerAt("turn3")
    /\ running' = [running EXCEPT ![worker.room] = TRUE]
    /\ WorkerGoto("enlist")
    /\ UNCHANGED <<userVars, maxPlayer, count, players, waitClose, gameStart, kcpServer,
                   kcpUsers, roomCursor, roomList, mainVars, up>>

\* The end of OnUserJoinRoom: the user goes on the room's own list.
Enlist ==
    /\ WorkerAt("enlist")
    /\ players' = [players EXCEPT ![worker.room] = Append(@, worker.user)]
    /\ worker' = AtRest
    /\ UNCHANGED <<userVars, maxPlayer, count, waitClose, gameStart, running, kcpServer,
                   kcpUsers, roomCursor, roomList, mainVars, up>>
-----------------------------------------------------------------------------
(* The main loop.  Visited is the room at its node.                        *)

Visited == roomList[pos]

MainAt(pc) == up /\ mainPc = pc

\* Move to pc within the scan, touching nothing else of the main loop's.
MainGoto(pc) == mainPc' = pc /\ UNCHANGED <<pos, closed, behind>>

\* The main loop locks g_xRoomList and goes to its head.
StartScan ==
    /\ MainAt("idle")
    /\ roomList # <<>>
    /\ mainPc' = "visit"
    /\ pos' = 1
    /\ closed' = <<>>
    /\ behind' = FALSE
    /\ UNCHANGED <<userVars, roomVars, roomList, worker, up>>

\* An empty room is not updated.  Update(): is the wait for the close on?
Visit ==
    /\ MainAt("visit")
    /\ MainGoto(IF IsEmpty(Visited) THEN "collect"
                ELSE IF waitClose[Visited] # "off" THEN "waitClose" ELSE "start")
    /\ UNCHANGED <<userVars, roomVars, roomList, worker, up>>

\* WaitClose() reads m_dwWaitClose a second time: a zero the worker has put
\* there since is more than 30000 ms ago.
WaitClose ==
    /\ MainAt("waitClose")
    /\ MainGoto(IF waitClose[Visited] = "fresh" THEN "start" ELSE "close1")
    /\ UNCHANGED <<userVars, roomVars, roomList, worker, up>>

\* Close(), first write.
Close1 ==
    /\ MainAt("close1")
    /\ gameStart' = [gameStart EXCEPT ![Visited] = FALSE]
    /\ MainGoto("close2")
    /\ UNCHANGED <<userVars, maxPlayer, count, players, waitClose, running, kcpServer,
                   kcpUsers, roomCursor, roomList, worker, up>>

\* Close(), second write.
Close2 ==
    /\ MainAt("close2")
    /\ running' = [running EXCEPT ![Visited] = FALSE]
    /\ MainGoto("start")
    /\ UNCHANGED <<userVars, maxPlayer, count, players, waitClose, gameStart, kcpServer,
                   kcpUsers, roomCursor, roomList, worker, up>>

\* Update() returns unless the game is on; otherwise it reads the tick t.
CheckStart ==
    /\ MainAt("start")
    /\ mainPc' = IF gameStart[Visited] THEN "turn" ELSE "collect"
    /\ behind' = FALSE
    /\ UNCHANGED <<userVars, roomVars, roomList, worker, pos, closed, up>>

\* m_turnTime is 0, so m_totalTime is never positive and every Update() starts
\* a new turn; unless m_currentTick is later than t: the unsigned difference
\* then makes m_totalTime positive and the KCP server is updated instead.
Turn ==
    /\ MainAt("turn")
    /\ MainGoto(IF behind THEN "collect" ELSE "newTurn1")
    /\ UNCHANGED <<userVars, roomVars, roomList, worker, up>>

\* OnNewTurn in the main loop: m_dwWaitClose and m_currentTick.
NewTurn1 ==
    /\ MainAt("newTurn1")
    /\ waitClose' = [waitClose EXCEPT ![Visited] = "off"]
    /\ MainGoto("newTurn2")
    /\ UNCHANGED <<userVars, maxPlayer, count, players, gameStart, running, kcpServer,
                   kcpUsers, roomCursor, roomList, worker, up>>

NewTurn2 ==
    /\ MainAt("newTurn2")
    /\ gameStart' = [gameStart EXCEPT ![Visited] = TRUE]
    /\ MainGoto("newTurn3")
    /\ UNCHANGED <<userVars, maxPlayer, count, players, waitClose, running, kcpServer,
                   kcpUsers, roomCursor, roomList, worker, up>>

NewTurn3 ==
    /\ MainAt("newTurn3")
    /\ running' = [running EXCEPT ![Visited] = TRUE]
    /\ MainGoto("collect")
    /\ UNCHANGED <<userVars, maxPlayer, count, players, waitClose, gameStart, kcpServer,
                   kcpUsers, roomCursor, roomList, worker, up>>

CollectOneMore ==  \* mutant: the walk ends a node too late
    /\ MainAt("collect")
    /\ closed' = IF running[Visited] THEN closed ELSE Append(closed, Visited)
    /\ mainPc' = IF pos <= Len(roomList) THEN "visit" ELSE "reap"
    /\ pos' = pos + 1
    /\ UNCHANGED <<userVars, roomVars, roomList, worker, behind, up>>

\* A room that is not running is remembered as closed; on to the next node.
Collect ==
    /\ MainAt("collect")
    /\ closed' = IF running[Visited] THEN closed ELSE Append(closed, Visited)
    /\ mainPc' = IF pos < Len(roomList) THEN "visit" ELSE "reap"
    /\ pos' = pos + 1
    /\ UNCHANGED <<userVars, roomVars, roomList, worker, behind, up>>

\* The closed rooms leave g_xRoomList one by one.
Reap ==
    /\ MainAt("reap")
    /\ closed # <<>>
    /\ roomList' = RemoveFirst(roomList, Head(closed))
    /\ closed' = Tail(closed)
    /\ UNCHANGED <<userVars, roomVars, worker, mainPc, pos, behind, up>>

\* The scan is over and the lock is released.
EndScan ==
    /\ MainAt("reap")
    /\ closed = <<>>
    /\ mainPc' = "idle"
    /\ pos' = 0
    /\ UNCHANGED <<userVars, roomVars, roomList, worker, closed, behind, up>>

\* 30000 ms pass.
Elapse(r) ==
    /\ up
    /\ waitClose[r] = "fresh"
    /\ waitClose' = [waitClose EXCEPT ![r] = "due"]
    /\ UNCHANGED <<userVars, maxPlayer, count, players, gameStart, running, kcpServer,
                   kcpUsers, roomCursor, roomList, worker, mainVars, up>>

\* A process that has crashed stays down.
Down == ~up /\ UNCHANGED vars
-----------------------------------------------------------------------------
Handle ==
    \/ AllLeft1 \/ AllLeft2 \/ Leave
    \/ ListRoom \/ Enter \/ Turn1 \/ Turn2 \/ Turn3 \/ Enlist

Scan ==
    \/ StartScan \/ Visit \/ WaitClose \/ Close1 \/ Close2 \/ CheckStart
    \/ Turn \/ NewTurn1 \/ NewTurn2 \/ NewTurn3
    \/ Collect \/ Reap \/ EndScan

Next ==
    \/ \E g \in Gate : AcceptGate(g) \/ OpenNewUser(g) \/ GateLost(g)
    \/ \E u \in User :
          \/ SpawnPlayer(u) \/ CloseOutside(u) \/ CloseInRoom(u)
          \/ \E size \in AskedSizes, pattern \in AskedPatterns : CreateRoom(u, size, pattern)
          \/ \E r \in Room : JoinRoom(u, r)
    \/ Handle
    \/ Scan
    \/ \E r \in Room : Elapse(r)
    \/ Down

Spec == Init /\ [][Next]_vars

\* Each thread that has work to do gets to run, and time passes.  A lock that
\* is held is released, so weak fairness is what the scheduler gives.
Fairness ==
    /\ WF_vars(Handle)
    /\ WF_vars(Scan)
    /\ \A r \in Room : WF_vars(Elapse(r))

FairSpec == Spec /\ Fairness

-----------------------------------------------------------------------------
(* Properties.                                                             *)

\* The worker has picked a user and a room; or is inside OnUserJoinRoom, past
\* m_pRoom and m_nCount but not yet past the room's list; or inside CloseUser,
\* past the list but not m_pRoom.
Entering == worker.pc \in {"list", "enter"}
Joining == worker.pc \in {"turn1", "turn2", "turn3", "enlist"}
Leaving == worker.pc \in {"allLeft1", "allLeft2", "leave"}
InTransit(u) == (Joining \/ Leaving) /\ worker.user = u

\* A user's m_pRoom and the m_pUserList of the rooms tell the same story: each
\* user is on the list of its own room, once, and on no other, whatever gates
\* are lost and slots reused, but for the user the worker is just moving.
Membership ==
    /\ \A r \in Room : IsInjective(players[r])
    /\ \A r \in Room, u \in User :
          Contains(players[r], u) <=> users[u].room = r /\ ~InTransit(u)

\* m_nCount, which decides who may join and which slot is free, is kept by hand
\* beside the list (++ when joining, copied from the list when leaving): it is
\* the length of the list, and one more between the two writes of a join.
CountIsLength ==
    \A r \in Room :
        count[r] = Len(players[r]) + IF Joining /\ worker.room = r THEN 1 ELSE 0

\* The check in JoinRoomReq and the increment in OnUserJoinRoom are apart, yet a
\* room never holds more than its m_nMaxPlayer, or its creator alone where
\* that is 0.
Capacity == \A r \in Room : count[r] <= 1 \/ count[r] <= maxPlayer[r]

\* The worker moves a user that is in no room into one with a place left, or
\* out of the one it is in; nothing else moves users meanwhile.
WorkerInv ==
    /\ Entering =>
          /\ users[worker.user].room = NoRoom
          /\ count[worker.room] = 0 \/ count[worker.room] < maxPlayer[worker.room]
    /\ Joining \/ Leaving => users[worker.user].room = worker.room

\* The main loop's node is on g_xRoomList as long as the walk lasts.
ScanInv == mainPc \notin {"idle", "reap"} => pos \in 1 .. Len(roomList)

\* What a step preserves.  Membership and CountIsLength alone do not say that
\* the user and the room a handler has picked are still as it found them.
IInv ==
    /\ TypeOK
    /\ ScanInv
    /\ WorkerInv
    /\ Membership
    /\ CountIsLength
    /\ Capacity

\* CreateRoomReq never takes a slot some user is still in, though a room may be
\* closed, delisted or orphaned with users inside.
CreatesVacantRoom ==
    [][worker.pc # "list" /\ worker'.pc = "list" =>
        \A u \in User : users[u].room # worker'.room]_vars

\* A room everyone has left and whose wait is on comes off g_xRoomList, or a
\* turn starts in it (or the process dies).
WaitEnds ==
    \A r \in Room :
        (Contains(roomList, r) /\ ~gameStart[r] /\ waitClose[r] # "off")
            ~> (~Contains(roomList, r) \/ gameStart[r] \/ ~up)

=============================================================================
