-------------------------- MODULE RoomServerProofs --------------------------
(***************************************************************************)
(* Proofs about RoomServer, for any number of users, rooms and gates.      *)
(***************************************************************************)
EXTENDS RoomServer, TableLemmas

\* The keys GetFreeKey hands out are slots of the table, and free ones.
LEMMA FreeUserKey ==
    ASSUME TypeOK, GetFreeKey(FreeUsers, NumUsers, userCursor) \in User
    PROVE  GetFreeKey(FreeUsers, NumUsers, userCursor) \in FreeUsers
<1>1. FreeUsers \in SUBSET (0 .. NumUsers - 1) /\ NumUsers \in Nat /\ userCursor \in Nat
    BY RoomServerAssumption DEF FreeUsers, User, TypeOK
<1>2. NoKey \notin User /\ Wild \notin User
    BY DEF NoKey, Wild, User
<1>3. QED
    BY <1>1, <1>2, GetFreeKeyResult

LEMMA FreeRoomKey ==
    ASSUME TypeOK, GetFreeKey(FreeRooms, NumRooms, roomCursor) \in Room
    PROVE  GetFreeKey(FreeRooms, NumRooms, roomCursor) \in FreeRooms
<1>1. FreeRooms \in SUBSET (0 .. NumRooms - 1) /\ NumRooms \in Nat /\ roomCursor \in Nat
    BY RoomServerAssumption DEF FreeRooms, Room, TypeOK
<1>2. NoKey \notin Room /\ Wild \notin Room
    BY DEF NoKey, Wild, Room
<1>3. QED
    BY <1>1, <1>2, GetFreeKeyResult

LEMMA CursorTypes ==
    ASSUME TypeOK
    PROVE  /\ \A k \in User : CursorAfter(k, NumUsers, userCursor) \in 0 .. NumUsers + 1
           /\ \A k \in Room : CursorAfter(k, NumRooms, roomCursor) \in 0 .. NumRooms + 1
<1>1. NumUsers \in Nat /\ NumRooms \in Nat /\ User \subseteq Int /\ Room \subseteq Int
    BY RoomServerAssumption DEF User, Room
<1>2. userCursor \in 0 .. NumUsers + 1 /\ roomCursor \in 0 .. NumRooms + 1
    BY DEF TypeOK
<1>3. ASSUME NEW k \in User PROVE CursorAfter(k, NumUsers, userCursor) \in 0 .. NumUsers + 1
    BY <1>1, <1>2, CursorAfterType
<1>4. ASSUME NEW k \in Room PROVE CursorAfter(k, NumRooms, roomCursor) \in 0 .. NumRooms + 1
    BY <1>1, <1>2, CursorAfterType
<1>5. QED
    BY <1>3, <1>4

\* The updates of a user slot keep it a user slot.
LEMMA UserRecords ==
    ASSUME NEW f \in [User -> UserRecord], NEW u \in User
    PROVE  /\ \A g \in Gate :
                [f EXCEPT ![u].empty = FALSE, ![u].gate = g, ![u].player = FALSE]
                    \in [User -> UserRecord]
           /\ \A b \in BOOLEAN : [f EXCEPT ![u].player = b] \in [User -> UserRecord]
           /\ \A r \in Room \cup {NoRoom} : [f EXCEPT ![u].room = r] \in [User -> UserRecord]
           /\ [f[u] EXCEPT !.empty = TRUE, !.gate = NoGate] \in UserRecord
BY DEF UserRecord

LEMMA ReleaseUserType ==
    ASSUME NEW u \in User, ReleaseUser(u), users \in [User -> UserRecord]
    PROVE  users' \in [User -> UserRecord]
<1>1. CASE users[u].player
    BY <1>1 DEF ReleaseUser, UserRecord
<1>2. CASE ~users[u].player
    BY <1>2 DEF ReleaseUser, UserRecord
<1>3. QED
    BY <1>1, <1>2

\* The size CreateRoomReq gives a room is capped.
LEMMA CappedSize ==
    ASSUME NEW size \in AskedSizes
    PROVE  RoomSize(size) \in 0 .. MaxPlayers
<1>1. size \in Nat /\ MaxPlayers \in Nat
    BY RoomServerAssumption
<1>2. /\ Min({size, MaxPlayers}) \in {size, MaxPlayers}
      /\ \A y \in {size, MaxPlayers} : Min({size, MaxPlayers}) <= y
    BY <1>1, MinOfNaturals
<1>3. QED
    BY <1>1, <1>2 DEF RoomSize

LEMMA InitIInv == Init => IInv
<1> SUFFICES ASSUME Init PROVE IInv
    OBVIOUS
<1>1. 0 \in User /\ 0 \in Room
    BY RoomServerAssumption DEF User, Room
<1>2. TypeOK
    <2>1. users \in [User -> UserRecord]
        BY DEF Init, UserRecord, NoRoom
    <2>2. worker \in WorkerRecord
        BY <1>1 DEF Init, WorkerRecord, AtRest, WorkerPc, Pattern
    <2>3. NumUsers \in Nat /\ NumRooms \in Nat /\ MaxPlayers \in Nat /\ MaxListed \in Nat
        BY RoomServerAssumption
    <2>4. /\ listed \in [User -> 0 .. MaxListed]
          /\ userCursor \in 0 .. NumUsers + 1
          /\ gates \in SUBSET Gate
          /\ roomCursor \in 0 .. NumRooms + 1
        BY <2>3 DEF Init
    <2>5. /\ maxPlayer \in [Room -> 0 .. MaxPlayers]
          /\ count \in [Room -> Nat]
          /\ players \in [Room -> Seq(User)]
        BY <2>3 DEF Init
    <2>6. /\ waitClose \in [Room -> {"off", "fresh", "due"}]
          /\ gameStart \in [Room -> BOOLEAN]
          /\ running \in [Room -> BOOLEAN]
          /\ kcpServer \in [Room -> BOOLEAN]
          /\ kcpUsers \in [Room -> SUBSET User]
        BY DEF Init
    <2>7. roomList \in Seq(Room) /\ closed \in Seq(Room)
        BY DEF Init
    <2>8. mainPc \in MainPc /\ pos \in Nat /\ behind \in BOOLEAN /\ up \in BOOLEAN
        BY DEF Init, MainPc
    <2>9. QED
        BY <2>1, <2>2, <2>4, <2>5, <2>6, <2>7, <2>8 DEF TypeOK
<1>3. ScanInv /\ WorkerInv
    BY DEF Init, ScanInv, WorkerInv, AtRest, Entering, Joining, Leaving
<1>4. Membership
    <2>1. \A r \in Room : players[r] = <<>>
        BY DEF Init
    <2>2. \A u \in User : users[u].room \notin Room
        BY DEF Init, NoRoom, Room
    <2>3. QED
        BY <2>1, <2>2 DEF Membership, IsInjective, Contains
<1>5. CountIsLength /\ Capacity
    BY DEF Init, CountIsLength, Capacity, AtRest, Joining
<1>6. QED
    BY <1>2, <1>3, <1>4, <1>5 DEF IInv
-----------------------------------------------------------------------------
(* Types.                                                                  *)

LEMMA TypeUserActions ==
    ASSUME TypeOK,
           \/ \E g \in Gate : AcceptGate(g) \/ OpenNewUser(g) \/ GateLost(g)
           \/ \E u \in User : SpawnPlayer(u) \/ CloseOutside(u)
           \/ Leave
    PROVE  TypeOK'
<1> USE RoomServerAssumption DEF TypeOK
<1>1. ASSUME NEW g \in Gate, AcceptGate(g) PROVE TypeOK'
    BY <1>1 DEF AcceptGate, roomVars, mainVars
<1>2. ASSUME NEW g \in Gate, OpenNewUser(g) PROVE TypeOK'
    <2> DEFINE key == GetFreeKey(FreeUsers, NumUsers, userCursor)
    <2>1. CASE Crash
        BY <2>1 DEF Crash, userVars, roomVars, mainVars
    <2>2. CASE ~Crash
        <3>1. key \in User /\ listed[key] < MaxListed
            BY <1>2, <2>2 DEF OpenNewUser
        <3>2. CursorAfter(key, NumUsers, userCursor) \in 0 .. NumUsers + 1
            BY <3>1, CursorTypes
        <3> HIDE DEF key
        <3>3. [users EXCEPT ![key].empty = FALSE, ![key].gate = g, ![key].player = FALSE]
                \in [User -> UserRecord]
            BY <3>1, UserRecords
        <3>4. [listed EXCEPT ![key] = @ + 1] \in [User -> 0 .. MaxListed]
            BY <3>1
        <3>5. QED
            BY <1>2, <2>2, <3>2, <3>3, <3>4 DEF OpenNewUser, roomVars, mainVars, key
    <2>3. QED
        BY <2>1, <2>2
<1>3. ASSUME NEW g \in Gate, GateLost(g) PROVE TypeOK'
    <2>1. \A v \in User : [users[v] EXCEPT !.empty = TRUE, !.gate = NoGate] \in UserRecord
        BY UserRecords
    <2>2. users' \in [User -> UserRecord]
        BY <1>3, <2>1 DEF GateLost
    <2>3. gates' \in SUBSET Gate
        BY <1>3 DEF GateLost
    <2>4. QED
        BY <1>3, <2>2, <2>3 DEF GateLost, roomVars, mainVars
<1>4. ASSUME NEW u \in User, SpawnPlayer(u) PROVE TypeOK'
    <2>1. users' \in [User -> UserRecord]
        <3>1. PICK found \in BOOLEAN : users' = [users EXCEPT ![u].player = @ \/ found]
            BY <1>4 DEF SpawnPlayer
        <3>2. (users[u].player \/ found) \in BOOLEAN
            OBVIOUS
        <3>3. QED
            BY <3>1, <3>2, UserRecords
    <2>2. QED
        BY <1>4, <2>1 DEF SpawnPlayer, roomVars, mainVars
<1>5. ASSUME NEW u \in User, ReleaseUser(u)
      PROVE  users' \in [User -> UserRecord] /\ listed' \in [User -> 0 .. MaxListed]
    <2>1. users' \in [User -> UserRecord]
        BY <1>5, ReleaseUserType
    <2>2. listed' \in [User -> 0 .. MaxListed]
        BY <1>5 DEF ReleaseUser
    <2>3. QED
        BY <2>1, <2>2
<1>6. ASSUME NEW u \in User, CloseOutside(u) PROVE TypeOK'
    BY <1>5, <1>6 DEF CloseOutside, ReleaseUser, roomVars, mainVars
<1>7. CASE Leave
    <2>1. worker.user \in User
        BY DEF WorkerRecord
    <2>2. AtRest \in WorkerRecord
        BY DEF AtRest, WorkerRecord, WorkerPc, Pattern, User, Room
    <2>3. QED
        BY <1>5, <1>7, <2>1, <2>2 DEF Leave, ReleaseUser, roomVars, mainVars
<1>8. QED
    BY <1>1, <1>2, <1>3, <1>4, <1>6, <1>7

LEMMA TypeRoomActions ==
    ASSUME TypeOK,
           \/ \E u \in User :
                 \/ CloseInRoom(u)
                 \/ \E size \in AskedSizes, pattern \in AskedPatterns :
                       CreateRoom(u, size, pattern)
                 \/ \E r \in Room : JoinRoom(u, r)
           \/ AllLeft1 \/ AllLeft2
           \/ ListRoom \/ Enter \/ Turn1 \/ Turn2 \/ Turn3 \/ Enlist
           \/ \E r \in Room : Elapse(r)
    PROVE  TypeOK'
<1> USE RoomServerAssumption DEF TypeOK
<1>1. worker.user \in User /\ worker.room \in Room
    BY DEF WorkerRecord
<1>2. AtRest \in WorkerRecord
    BY DEF AtRest, WorkerRecord, WorkerPc, Pattern, User, Room
<1>3. \A pc \in WorkerPc : [worker EXCEPT !.pc = pc] \in WorkerRecord
    BY DEF WorkerRecord
<1>4. ASSUME NEW u \in User, CloseInRoom(u) PROVE TypeOK'
    <2> DEFINE r == users[u].room
               rest == RemoveFirst(players[r], u)
    <2>1. r \in Room /\ rest \in Seq(User) /\ Len(rest) \in Nat
        <3>1. r \in Room
            BY <1>4 DEF CloseInRoom, UserRecord
        <3>2. players[r] \in Seq(User)
            BY <3>1
        <3>3. QED
            BY <3>1, <3>2, RemoveFirstType, LenProperties
    <2>2. worker' \in WorkerRecord
        BY <1>4, <2>1 DEF CloseInRoom, AtRest, WorkerRecord, WorkerPc, Pattern
    <2>3. QED
        BY <1>4, <2>1, <2>2 DEF CloseInRoom, RemovePlayer, userVars, mainVars
<1>5. ASSUME NEW u \in User, NEW size \in AskedSizes, NEW pattern \in AskedPatterns,
             CreateRoom(u, size, pattern)
      PROVE  TypeOK'
    <2> DEFINE r == GetFreeKey(FreeRooms, NumRooms, roomCursor)
               newServer == ~kcpServer[r] /\ pattern # "replay"
    <2>1. CASE Crash
        BY <2>1 DEF Crash, userVars, roomVars, mainVars
    <2>2. CASE ~Crash
        <3>1. r \in Room
            BY <1>5, <2>2 DEF CreateRoom
        <3>2. CursorAfter(r, NumRooms, roomCursor) \in 0 .. NumRooms + 1
            BY <3>1, CursorTypes
        <3>3. RoomSize(size) \in 0 .. MaxPlayers
            BY CappedSize
        <3>4. newServer \in BOOLEAN /\ (kcpServer[r] \/ newServer) \in BOOLEAN
            OBVIOUS
        <3>5. /\ maxPlayer' = [maxPlayer EXCEPT ![r] = RoomSize(size)]
              /\ kcpServer' = [kcpServer EXCEPT ![r] = @ \/ newServer]
              /\ roomCursor' = CursorAfter(r, NumRooms, roomCursor)
              /\ worker' = [pc |-> "list", user |-> u, room |-> r,
                            pattern |-> pattern, port |-> newServer]
              /\ UNCHANGED <<userVars, count, players, waitClose, gameStart, running,
                             kcpUsers, roomList, mainVars, up>>
            BY <1>5, <2>2 DEF CreateRoom
        <3> HIDE DEF r, newServer
        <3>6. worker' \in WorkerRecord
            BY <3>1, <3>4, <3>5 DEF WorkerRecord, WorkerPc
        <3>7. kcpServer' \in [Room -> BOOLEAN] /\ maxPlayer' \in [Room -> 0 .. MaxPlayers]
            BY <3>1, <3>3, <3>4, <3>5
        <3>8. QED
            BY <3>2, <3>5, <3>6, <3>7 DEF userVars, mainVars
    <2>3. QED
        BY <2>1, <2>2
<1>6. ASSUME NEW u \in User, NEW r \in Room, JoinRoom(u, r) PROVE TypeOK'
    <2>1. worker' \in WorkerRecord
        BY <1>6 DEF JoinRoom, AtRest, WorkerRecord, WorkerPc, Pattern
    <2>2. QED
        BY <1>6, <2>1 DEF JoinRoom, userVars, roomVars, mainVars
<1>7. CASE AllLeft1
    BY <1>1, <1>3, <1>7 DEF AllLeft1, WorkerGoto, WorkerPc, userVars, mainVars
<1>8. CASE AllLeft2
    BY <1>1, <1>3, <1>8 DEF AllLeft2, WorkerGoto, WorkerPc, userVars, mainVars
<1>9. CASE ListRoom
    <2>1. Append(roomList, worker.room) \in Seq(Room)
        BY <1>1
    <2>2. QED
        BY <1>3, <1>9, <2>1 DEF ListRoom, WorkerGoto, WorkerPc, userVars, roomVars, mainVars
<1>10. CASE Enter
    <2>1. CASE Crash
        BY <2>1 DEF Crash, userVars, roomVars, mainVars
    <2>2. CASE ~Crash
        <3> DEFINE u == worker.user
                   r == worker.room
        <3>1. /\ users' = [users EXCEPT ![u].room = r]
              /\ kcpUsers' = [kcpUsers EXCEPT ![r] = @ \cup {u}]
              /\ count' = [count EXCEPT ![r] = @ + 1]
              /\ WorkerGoto("turn1")
              /\ UNCHANGED <<listed, userCursor, gates, maxPlayer, players, waitClose,
                             gameStart, running, kcpServer, roomCursor, roomList,
                             mainVars, up>>
            BY <1>10, <2>2 DEF Enter
        <3>2. u \in User /\ r \in Room
            BY <1>1
        <3> HIDE DEF u, r
        <3>3. users' \in [User -> UserRecord]
            BY <3>1, <3>2, UserRecords
        <3>4. kcpUsers' \in [Room -> SUBSET User]
            BY <3>1, <3>2
        <3>5. count' \in [Room -> Nat]
            <4>1. count \in [Room -> Nat] /\ count[r] + 1 \in Nat
                BY <3>2
            <4> HIDE DEF TypeOK
            <4>2. QED
                BY <3>1, <4>1
        <3>6. worker' \in WorkerRecord
            BY <1>3, <3>1 DEF WorkerGoto, WorkerPc
        <3>7. QED
            BY <3>1, <3>3, <3>4, <3>5, <3>6 DEF mainVars
    <2>3. QED
        BY <2>1, <2>2
<1>11. CASE Turn1
    <2>1. behind' \in BOOLEAN
        BY <1>11 DEF Turn1
    <2>2. QED
        BY <1>1, <1>3, <1>11, <2>1 DEF Turn1, WorkerGoto, WorkerPc, userVars, mainVars
<1>12. CASE Turn2
    BY <1>1, <1>3, <1>12 DEF Turn2, WorkerGoto, WorkerPc, userVars, mainVars
<1>13. CASE Turn3
    BY <1>1, <1>3, <1>13 DEF Turn3, WorkerGoto, WorkerPc, userVars, mainVars
<1>14. CASE Enlist
    <2>1. players' \in [Room -> Seq(User)]
        BY <1>1, <1>14 DEF Enlist
    <2>2. QED
        BY <1>2, <1>14, <2>1 DEF Enlist, userVars, mainVars
<1>15. ASSUME NEW r \in Room, Elapse(r) PROVE TypeOK'
    BY <1>15 DEF Elapse, userVars, mainVars
<1>16. QED
    BY <1>4, <1>5, <1>6, <1>7, <1>8, <1>9, <1>10, <1>11, <1>12, <1>13, <1>14, <1>15

LEMMA TypeScan ==
    ASSUME TypeOK, ScanInv, Scan
    PROVE  TypeOK'
<1> USE DEF TypeOK, MainGoto, MainPc
<1>1. CASE StartScan
    <2>1. closed' \in Seq(Room) /\ pos' \in Nat
        BY <1>1 DEF StartScan
    <2>2. QED
        BY <1>1, <2>1 DEF StartScan, userVars, roomVars
<1>2. CASE Visit \/ WaitClose \/ Turn
    BY <1>2 DEF Visit, WaitClose, Turn, userVars, roomVars
<1>3. CASE CheckStart
    BY <1>3 DEF CheckStart, userVars, roomVars
<1>4. CASE Close1 \/ NewTurn2
    BY <1>4 DEF Close1, NewTurn2, userVars
<1>5. CASE Close2 \/ NewTurn3
    BY <1>5 DEF Close2, NewTurn3, userVars
<1>6. CASE NewTurn1
    BY <1>6 DEF NewTurn1, userVars
<1>7. CASE Collect
    <2>1. Visited \in Room
        BY <1>7, ElementOfSeq DEF Collect, MainAt, ScanInv, Visited
    <2>2. closed' \in Seq(Room) /\ pos' \in Nat
        BY <1>7, <2>1 DEF Collect
    <2>3. QED
        BY <1>7, <2>2 DEF Collect, userVars, roomVars
<1>8. CASE Reap
    <2>1. roomList' \in Seq(Room)
        BY <1>8, RemoveFirstType DEF Reap
    <2>2. closed' \in Seq(Room)
        BY <1>8, HeadTailProperties DEF Reap
    <2>3. QED
        BY <1>8, <2>1, <2>2 DEF Reap, userVars, roomVars
<1>9. CASE EndScan
    BY <1>9 DEF EndScan, userVars, roomVars
<1>10. QED
    BY <1>1, <1>2, <1>3, <1>4, <1>5, <1>6, <1>7, <1>8, <1>9 DEF Scan

LEMMA ScanStep ==
    ASSUME TypeOK, ScanInv, Next
    PROVE  ScanInv'
<1> USE DEF ScanInv
<1>1. ASSUME UNCHANGED <<mainPc, pos, roomList>> PROVE ScanInv'
    BY <1>1
<1>2. ASSUME Crash \/ Down PROVE ScanInv'
    BY <1>1, <1>2 DEF Crash, Down, vars, mainVars
<1>3. ASSUME NEW g \in Gate, AcceptGate(g) \/ OpenNewUser(g) \/ GateLost(g) PROVE ScanInv'
    BY <1>1, <1>2, <1>3 DEF AcceptGate, OpenNewUser, GateLost, mainVars
<1>4. ASSUME NEW u \in User, SpawnPlayer(u) \/ CloseOutside(u) \/ CloseInRoom(u)
      PROVE  ScanInv'
    BY <1>1, <1>4 DEF SpawnPlayer, CloseOutside, CloseInRoom, mainVars
<1>5. ASSUME NEW u \in User, NEW size \in AskedSizes, NEW pattern \in AskedPatterns,
             CreateRoom(u, size, pattern)
      PROVE  ScanInv'
    BY <1>1, <1>2, <1>5 DEF CreateRoom, mainVars
<1>6. ASSUME NEW u \in User, NEW r \in Room, JoinRoom(u, r) PROVE ScanInv'
    BY <1>1, <1>6 DEF JoinRoom, mainVars
<1>7. CASE AllLeft1 \/ AllLeft2 \/ Leave \/ Turn1 \/ Turn2 \/ Turn3 \/ Enlist
    BY <1>1, <1>7 DEF AllLeft1, AllLeft2, Leave, Turn1, Turn2, Turn3, Enlist, mainVars
<1>8. CASE Enter
    BY <1>1, <1>2, <1>8 DEF Enter, mainVars
<1>9. CASE ListRoom
    BY <1>9 DEF ListRoom, ListFree, mainVars
<1>10. CASE Scan
    <2>1. CASE StartScan
        <3>1. Len(roomList) \in Nat /\ Len(roomList) # 0
            BY <2>1, EmptySeq DEF TypeOK, StartScan
        <3>2. QED
            BY <2>1, <3>1 DEF StartScan
    <2>2. CASE Visit \/ WaitClose \/ Turn
        BY <2>2 DEF Visit, WaitClose, Turn, MainAt, MainGoto
    <2>3. CASE Close1 \/ Close2 \/ NewTurn1 \/ NewTurn2 \/ NewTurn3
        BY <2>3 DEF Close1, Close2, NewTurn1, NewTurn2, NewTurn3, MainAt, MainGoto
    <2>4. CASE CheckStart
        BY <2>4 DEF CheckStart, MainAt
    <2>5. CASE Collect
        <3>1. pos \in 1 .. Len(roomList) /\ Len(roomList) \in Nat
            BY <2>5 DEF Collect, MainAt, TypeOK
        <3>2. QED
            BY <2>5, <3>1 DEF Collect
    <2>6. CASE Reap \/ EndScan
        BY <2>6 DEF Reap, EndScan, MainAt
    <2>7. QED
        BY <1>10, <2>1, <2>2, <2>3, <2>4, <2>5, <2>6 DEF Scan
<1>11. ASSUME NEW r \in Room, Elapse(r) PROVE ScanInv'
    BY <1>1, <1>11 DEF Elapse, mainVars
<1>12. QED
    BY <1>2, <1>3, <1>4, <1>5, <1>6, <1>7, <1>8, <1>9, <1>10, <1>11 DEF Next, Handle

LEMMA TypeStep ==
    ASSUME TypeOK, ScanInv, [Next]_vars
    PROVE  TypeOK' /\ ScanInv'
<1>1. ASSUME UNCHANGED vars PROVE TypeOK' /\ ScanInv'
    BY <1>1 DEF vars, userVars, roomVars, mainVars, TypeOK, ScanInv
<1>2. ASSUME Next PROVE TypeOK'
    BY <1>1, <1>2, TypeUserActions, TypeRoomActions, TypeScan DEF Next, Handle, Down
<1>3. QED
    BY <1>1, <1>2, ScanStep

\* Every value the server keeps has its type, and the main loop's node is on
\* g_xRoomList while it walks it: a node never leaves the list under the walk
\* (GameSvr.cpp, the scan of the rooms, under the list's lock).
THEOREM TypeCorrect == Spec => [](TypeOK /\ ScanInv)
<1>1. Init => TypeOK /\ ScanInv
    BY InitIInv DEF IInv
<1>2. TypeOK /\ ScanInv /\ [Next]_vars => (TypeOK /\ ScanInv)'
    BY TypeStep
<1>3. QED
    BY <1>1, <1>2, PTL DEF Spec

\* However the workers change g_xRoomList between its steps, the main loop never
\* looks at a position beyond its end (main).
THEOREM ScanHolds == Spec => []ScanInv
<1>1. TypeOK /\ ScanInv => ScanInv
    OBVIOUS
<1>2. QED
    BY <1>1, TypeCorrect, PTL
-----------------------------------------------------------------------------
(* Who sits where.                                                         *)

PlaceInv == WorkerInv /\ Membership /\ CountIsLength /\ Capacity

\* A step after which everyone sits where they sat, and the worker's handler is
\* still on the same side of its two writes.
Kept ==
    /\ \A u \in User : users'[u].room = users[u].room
    /\ worker'.user = worker.user /\ worker'.room = worker.room
    /\ Entering' = Entering /\ Joining' = Joining /\ Leaving' = Leaving
    /\ UNCHANGED <<maxPlayer, count, players>>

LEMMA KeptStep ==
    ASSUME TypeOK, PlaceInv, Kept
    PROVE  PlaceInv'
<1> USE DEF Kept, PlaceInv
<1>1. worker.user \in User
    BY DEF TypeOK, WorkerRecord
<1>2. WorkerInv'
    BY <1>1 DEF WorkerInv
<1>3. Membership'
    BY DEF Membership, InTransit
<1>4. CountIsLength' /\ Capacity'
    BY DEF CountIsLength, Capacity
<1>5. QED
    BY <1>2, <1>3, <1>4

\* The steps of the worker within a handler that move nobody.
LEMMA WorkerMoves ==
    ASSUME AllLeft1 \/ AllLeft2 \/ ListRoom \/ Turn1 \/ Turn2 \/ Turn3, TypeOK
    PROVE  Kept
<1> USE DEF Kept, Entering, Joining, Leaving, WorkerAt, WorkerGoto, userVars, roomVars
<1>1. ASSUME NEW pc, WorkerGoto(pc)
      PROVE  worker'.pc = pc /\ worker'.user = worker.user /\ worker'.room = worker.room
    BY <1>1 DEF TypeOK, WorkerRecord
<1>2. CASE AllLeft1
    BY <1>1, <1>2 DEF AllLeft1
<1>3. CASE AllLeft2
    BY <1>1, <1>3 DEF AllLeft2
<1>4. CASE ListRoom
    BY <1>1, <1>4 DEF ListRoom
<1>5. CASE Turn1
    BY <1>1, <1>5 DEF Turn1
<1>6. CASE Turn2
    BY <1>1, <1>6 DEF Turn2
<1>7. CASE Turn3
    BY <1>1, <1>7 DEF Turn3
<1>8. QED
    BY <1>2, <1>3, <1>4, <1>5, <1>6, <1>7

\* The main loop, time and the gates move nobody: GateLost and OpenNewUser
\* leave m_pRoom alone.
LEMMA OthersMoveNobody ==
    ASSUME TypeOK,
           \/ UNCHANGED vars \/ Crash \/ Down \/ Scan
           \/ \E r \in Room : Elapse(r)
           \/ \E g \in Gate : AcceptGate(g) \/ OpenNewUser(g) \/ GateLost(g)
           \/ \E u \in User : SpawnPlayer(u) \/ CloseOutside(u)
    PROVE  Kept /\ worker' = worker
<1> USE DEF Kept, Entering, Joining, Leaving
<1>1. ASSUME UNCHANGED <<users, worker, maxPlayer, count, players>> PROVE Kept /\ worker' = worker
    BY <1>1
<1>2. ASSUME UNCHANGED vars \/ Crash \/ Down PROVE Kept /\ worker' = worker
    BY <1>1, <1>2 DEF Crash, Down, vars, userVars, roomVars
<1>3. CASE Scan
    <2>1. CASE StartScan \/ Visit \/ WaitClose \/ Turn \/ CheckStart
        BY <1>1, <2>1 DEF StartScan, Visit, WaitClose, Turn, CheckStart, userVars, roomVars
    <2>2. CASE Close1 \/ Close2 \/ NewTurn1 \/ NewTurn2 \/ NewTurn3
        BY <1>1, <2>2 DEF Close1, Close2, NewTurn1, NewTurn2, NewTurn3, userVars
    <2>3. CASE Collect \/ Reap \/ EndScan
        BY <1>1, <2>3 DEF Collect, Reap, EndScan, userVars, roomVars
    <2>4. QED
        BY <1>3, <2>1, <2>2, <2>3 DEF Scan
<1>4. ASSUME NEW r \in Room, Elapse(r) PROVE Kept /\ worker' = worker
    BY <1>1, <1>4 DEF Elapse, userVars
<1>5. users \in [User -> UserRecord]
    BY DEF TypeOK
<1>6. ASSUME NEW g \in Gate, AcceptGate(g) PROVE Kept /\ worker' = worker
    BY <1>1, <1>6 DEF AcceptGate, roomVars
<1>7. ASSUME NEW g \in Gate, OpenNewUser(g) PROVE Kept /\ worker' = worker
    <2> DEFINE key == GetFreeKey(FreeUsers, NumUsers, userCursor)
    <2>1. \/ Crash
          \/ /\ key \in User
             /\ users' = [users EXCEPT ![key].empty = FALSE, ![key].gate = g,
                                       ![key].player = FALSE]
             /\ UNCHANGED <<maxPlayer, count, players, worker>>
        BY <1>7 DEF OpenNewUser, roomVars
    <2> HIDE DEF key
    <2>2. QED
        BY <1>2, <1>5, <2>1 DEF UserRecord
<1>8. ASSUME NEW g \in Gate, GateLost(g) PROVE Kept /\ worker' = worker
    BY <1>5, <1>8 DEF GateLost, UserRecord, roomVars
<1>9. ASSUME NEW u \in User, SpawnPlayer(u) PROVE Kept /\ worker' = worker
    BY <1>5, <1>9 DEF SpawnPlayer, UserRecord, roomVars
<1>10. ASSUME NEW u \in User, CloseOutside(u) PROVE Kept /\ worker' = worker
    BY <1>5, <1>10 DEF CloseOutside, ReleaseUser, UserRecord, roomVars
<1>11. QED
    BY <1>2, <1>3, <1>4, <1>6, <1>7, <1>8, <1>9, <1>10

LEMMA EnterStep ==
    ASSUME TypeOK, PlaceInv, Enter
    PROVE  PlaceInv'
<1> USE DEF PlaceInv
<1> DEFINE u == worker.user
           r == worker.room
<1>1. CASE Crash
    BY <1>1, OthersMoveNobody, KeptStep
<1>2. CASE ~Crash
    <2>1. /\ worker.pc = "enter"
          /\ users' = [users EXCEPT ![u].room = r]
          /\ count' = [count EXCEPT ![r] = @ + 1]
          /\ worker' = [worker EXCEPT !.pc = "turn1"]
          /\ UNCHANGED <<maxPlayer, players>>
        BY <1>2 DEF Enter, WorkerAt, WorkerGoto
    <2>2. u \in User /\ r \in Room
        BY DEF TypeOK, WorkerRecord
    <2>3. /\ users \in [User -> UserRecord] /\ count \in [Room -> Nat]
          /\ maxPlayer \in [Room -> 0 .. MaxPlayers] /\ worker \in WorkerRecord
        BY DEF TypeOK
    <2>4. worker'.pc = "turn1" /\ worker'.user = u /\ worker'.room = r
        BY <2>1, <2>3 DEF WorkerRecord
    <2>5. /\ ~Joining /\ ~Leaving /\ Entering
          /\ Joining' /\ ~Leaving' /\ ~Entering'
        BY <2>1, <2>4 DEF Joining, Leaving, Entering
    <2>6. users[u].room = NoRoom /\ (count[r] = 0 \/ count[r] < maxPlayer[r])
        BY <2>5 DEF WorkerInv
    <2>7. /\ users'[u].room = r
          /\ \A v \in User : v # u => users'[v].room = users[v].room
          /\ count'[r] = count[r] + 1
          /\ \A q \in Room : q # r => count'[q] = count[q]
        BY <2>1, <2>2, <2>3 DEF UserRecord
    <2> HIDE DEF u, r
    <2>8. WorkerInv'
        BY <2>4, <2>5, <2>7 DEF WorkerInv
    <2>9. Membership'
        <3>1. NoRoom \notin Room
            BY DEF NoRoom, Room
        <3>2. QED
            BY <2>1, <2>2, <2>4, <2>5, <2>6, <2>7, <3>1 DEF Membership, InTransit
    <2>10. CountIsLength'
        <3>1. ASSUME NEW q \in Room, q # r
              PROVE  count'[q] = Len(players'[q]) + IF Joining' /\ worker'.room = q THEN 1 ELSE 0
            BY <2>1, <2>2, <2>4, <2>5, <2>7, <3>1 DEF CountIsLength
        <3>2. count'[r] = Len(players'[r]) + 1
            BY <2>1, <2>2, <2>3, <2>5, <2>7 DEF CountIsLength
        <3>3. QED
            BY <2>4, <2>5, <3>1, <3>2 DEF CountIsLength
    <2>11. Capacity'
        <3>1. maxPlayer[r] \in Nat /\ count[r] \in Nat
            BY <2>2, <2>3, RoomServerAssumption
        <3>2. QED
            BY <2>1, <2>2, <2>6, <2>7, <3>1 DEF Capacity
    <2>12. QED
        BY <2>8, <2>9, <2>10, <2>11
<1>3. QED
    BY <1>1, <1>2

LEMMA EnlistStep ==
    ASSUME TypeOK, PlaceInv, Enlist
    PROVE  PlaceInv'
<1> USE DEF PlaceInv
<1> DEFINE u == worker.user
           r == worker.room
<1>1. /\ worker.pc = "enlist"
      /\ players' = [players EXCEPT ![r] = Append(@, u)]
      /\ worker' = AtRest
      /\ UNCHANGED <<users, maxPlayer, count>>
    BY DEF Enlist, WorkerAt, userVars
<1>2. u \in User /\ r \in Room /\ players \in [Room -> Seq(User)]
    BY DEF TypeOK, WorkerRecord
<1>3. Joining /\ ~Joining' /\ ~Leaving' /\ ~Entering'
    BY <1>1 DEF Joining, Leaving, Entering, AtRest
<1>4. users[u].room = r
    BY <1>3 DEF WorkerInv
<1>5. ~Contains(players[r], u) /\ IsInjective(players[r])
    BY <1>2, <1>3 DEF Membership, InTransit
<1> HIDE DEF u, r
<1>6. /\ players'[r] = Append(players[r], u)
      /\ \A q \in Room : q # r => players'[q] = players[q]
    BY <1>1, <1>2
<1>7. /\ Len(players'[r]) = Len(players[r]) + 1
      /\ IsInjective(players'[r])
      /\ \A x : Contains(players'[r], x) <=> Contains(players[r], x) \/ x = u
    <2>1. players[r] \in Seq(User)
        BY <1>2
    <2>2. QED
        BY <1>2, <1>5, <1>6, <2>1, AppendOnce
<1>8. WorkerInv'
    BY <1>3 DEF WorkerInv
<1>9. Membership'
    <2>1. \A q \in Room : IsInjective(players'[q])
        BY <1>6, <1>7 DEF Membership
    <2>2. ASSUME NEW q \in Room, NEW v \in User
          PROVE  Contains(players'[q], v) <=> users'[v].room = q /\ ~InTransit(v)'
        <3>1. ~InTransit(v)'
            BY <1>3 DEF InTransit
        <3>2. CASE v = u
            BY <1>1, <1>2, <1>3, <1>4, <1>6, <1>7, <3>1, <3>2 DEF Membership, InTransit, u
        <3>3. CASE v # u
            BY <1>1, <1>2, <1>3, <1>6, <1>7, <3>1, <3>3 DEF Membership, InTransit, u
        <3>4. QED
            BY <3>2, <3>3
    <2>3. QED
        BY <2>1, <2>2 DEF Membership
<1>10. CountIsLength'
    <2>1. \A q \in Room : Len(players[q]) \in Nat
        BY <1>2, LenProperties
    <2>2. count[r] = Len(players[r]) + 1 /\ \A q \in Room : q # r => count[q] = Len(players[q])
        BY <1>2, <1>3, <2>1 DEF CountIsLength, r
    <2>3. QED
        BY <1>1, <1>3, <1>6, <1>7, <2>1, <2>2 DEF CountIsLength
<1>11. Capacity'
    BY <1>1 DEF Capacity
<1>12. QED
    BY <1>8, <1>9, <1>10, <1>11

LEMMA CloseInRoomStep ==
    ASSUME TypeOK, PlaceInv, NEW u \in User, CloseInRoom(u)
    PROVE  PlaceInv'
<1> USE DEF PlaceInv
<1> DEFINE r == users[u].room
           rest == RemoveFirst(players[r], u)
<1>1. /\ worker.pc = "idle"
      /\ r # NoRoom
      /\ players' = [players EXCEPT ![r] = rest]
      /\ count' = [count EXCEPT ![r] = Len(rest)]
      /\ worker' = [AtRest EXCEPT !.pc = IF players'[r] = <<>> THEN "allLeft1" ELSE "leave",
                                  !.user = u, !.room = r]
      /\ UNCHANGED <<users, maxPlayer>>
    BY DEF CloseInRoom, RemovePlayer, Ready, userVars
<1>2. /\ users \in [User -> UserRecord] /\ players \in [Room -> Seq(User)]
      /\ count \in [Room -> Nat] /\ maxPlayer \in [Room -> 0 .. MaxPlayers]
    BY DEF TypeOK
<1>3. r \in Room
    BY <1>1, <1>2 DEF UserRecord
<1>4. /\ worker'.user = u /\ worker'.room = r
      /\ ~Entering /\ ~Joining /\ ~Leaving
      /\ ~Entering' /\ ~Joining' /\ Leaving'
    BY <1>1 DEF Entering, Joining, Leaving, AtRest
<1>5. Contains(players[r], u) /\ IsInjective(players[r])
    BY <1>3, <1>4 DEF Membership, InTransit
<1>6. /\ rest \in Seq(User)
      /\ Len(rest) = Len(players[r]) - 1
      /\ IsInjective(rest)
      /\ \A x : Contains(rest, x) <=> Contains(players[r], x) /\ x # u
    <2>1. players[r] \in Seq(User)
        BY <1>2, <1>3
    <2>2. QED
        BY <1>5, <2>1, RemoveFirstOnce
<1> HIDE DEF rest
<1>7. /\ players'[r] = rest /\ count'[r] = Len(rest)
      /\ \A q \in Room : q # r => players'[q] = players[q] /\ count'[q] = count[q]
    BY <1>1, <1>2, <1>3
<1>8. users'[u].room = r
    BY <1>1
<1> HIDE DEF r
<1>9. WorkerInv'
    BY <1>4, <1>8 DEF WorkerInv
<1>10. Membership'
    <2>1. \A q \in Room : IsInjective(players'[q])
        BY <1>6, <1>7 DEF Membership
    <2>2. ASSUME NEW q \in Room, NEW v \in User
          PROVE  Contains(players'[q], v) <=> users'[v].room = q /\ ~InTransit(v)'
        <3>1. CASE v = u
            BY <1>1, <1>3, <1>4, <1>6, <1>7, <3>1 DEF Membership, InTransit, r
        <3>2. CASE v # u
            BY <1>1, <1>3, <1>4, <1>6, <1>7, <3>2 DEF Membership, InTransit
        <3>3. QED
            BY <3>1, <3>2
    <2>3. QED
        BY <2>1, <2>2 DEF Membership
<1>11. CountIsLength'
    <2>1. \A q \in Room : Len(players[q]) \in Nat
        BY <1>2, LenProperties
    <2>2. \A q \in Room : count[q] = Len(players[q])
        BY <1>2, <1>4, <2>1 DEF CountIsLength
    <2>3. Len(rest) \in Nat
        BY <1>6, LenProperties
    <2>4. QED
        BY <1>4, <1>7, <2>1, <2>2, <2>3 DEF CountIsLength
<1>12. Capacity'
    <2>1. /\ count[r] = Len(players[r])
          /\ count[r] \in Nat /\ maxPlayer[r] \in Nat /\ Len(players[r]) \in Nat
        <3>1. players[r] \in Seq(User)
            BY <1>2, <1>3
        <3>2. Len(players[r]) \in Nat /\ count[r] \in Nat /\ maxPlayer[r] \in Nat
            BY <1>2, <1>3, <3>1, LenProperties, RoomServerAssumption
        <3>3. QED
            BY <1>3, <1>4, <3>2 DEF CountIsLength
    <2>2. count'[r] = count[r] - 1
        BY <1>6, <1>7, <2>1
    <2>3. QED
        BY <1>1, <1>3, <1>7, <2>1, <2>2 DEF Capacity
<1>13. QED
    BY <1>9, <1>10, <1>11, <1>12

LEMMA LeaveStep ==
    ASSUME TypeOK, PlaceInv, Leave
    PROVE  PlaceInv'
<1> USE DEF PlaceInv
<1> DEFINE u == worker.user
<1>1. /\ worker.pc = "leave" /\ worker' = AtRest
      /\ ReleaseUser(u)
      /\ UNCHANGED <<maxPlayer, count, players>>
    BY DEF Leave, WorkerAt, roomVars
<1>2. u \in User /\ users \in [User -> UserRecord]
    BY DEF TypeOK, WorkerRecord
<1>3. Leaving /\ ~Joining /\ ~Entering' /\ ~Joining' /\ ~Leaving'
    BY <1>1 DEF Entering, Joining, Leaving, AtRest
<1>4. /\ users'[u].room = NoRoom
      /\ \A v \in User : v # u => users'[v] = users[v]
    BY <1>1, <1>2 DEF ReleaseUser, UserRecord
<1>5. NoRoom \notin Room
    BY DEF NoRoom, Room
<1> HIDE DEF u
<1>6. Membership'
    <2>1. \A q \in Room : IsInjective(players'[q])
        BY <1>1 DEF Membership
    <2>2. ASSUME NEW q \in Room, NEW v \in User
          PROVE  Contains(players'[q], v) <=> users'[v].room = q /\ ~InTransit(v)'
        <3>1. CASE v = u
            BY <1>1, <1>3, <1>4, <1>5, <3>1 DEF Membership, InTransit, u
        <3>2. CASE v # u
            BY <1>1, <1>3, <1>4, <3>2 DEF Membership, InTransit, u
        <3>3. QED
            BY <3>1, <3>2
    <2>3. QED
        BY <2>1, <2>2 DEF Membership
<1>7. WorkerInv'
    BY <1>3 DEF WorkerInv
<1>8. CountIsLength' /\ Capacity'
    BY <1>1, <1>3 DEF CountIsLength, Capacity
<1>9. QED
    BY <1>6, <1>7, <1>8

\* The slot CreateRoomReq takes: nobody is in a room that counts nobody.
LEMMA VacantRoom ==
    ASSUME TypeOK, PlaceInv, worker.pc = "idle", NEW r \in FreeRooms
    PROVE  r \in Room /\ count[r] = 0 /\ \A u \in User : users[u].room # r
<1>1. r \in Room /\ count[r] = 0
    BY DEF FreeRooms, IsEmpty
<1>2. ~Joining /\ ~Leaving
    BY DEF Joining, Leaving
<1>3. players[r] \in Seq(User) /\ Len(players[r]) \in Nat
    BY <1>1, LenProperties DEF TypeOK
<1>4. Len(players[r]) = 0
    BY <1>1, <1>2, <1>3 DEF PlaceInv, CountIsLength
<1>5. \A u \in User : ~Contains(players[r], u)
    BY <1>3, <1>4 DEF Contains
<1>6. QED
    BY <1>1, <1>2, <1>5 DEF PlaceInv, Membership, InTransit

LEMMA PickStep ==
    ASSUME TypeOK, PlaceInv, NEW u \in User,
           \/ \E size \in AskedSizes, pattern \in AskedPatterns : CreateRoom(u, size, pattern)
           \/ \E r \in Room : JoinRoom(u, r)
    PROVE  PlaceInv'
<1> USE DEF PlaceInv
<1>1. ASSUME NEW r \in Room,
             worker.pc = "idle", users[u].room = NoRoom,
             worker'.pc \in {"list", "enter"}, worker'.user = u, worker'.room = r,
             count[r] = 0 \/ (count[r] < maxPlayer[r] /\ maxPlayer' = maxPlayer),
             \A q \in Room : q # r => maxPlayer'[q] = maxPlayer[q],
             UNCHANGED <<users, count, players>>
      PROVE  PlaceInv'
    <2>1. /\ ~Entering /\ ~Joining /\ ~Leaving
          /\ Entering' /\ ~Joining' /\ ~Leaving'
        BY <1>1 DEF Entering, Joining, Leaving
    <2>2. WorkerInv'
        BY <1>1, <2>1 DEF WorkerInv
    <2>3. Membership' /\ CountIsLength'
        BY <1>1, <2>1 DEF Membership, CountIsLength, InTransit
    <2>4. Capacity'
        BY <1>1 DEF Capacity
    <2>5. QED
        BY <2>2, <2>3, <2>4
<1>2. ASSUME NEW r \in Room, JoinRoom(u, r) PROVE PlaceInv'
    BY <1>1, <1>2 DEF JoinRoom, HasPlace, Ready, AtRest, userVars, roomVars
<1>3. ASSUME NEW size \in AskedSizes, NEW pattern \in AskedPatterns,
             CreateRoom(u, size, pattern)
      PROVE  PlaceInv'
    <2>1. CASE Crash
        BY <2>1, OthersMoveNobody, KeptStep
    <2>2. CASE ~Crash
        <3>1. PICK r \in Room :
                  /\ r = GetFreeKey(FreeRooms, NumRooms, roomCursor)
                  /\ worker.pc = "idle" /\ users[u].room = NoRoom
                  /\ maxPlayer' = [maxPlayer EXCEPT ![r] = RoomSize(size)]
                  /\ worker' = [pc |-> "list", user |-> u, room |-> r, pattern |-> pattern,
                                port |-> ~kcpServer[r] /\ pattern # "replay"]
                  /\ UNCHANGED <<userVars, count, players>>
            BY <1>3, <2>2 DEF CreateRoom, Ready
        <3>2. count[r] = 0
            BY <3>1, FreeRoomKey, VacantRoom
        <3>3. \A q \in Room : q # r => maxPlayer'[q] = maxPlayer[q]
            BY <3>1 DEF TypeOK
        <3>4. UNCHANGED <<users, count, players>>
            BY <3>1 DEF userVars
        <3>5. worker'.pc = "list" /\ worker'.user = u /\ worker'.room = r
            BY <3>1
        <3>6. worker.pc = "idle" /\ users[u].room = NoRoom
            BY <3>1
        <3> HIDE DEF PlaceInv
        <3>7. QED
            BY <1>1, <3>2, <3>3, <3>4, <3>5, <3>6
    <2>3. QED
        BY <2>1, <2>2
<1>4. QED
    BY <1>2, <1>3

LEMMA InvStep ==
    ASSUME IInv, [Next]_vars
    PROVE  IInv'
<1>1. TypeOK /\ ScanInv /\ PlaceInv
    BY DEF IInv, PlaceInv
<1>2. TypeOK' /\ ScanInv'
    BY <1>1, TypeStep
<1>3. ASSUME Kept PROVE PlaceInv'
    BY <1>1, <1>3, KeptStep
<1>4. ASSUME \/ UNCHANGED vars \/ Down \/ Scan
             \/ \E r \in Room : Elapse(r)
             \/ \E g \in Gate : AcceptGate(g) \/ OpenNewUser(g) \/ GateLost(g)
             \/ \E u \in User : SpawnPlayer(u) \/ CloseOutside(u)
      PROVE  PlaceInv'
    BY <1>1, <1>3, <1>4, OthersMoveNobody
<1>5. ASSUME NEW u \in User, CloseInRoom(u) PROVE PlaceInv'
    BY <1>1, <1>5, CloseInRoomStep
<1>6. ASSUME NEW u \in User,
             \/ \E size \in AskedSizes, pattern \in AskedPatterns : CreateRoom(u, size, pattern)
             \/ \E r \in Room : JoinRoom(u, r)
      PROVE  PlaceInv'
    BY <1>1, <1>6, PickStep
<1>7. ASSUME Handle PROVE PlaceInv'
    BY <1>1, <1>3, <1>7, WorkerMoves, EnterStep, EnlistStep, LeaveStep DEF Handle
<1>8. PlaceInv'
    BY <1>4, <1>5, <1>6, <1>7 DEF Next
<1>9. QED
    BY <1>2, <1>8 DEF IInv, PlaceInv
-----------------------------------------------------------------------------
(* The theorems.                                                           *)

\* The inductive invariant: types, the main loop's place on the list, the
\* worker's hold on its user and room, and who sits where.
THEOREM Invariance == Spec => []IInv
<1>1. Init => IInv
    BY InitIInv
<1>2. IInv /\ [Next]_vars => IInv'
    BY InvStep
<1>3. QED
    BY <1>1, <1>2, PTL DEF Spec

\* A handler's user stays out of every room until it has entered the handler's
\* room, and in that room until it has left (WorkerInv), for every number of
\* users and rooms.
THEOREM WorkerHolds == Spec => []WorkerInv
<1>1. IInv => WorkerInv
    BY DEF IInv
<1>2. QED
    BY <1>1, Invariance, PTL

\* However clients, gates and the main loop interleave, m_pRoom of the users
\* and m_pUserList of the rooms agree (OnUserJoinRoom, CloseUser).
THEOREM MembershipHolds == Spec => []Membership
<1>1. IInv => Membership
    BY DEF IInv
<1>2. QED
    BY <1>1, Invariance, PTL

\* m_nCount, kept by hand, is the length of m_pUserList (RemovePlayer,
\* OnUserJoinRoom).
THEOREM CountHolds == Spec => []CountIsLength
<1>1. IInv => CountIsLength
    BY DEF IInv
<1>2. QED
    BY <1>1, Invariance, PTL

\* No room is filled beyond its m_nMaxPlayer (JoinRoomReq).
THEOREM CapacityHolds == Spec => []Capacity
<1>1. IInv => Capacity
    BY DEF IInv
<1>2. QED
    BY <1>1, Invariance, PTL

\* CreateRoomReq takes only slots no user is in.
THEOREM VacantRoomTaken == Spec => CreatesVacantRoom
<1> DEFINE Vacant == worker.pc # "list" /\ worker'.pc = "list" =>
                        \A u \in User : users[u].room # worker'.room
<1>1. IInv /\ [Next]_vars => [Vacant]_vars
    <2> SUFFICES ASSUME IInv, Next, worker.pc # "list", worker'.pc = "list"
                 PROVE  \A u \in User : users[u].room # worker'.room
        OBVIOUS
    <2>1. TypeOK /\ PlaceInv
        BY DEF IInv, PlaceInv
    <2>2. worker' # worker
        OBVIOUS
    <2>3. ~Handle
        BY DEF Handle, AllLeft1, AllLeft2, Leave, ListRoom, Enter, Turn1, Turn2, Turn3,
               Enlist, WorkerGoto, AtRest, Crash, TypeOK, WorkerRecord, IInv
    <2>4. ASSUME NEW v \in User, NEW r \in Room PROVE ~CloseInRoom(v) /\ ~JoinRoom(v, r)
        BY DEF CloseInRoom, JoinRoom, AtRest
    <2>5. PICK v \in User, size \in AskedSizes, pattern \in AskedPatterns :
              CreateRoom(v, size, pattern)
        BY <2>1, <2>2, <2>3, <2>4, OthersMoveNobody, RoomServerAssumption DEF Next, Room
    <2>6. PICK r \in Room :
              /\ r = GetFreeKey(FreeRooms, NumRooms, roomCursor)
              /\ worker.pc = "idle"
              /\ worker' = [pc |-> "list", user |-> v, room |-> r, pattern |-> pattern,
                            port |-> ~kcpServer[r] /\ pattern # "replay"]
        BY <2>2, <2>5 DEF CreateRoom, Ready, Crash
    <2>7. r \in FreeRooms
        BY <2>1, <2>6, FreeRoomKey
    <2>8. worker'.room = r
        BY <2>6
    <2>9. QED
        BY <2>1, <2>6, <2>7, <2>8, VacantRoom
<1>2. QED
    BY <1>1, Invariance, PTL DEF Spec, CreatesVacantRoom

=============================================================================
