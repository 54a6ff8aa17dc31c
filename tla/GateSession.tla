---------------------------- MODULE GateSession ----------------------------
(***************************************************************************)
(* The session slots of the gate (g_UserInfoArray) and the user index the  *)
(* game server gives each client.                                          *)
(*                                                                         *)
(* Four threads of the gate touch a slot without a lock: AcceptThread      *)
(* takes it, ServerWorkerThread and ClientWorkerThread give it back, and   *)
(* ThreadFuncForMsg reads nServerUserIndex from it for each packet.  A     *)
(* completion carries the slot, not the connection: after the slot has     *)
(* changed hands, what was the old client's is done to the new one.        *)
(*                                                                         *)
(* Clients are numbered in the order AcceptThread accepts them; the number *)
(* is also the socket, and 0 is none.  A completed receive is one whole    *)
(* packet: GateUplink has buffers and the pool, and in its turn one        *)
(* connection for each session.  The TCP streams between gate and server   *)
(* keep their order, as long as xSend does (module Downlink).              *)
(***************************************************************************)
EXTENDS Integers, Sequences, FiniteSets, StaticArray

CONSTANTS SlotCount,  \* elements of g_UserInfoArray (_MAX_USER_ARRAY)
          UserCount,  \* elements of the game server's g_xUserInfoArr
          MaxClients, \* bound: connections
          MaxPackets  \* bound: packets the gate receives

ASSUME GateSessionAssumption ==
    /\ SlotCount \in Nat \ {0}
    /\ UserCount \in Nat \ {0}
    /\ MaxClients \in Nat
    /\ MaxPackets \in Nat

Slot == 0 .. SlotCount - 1
User == 0 .. UserCount - 1
Client == 1 .. MaxClients
NoClient == 0

VARIABLES
    accepted,   \* how many clients AcceptThread has accepted
    slotOf,     \* the completion key of each client's socket, or NoKey
    used,       \* the slots with m_IsAvElements set
    sock,       \* CSessionInfo::sock
    index,      \* CSessionInfo::nServerUserIndex
    pending,    \* how many receives wait on each client's socket
    hung,       \* the clients that have hung up
    shut,       \* the clients whose socket the gate has closed
    received,   \* how many packets the gate has received
    acceptor,   \* where AcceptThread is
    worker,     \* where ServerWorkerThread is, and for which slot and client
    reader,     \* where ClientWorkerThread is
    queue,      \* g_SendToServerQ
    toServer,   \* the TCP stream to the game server
    toGate,     \* the TCP stream to the gate
    users,      \* m_sock of each taken user of the game server
    cursor,     \* m_nCursor of g_xUserInfoArr
    given,      \* history: the index the server gave each client, or NoKey
    told,       \* history: the clients whose index has come to the gate
    noticed,    \* history: the clients whose hang-up the worker has seen
    forced      \* history: a client was cut off that had not hung up

slotVars == <<used, sock, index>>
clientVars == <<accepted, slotOf, pending, hung, shut, received>>
threadVars == <<acceptor, worker, reader>>
gateVars == <<queue, toServer>>
serverVars == <<toGate, users, cursor, given>>
history == <<told, noticed, forced>>
vars == <<slotVars, clientVars, threadVars, gateVars, serverVars, history>>

Message == [type : {"open", "close", "packet"}, slot : Slot,
            from : Client \cup {NoClient}, index : User]
Answer == [type : {"index", "close"}, slot : Slot, from : Client, index : User]

TypeOK ==
    /\ accepted \in 0 .. MaxClients
    /\ slotOf \in [Client -> Slot \cup {NoKey}]
    /\ used \in SUBSET Slot
    /\ sock \in [Slot -> Client \cup {NoClient}]
    /\ index \in [Slot -> User]
    /\ pending \in [Client -> Nat]
    /\ hung \in SUBSET Client /\ shut \in SUBSET Client
    /\ received \in 0 .. MaxPackets
    /\ acceptor \in {"accept", "setup", "arm", "open"}
    /\ worker \in [pc : {"idle", "extract", "free", "shut", "again", "free again",
                         "shut again"},
                   slot : Slot, client : Client \cup {NoClient}]
    /\ reader \in [pc : {"idle", "shut"}, slot : Slot]
    /\ queue \in Seq([slot : Slot, from : Client])
    /\ toServer \in Seq(Message)
    /\ toGate \in Seq(Answer)
    /\ users \in [User -> Client \cup {NoClient}]
    /\ cursor \in Nat
    /\ given \in [Client -> User \cup {NoKey}]
    /\ told \in SUBSET Client /\ noticed \in SUBSET Client /\ forced \in BOOLEAN

Idle == [pc |-> "idle", slot |-> 0, client |-> NoClient]

Init ==
    /\ accepted = 0
    /\ slotOf = [c \in Client |-> NoKey]
    /\ used = {}
    /\ sock = [s \in Slot |-> NoClient]
    /\ index = [s \in Slot |-> 0]
    /\ pending = [c \in Client |-> 0]
    /\ hung = {} /\ shut = {}
    /\ received = 0
    /\ acceptor = "accept"
    /\ worker = Idle
    /\ reader = [pc |-> "idle", slot |-> 0]
    /\ queue = <<>> /\ toServer = <<>> /\ toGate = <<>>
    /\ users = [u \in User |-> NoClient]
    /\ cursor = 0
    /\ given = [c \in Client |-> NoKey]
    /\ told = {} /\ noticed = {} /\ forced = FALSE

\* SendSocketMsgS: what goes to the game server carries the slot's index as it
\* is at that moment.
SendSocketMsgS(type, s, from, i) ==
    toServer' = Append(toServer, [type |-> type, slot |-> s, from |-> from, index |-> i])
-----------------------------------------------------------------------------
(* The client.                                                             *)

HangUp(c) ==
    /\ slotOf[c] # NoKey
    /\ c \notin hung
    /\ hung' = hung \cup {c}
    /\ UNCHANGED <<slotVars, accepted, slotOf, pending, shut, received, threadVars,
                   gateVars, serverVars, history>>
-----------------------------------------------------------------------------
(* AcceptThread.                                                           *)

\* GetAvailablePosition and GetEmptyElement: the first free slot.  With none
\* the connection is left as it is, accepted and never read.
Accept ==
    /\ acceptor = "accept"
    /\ accepted < MaxClients
    /\ accepted' = accepted + 1
    /\ IF used = Slot
       THEN UNCHANGED <<slotOf, used, acceptor>>
       ELSE LET s == CHOOSE s \in Slot \ used : \A t \in Slot \ used : s <= t
            IN  /\ slotOf' = [slotOf EXCEPT ![accepted'] = s]
                /\ used' = used \cup {s}
                /\ acceptor' = "setup"
    /\ UNCHANGED <<sock, index, pending, hung, shut, received, worker, reader,
                   gateVars, serverVars, history>>

SetUp ==
    LET s == slotOf[accepted]
    IN  /\ acceptor = "setup"
        /\ sock' = [sock EXCEPT ![s] = accepted]
        /\ index' = [index EXCEPT ![s] = 0]
        /\ acceptor' = "arm"
        /\ UNCHANGED <<used, clientVars, worker, reader, gateVars, serverVars, history>>

\* Recv().  On a socket that has been closed meanwhile it fails, and AcceptThread
\* does not look at the result.
Arm ==
    /\ acceptor = "arm"
    /\ pending' = IF accepted \in shut THEN pending
                  ELSE [pending EXCEPT ![accepted] = @ + 1]
    /\ acceptor' = "open"
    /\ UNCHANGED <<slotVars, accepted, slotOf, hung, shut, received, worker, reader,
                   gateVars, serverVars, history>>

Announce ==
    /\ acceptor = "open"
    /\ SendSocketMsgS("open", slotOf[accepted], accepted, 0)
    /\ acceptor' = "accept"
    /\ UNCHANGED <<slotVars, clientVars, worker, reader, queue, serverVars, history>>
-----------------------------------------------------------------------------
(* CloseSession: the slot first, then whatever socket it names by then.    *)

\* Reset and SetEmptyElement.
FreeSlot(s) == used' = used \ {s}

\* closesocket.
ShutSocket(s) == shut' = shut \cup ({sock[s]} \ {NoClient})
-----------------------------------------------------------------------------
(* ServerWorkerThread.                                                     *)

\* A receive completes with nothing: the client has hung up, or the gate has
\* closed the socket under it.  GM_CLOSE goes out at once, past the packets
\* that wait on g_SendToServerQ.
Disconnected(c) ==
    LET s == slotOf[c]
    IN  /\ worker.pc = "idle"
        /\ pending[c] > 0
        /\ c \in hung \cup shut
        /\ pending' = [pending EXCEPT ![c] = @ - 1]
        /\ SendSocketMsgS("close", s, sock[s], index[s])
        /\ noticed' = noticed \cup {c}
        /\ worker' = [pc |-> "free", slot |-> s, client |-> c]
        /\ UNCHANGED <<slotVars, accepted, slotOf, hung, shut, received, acceptor, reader,
                       queue, serverVars, told, forced>>

\* A receive completes with a packet, which may have been sent long before.
Received(c) ==
    /\ worker.pc = "idle"
    /\ pending[c] > 0
    /\ received < MaxPackets
    /\ received' = received + 1
    /\ pending' = [pending EXCEPT ![c] = @ - 1]
    /\ worker' = [pc |-> "extract", slot |-> slotOf[c], client |-> c]
    /\ UNCHANGED <<slotVars, accepted, slotOf, hung, shut, acceptor, reader,
                   gateVars, serverVars, history>>

\* The packet goes on g_SendToServerQ with the number of the slot.
Push ==
    /\ worker.pc = "extract"
    /\ queue' = Append(queue, [slot |-> worker.slot, from |-> worker.client])
    /\ worker' = [worker EXCEPT !.pc = "again"]
    /\ UNCHANGED <<slotVars, clientVars, acceptor, reader, toServer, serverVars, history>>

\* ExtractPacket does not accept its length: CloseSession, and then the receive
\* all the same.
Reject ==
    /\ worker.pc = "extract"
    /\ FreeSlot(worker.slot)
    /\ forced' = TRUE
    /\ worker' = [worker EXCEPT !.pc = "shut again"]
    /\ UNCHANGED <<sock, index, clientVars, acceptor, reader, gateVars, serverVars,
                   told, noticed>>

ShutRejected ==
    /\ worker.pc = "shut again"
    /\ ShutSocket(worker.slot)
    /\ worker' = [worker EXCEPT !.pc = "again"]
    /\ UNCHANGED <<slotVars, accepted, slotOf, pending, hung, received, acceptor, reader,
                   gateVars, serverVars, history>>

\* A mutant: the worker goes on to the next completion without a new receive.
ReceiveOnce ==
    /\ worker.pc = "again"
    /\ worker' = Idle
    /\ UNCHANGED <<slotVars, clientVars, acceptor, reader, gateVars, serverVars, history>>

\* The next receive, on the socket the slot names now.  If that is closed the
\* receive fails, and the worker closes the session (again).
ReceiveAgain ==
    LET c == sock[worker.slot]
    IN  /\ worker.pc = "again"
        /\ IF c \in shut
           THEN worker' = [worker EXCEPT !.pc = "free"] /\ UNCHANGED pending
           ELSE worker' = Idle /\ pending' = [pending EXCEPT ![c] = @ + 1]
        /\ UNCHANGED <<slotVars, accepted, slotOf, hung, shut, received, acceptor, reader,
                       gateVars, serverVars, history>>

Free ==
    /\ worker.pc = "free"
    /\ FreeSlot(worker.slot)
    /\ worker' = [worker EXCEPT !.pc = "shut"]
    /\ UNCHANGED <<sock, index, clientVars, acceptor, reader, gateVars, serverVars, history>>

\* A mutant: after CloseSession the worker falls through to the next receive.
ShutAndReceive ==
    /\ worker.pc = "shut"
    /\ ShutSocket(worker.slot)
    /\ worker' = [worker EXCEPT !.pc = "again"]
    /\ UNCHANGED <<slotVars, accepted, slotOf, pending, hung, received, acceptor, reader,
                   gateVars, serverVars, history>>

Shut ==
    /\ worker.pc = "shut"
    /\ ShutSocket(worker.slot)
    /\ worker' = Idle
    /\ UNCHANGED <<slotVars, accepted, slotOf, pending, hung, received, acceptor, reader,
                   gateVars, serverVars, history>>
-----------------------------------------------------------------------------
(* ThreadFuncForMsg.                                                       *)

Forward ==
    LET p == Head(queue)
    IN  /\ queue # <<>>
        /\ queue' = Tail(queue)
        /\ SendSocketMsgS("packet", p.slot, p.from, index[p.slot])
        /\ UNCHANGED <<slotVars, clientVars, threadVars, serverVars, history>>
-----------------------------------------------------------------------------
(* The game server, as far as the gate can tell.                           *)

Answered(type, m, i) ==
    toGate' = Append(toGate, [type |-> type, slot |-> m.slot, from |-> m.from, index |-> i])

\* A mutant: the client is answered with whatever GetFreeKey returns.
OpenAnyway ==
    LET m == Head(toServer)
        u == GetFreeKey({v \in User : users[v] = NoClient}, UserCount, cursor)
    IN  /\ toServer # <<>> /\ m.type = "open"
        /\ toServer' = Tail(toServer)
        /\ cursor' = CursorAfter(u, UserCount, cursor)
        /\ users' = [v \in User |-> IF v = u THEN m.from ELSE users[v]]
        /\ given' = [given EXCEPT ![m.from] = u]
        /\ Answered("index", m, u)
        /\ UNCHANGED <<slotVars, clientVars, threadVars, queue, history>>

\* OpenNewUser: a free user slot and GM_SERVERUSERINDEX; with none, no answer.  A
\* search behind the full table (Wild) either finds nothing too or ends the
\* server, which then takes no further step: nothing here makes it take one.
Open ==
    LET m == Head(toServer)
        u == GetFreeKey({v \in User : users[v] = NoClient}, UserCount, cursor)
    IN  /\ toServer # <<>> /\ m.type = "open"
        /\ toServer' = Tail(toServer)
        /\ cursor' = CursorAfter(u, UserCount, cursor)
        /\ IF u \in User
           THEN /\ users' = [users EXCEPT ![u] = m.from]
                /\ given' = [given EXCEPT ![m.from] = u]
                /\ Answered("index", m, u)
           ELSE UNCHANGED <<users, given, toGate>>
        /\ UNCHANGED <<slotVars, clientVars, threadVars, queue, history>>

\* CloseUser: the slot is given back only if the user has a player object.
Close ==
    LET m == Head(toServer)
    IN  /\ toServer # <<>> /\ m.type = "close"
        /\ toServer' = Tail(toServer)
        /\ \/ users' = [users EXCEPT ![m.index] = NoClient]
           \/ UNCHANGED users
        /\ UNCHANGED <<slotVars, clientVars, threadVars, queue, toGate, cursor, given,
                       history>>

Handle ==
    /\ toServer # <<>> /\ Head(toServer).type = "packet"
    /\ toServer' = Tail(toServer)
    /\ UNCHANGED <<slotVars, clientVars, threadVars, queue, serverVars, history>>

\* A ProtocolVerify the server refuses: DisconnectClient names the slot.
Refuse ==
    LET m == Head(toServer)
    IN  /\ toServer # <<>> /\ m.type = "packet"
        /\ toServer' = Tail(toServer)
        /\ Answered("close", m, 0)
        /\ forced' = TRUE
        /\ UNCHANGED <<slotVars, clientVars, threadVars, queue, users, cursor, given,
                       told, noticed>>
-----------------------------------------------------------------------------
(* ClientWorkerThread.                                                     *)

\* A mutant: an index that is there already is kept.
LearnFirst ==
    LET m == Head(toGate)
    IN  /\ reader.pc = "idle"
        /\ toGate # <<>> /\ m.type = "index"
        /\ toGate' = Tail(toGate)
        /\ index' = [index EXCEPT ![m.slot] = IF @ = 0 THEN m.index ELSE @]
        /\ told' = told \cup {m.from}
        /\ UNCHANGED <<used, sock, clientVars, threadVars, gateVars, users, cursor, given,
                       noticed, forced>>

\* GM_SERVERUSERINDEX.
Learn ==
    LET m == Head(toGate)
    IN  /\ reader.pc = "idle"
        /\ toGate # <<>> /\ m.type = "index"
        /\ toGate' = Tail(toGate)
        /\ index' = [index EXCEPT ![m.slot] = m.index]
        /\ told' = told \cup {m.from}
        /\ UNCHANGED <<used, sock, clientVars, threadVars, gateVars, users, cursor, given,
                       noticed, forced>>

\* GM_CLOSE: CloseSession of whoever has the slot.
CutOff ==
    LET m == Head(toGate)
    IN  /\ reader.pc = "idle"
        /\ toGate # <<>> /\ m.type = "close"
        /\ toGate' = Tail(toGate)
        /\ FreeSlot(m.slot)
        /\ reader' = [pc |-> "shut", slot |-> m.slot]
        /\ UNCHANGED <<sock, index, clientVars, acceptor, worker, gateVars, users, cursor,
                       given, history>>

ShutCutOff ==
    /\ reader.pc = "shut"
    /\ ShutSocket(reader.slot)
    /\ reader' = [reader EXCEPT !.pc = "idle"]
    /\ UNCHANGED <<slotVars, accepted, slotOf, pending, hung, received, acceptor, worker,
                   gateVars, serverVars, history>>
-----------------------------------------------------------------------------
Accepting == Accept \/ SetUp \/ Arm \/ Announce
Working ==
    \/ \E c \in Client : Disconnected(c) \/ Received(c)
    \/ Push \/ Reject \/ ShutRejected \/ ReceiveAgain \/ Free \/ Shut
Serving == Open \/ Close \/ Handle \/ Refuse
Reading == Learn \/ CutOff \/ ShutCutOff

Next ==
    \/ \E c \in Client : HangUp(c)
    \/ Accepting \/ Working \/ Forward \/ Serving \/ Reading

Spec == Init /\ [][Next]_vars

\* AcceptThread and the IOCP worker run whenever they have something to do.
FairSpec == Spec /\ WF_vars(Accepting) /\ WF_vars(Working)
-----------------------------------------------------------------------------
(* Properties.                                                             *)

\* Once the answer to its GM_OPEN has come back, the client that last took a
\* slot has its own index there, whatever answers to earlier owners of the slot
\* were still under way and however the slot was closed.
OwnIndex ==
    \A s \in Slot : sock[s] \in told => index[s] = given[sock[s]]

\* As long as clients only hang up, a slot serves one connection: a receive
\* waits for its client alone, on a slot that is not free to be taken.
OneClientPerSlot ==
    ~forced =>
        \A c \in Client : pending[c] > 0 =>
            /\ pending[c] = 1
            /\ slotOf[c] \in used
            /\ \A d \in Client \ {c} : pending[d] > 0 => slotOf[d] # slotOf[c]

\* As long as clients only hang up, each hang-up is noticed in the end, and the
\* game server told, unless the gate has closed the socket first.
HangUpNoticed ==
    \A c \in Client : c \in hung ~> (c \in noticed \cup shut \/ forced)

\* The index of a packet is its sender's: the server handles none of them as
\* another client's.
SenderIndex ==
    \A i \in 1 .. Len(toServer) :
        LET m == toServer[i]
        IN  m.type = "packet" => users[m.index] \in {NoClient, m.from}
-----------------------------------------------------------------------------
(* The inductive invariant behind OwnIndex.                                *)

\* The clients AcceptThread is done with, and those whose slot is set up.
Announced == {c \in Client : c < accepted \/ (c = accepted /\ acceptor = "accept")}
Settled == {c \in Client : c < accepted \/ (c = accepted /\ acceptor # "setup")}

\* A socket's completion key is its slot for good, and a slot names the last
\* client that took it.
KeyInv ==
    /\ acceptor # "accept" => accepted \in Client /\ slotOf[accepted] \in Slot
    /\ worker.pc = "extract" => worker.client \in Client
    /\ \A c \in Client : c > accepted => slotOf[c] = NoKey
    /\ \A c \in Client : pending[c] > 0 => slotOf[c] \in Slot
    /\ \A s \in Slot : sock[s] \in Client => slotOf[sock[s]] = s /\ sock[s] \in Settled
    /\ \A c \in Settled : slotOf[c] \in Slot => sock[slotOf[c]] >= c

\* The server has yet to hear of m's client, or the client of the answer m.
Waits(m) ==
    /\ m.from \in Announced
    /\ slotOf[m.from] = m.slot
    /\ \A c \in told : c < m.from

\* The openings on their way to the server and the answers on their way back
\* are in the order of the accepts.
OrderInv ==
    /\ told \subseteq Announced
    /\ \A i \in 1 .. Len(toServer) : toServer[i].type # "close" => toServer[i].from \in Client
    /\ \A i \in 1 .. Len(toServer) : toServer[i].type = "open" => Waits(toServer[i])
    /\ \A i, j \in 1 .. Len(toServer) :
        i < j /\ toServer[i].type = "open" /\ toServer[j].type = "open" =>
            toServer[i].from < toServer[j].from
    /\ \A i \in 1 .. Len(toGate) : toGate[i].type = "index" =>
        Waits(toGate[i]) /\ given[toGate[i].from] = toGate[i].index
    /\ \A i, j \in 1 .. Len(toGate) :
        i < j /\ toGate[i].type = "index" /\ toGate[j].type = "index" =>
            toGate[i].from < toGate[j].from
    /\ \A i \in 1 .. Len(toGate), j \in 1 .. Len(toServer) :
        toGate[i].type = "index" /\ toServer[j].type = "open" =>
            toGate[i].from < toServer[j].from

IInv == TypeOK /\ KeyInv /\ OrderInv /\ OwnIndex
-----------------------------------------------------------------------------
(* The inductive invariant behind OneClientPerSlot.                        *)

\* A connection is with AcceptThread, with the worker, or waits for its client.
Arriving(c) == c = accepted /\ acceptor \in {"setup", "arm"}
AtWork(c) == c = worker.client /\ worker.pc \in {"extract", "again", "free"}
Served(c) == pending[c] > 0 \/ Arriving(c) \/ AtWork(c)

\* Nobody but the clients has closed a connection.
OnlyHangUps ==
    /\ reader.pc = "idle" /\ worker.pc # "shut again"
    /\ \A i \in 1 .. Len(toGate) : toGate[i].type = "index"

\* It is with one of the three at a time, and has its slot to itself.
OneAtATime ==
    /\ worker.pc \in {"extract", "again", "free"} =>
          worker.client \in Client /\ slotOf[worker.client] = worker.slot
    /\ \A c \in Client :
          /\ pending[c] <= 1
          /\ ~(Arriving(c) /\ AtWork(c))
          /\ Arriving(c) \/ AtWork(c) => pending[c] = 0

OwnSlot ==
    /\ \A c \in Client : Served(c) =>
          /\ slotOf[c] \in used
          /\ sock[slotOf[c]] = c \/ (c = accepted /\ acceptor = "setup")
    /\ \A c, d \in Client : Served(c) /\ Served(d) /\ c # d => slotOf[c] # slotOf[d]

HoldInv == ~forced => OnlyHangUps /\ OneAtATime /\ OwnSlot

=============================================================================
