# MeteorServer: specifications, checks and proofs

MeteorServer is the server side of a room-based action game. Two programs run:
the **gate** (`GameGate`), which clients connect to, and the **game server**
(`GameSvr`), which gates connect to. This directory models their concurrent
core in TLA+, from the client's socket to the rooms and back, with the KCP
protocol beside it, checks it with TLC on small instances and proves with TLAPS,
for tables, buffers and lists of every size, the main results about rooms and
users, the gate's uplink, its session slots, the framing of the gates' streams
and the list of gates. The sources are under `src/Mir3server/`; file names below
are relative to it.

## 1. The system

### Threads

| Program | Thread | What it does |
|---|---|---|
| gate | main | every 1 ms `TimerMng::Update`; each 50 s a `GM_CHECKCLIENT` to the game server |
| gate | `AcceptThread` | accepts clients, takes a session slot, arms the receive, sends `GM_OPEN` |
| gate | `ServerWorkerThread` (one) | completions of client receives: extracts packets, queues them; closes sessions |
| gate | `ThreadFuncForMsg` | drains `g_SendToServerQ` to the game server; sends each client's buffer |
| gate | `ClientWorkerThread` | takes the game server's messages apart, fills the clients' send buffers |
| game server | main | walks `g_xRoomList` (update, close, delist), then sends each gate's queue |
| game server | `AcceptThread` | accepts gates |
| game server | `ServerWorkerThread` (one, `Def/ServerSockHandler.cpp:235`) | completions of the gates' sockets: all packet handlers |
| game server | `KcpWorkerThread` (one per processor) | UDP packets of the rooms' KCP servers |

### Inventory

| Component | State | Operations | What makes it correct |
|---|---|---|---|
| Rooms and users (`SockMsg_GateComm.cpp`, `GateInfo.cpp`, `Handler_Map.cpp`, `GameSvr.cpp`) | user slots, room slots, `g_xUserInfoList`, `g_xRoomList`, each room's `m_pUserList`, `m_nCount`, `m_bGameStart`, `running`, `m_dwWaitClose` | gate accept and loss, `GM_OPEN`, `GM_CLOSE`, create, join; scan, update, new turn, close, delist | a user is in one room and on its list; the count is the length of the list; no room over its size; no slot reused with users in it; an abandoned room ends |
| `CStaticArray` | elements, `m_nCursor` | `GetFreeKey` | a free element or none, and never one outside the table |
| Gate uplink (`ServerSockMsg.cpp`, `ThreadFuncForMsg.cpp`, `GameGate.h`, `DynamicArray.h`, `Queue.h`) | receive buffers, `g_memPool`, `g_SendToServerQ` | receive, extract, push; drain, send, give back | order and completeness for each client; one owner for each pool element |
| Gate stream on the game server (`GateInfo.cpp`, `SockMsg_GateComm.cpp`) | `OverlappedEx[0]` | receive, handle, move the tail | each message once, in order, however TCP cuts the stream |
| Gate session slots | `g_UserInfoArray` | accept, close, `GM_SERVERUSERINDEX` | a slot's packets carry its own client's index; one close for one client |
| Gate downlink (`ClientSockMsg.cpp`) | receive buffer, clients' send buffers | framing, unicast, broadcast, `GM_CLOSE` | a client gets whole messages, in order |
| Sending to a gate (`GateInfo.cpp` `xSend`) | `m_xSendBuffQ`, `OverlappedEx[1]`, `m_fDoSending` | fill, send, completion | order; one send at a time |
| Gate list (`g_xGateList`, a `CWHList`: `List.h`) | nodes, head, tail, count | add (`AcceptThread`), remove by data (worker), walk (main) | a sequence to which gates are added and from which lost ones are taken; every gate that stays is served |
| KCP protocol (`ikcp.c`) | the control block of each end: windows, queues, buffers, acks | `ikcp_send`, `ikcp_recv`, `ikcp_input`, `ikcp_update` | over a network that loses, repeats and reorders, messages are read whole, once and in order, and none waits for good before the queue they are read from |
| KCP server and user framing (`KcpServer.cpp`, `UserInfo.cpp`) | users, frames, receive buffers | enter, receive, extract, spawn | the buffer holds what was received and not yet cut off |
| Timer (`TimerMng.cpp`) | timers | set, kill, update | a timer fires once per period |
| Not core | generated protobuf code, configuration, logging, crash dumps; the DB and Lua files are commented out or not compiled | | |

### How they interact

A client's packet goes: socket, session buffer, pool element, `g_SendToServerQ`,
TCP stream to the game server, `OverlappedEx[0]`, handler. An answer goes:
pool element of the game server, `m_xSendBuffQ`, `OverlappedEx[1]`, TCP stream,
the client's send buffer, socket. The handlers and the main loop share the
rooms and `g_xRoomList`; KCP workers write `m_pxPlayerObject` of the users.
There are locks on the queues and on `g_xRoomList`; the main loop takes no
room's lock, the pools have none, and of the three threads on `g_xGateList`
only the remover takes its lock.

### What is hard

`PROJECT.json` lists the hazards at their lines. The main ones: the main loop
and the worker write the same four members of a room without a common lock; the
check of a room's size and the increment are apart; a slot is judged free by two
members written at different times; a lost gate leaves its users in their rooms
and the slot's next owner inherits them; element pools without a lock; TCP cuts
messages anywhere while the handler overwrites the header the framing still
needs; session slots are freed before their packets are gone; a send buffer is filled
by one thread and declared free by another; acknowledgements and windows of KCP
arrive late, twice or not at all.

## 2. Plan

1. `StaticArray`, `RoomServer`, proofs (`TableLemmas`, `RoomServerProofs`): **done**.
2. `Channel` (abstract) and `GateUplink`; `GateUplinkProofs`, which proves
   `OneOwner`, `OnlyBadLeaks`, `NothingLost` and that it implements `Channel`:
   **done**.
3. `GateStream` and `GateStreamProofs` (`InStep`): **done**.
4. `GateSession`: slots, accept and close, the index of `GM_SERVERUSERINDEX`,
   and `GateSessionProofs` (`OwnIndex`, `OneClientPerSlot`): **done**.
5. `Downlink`: the server's queue, `xSend`, the gate's framing and the clients'
   send buffers, in one module since the order of a client's packets needs all
   of them, and `DownlinkProofs` (`InStep`, `NothingLost`, `InOrder`): **done**.
6. `Kcp` (two ends implement `Channel` over a faulty network) and `KcpProofs`
   (`TypeOK`, `Remembered` and that it implements `Channel`); `KcpUser`: **done**.
7. `GateRegistry` (abstract) and `GateList`, and `GateListProofs`, which proves
   its four invariants and that it implements `GateRegistry`: **done**.

Every safety property a passing run checks is also a theorem; what is left to
TLC alone is liveness.

`RoomServer` stays the module the others meet in; `Channel` is the abstract
specification two modules implement (`GateUplink` and `Kcp`), `GateRegistry`
that of `GateList`. No module with theorems uses RECURSIVE.

## 3. The modules

### RoomServer

One record per user slot (`m_bEmpty`, `m_pGateInfo`, `m_pRoom`, whether
`m_pxPlayerObject` is set) and one function per member of a room. The two
threads that matter have program counters:

* `worker` is the IOCP worker inside a handler. `CreateRoom` is `CreateRoomReq`
  up to `InitKcpServer`, `ListRoom` the append to `g_xRoomList`, `Enter`,
  `Turn1`-`Turn3` and `Enlist` are `OnUserJoinRoom`; `CloseInRoom`, `AllLeft1`,
  `AllLeft2`, `Leave` are `CloseUser`. A handler is cut where another thread
  reads or writes what it touches next, and only there.
* `mainPc` and `pos` are the main loop in its scan: `Visit`, `WaitClose`,
  `Close1`, `Close2`, `CheckStart`, `Turn`, `NewTurn1`-`NewTurn3`, `Collect`,
  then `Reap` and `EndScan`. It holds the lock of `g_xRoomList` everywhere but
  at "idle", which is why `ListRoom` and `JoinRoom` require `ListFree`.

Time is only what the code asks of it: `waitClose` is "off" (0), "fresh" or
"due" (30 s old). `behind` says that `m_currentTick` is later than the tick
`Update` has read. `up` becomes FALSE when the code touches memory it does not
own (the null `m_pKcpServer` of a replay room, the element behind the table,
the uninitialised `KcpServer::frame`). `Opened` are the users a packet may name:
what the server has handed out, and 0, which the gate sends before it has an
answer.

Left out: what changes no shared state (`GetRoomReq`, refusals, the protocol
check; chat is in `Downlink`), the contents of replies, names and passwords (`m_bHasPsd` is
never set). The tables' members that no constructor sets are taken to be zero.

### StaticArray

`GetFreeKey(free, size, cursor)` and `CursorAfter`: `Wild` stands for the read
behind the table, `NoKey` for -1.

### GateUplink and Channel

`worker` is `ServerWorkerThread` between completion, search of a free element
(`Look`, one element a step, since the pool has no lock), `Extract` and `Push`;
`sender` is `ThreadFuncForMsg` with its batch (`Drain`, `Pop`, `Deliver`,
`Free`). A packet is its number, or `Bad` where `ExtractPacket` refuses it.
`Channel` is what the gate promises: each client's packets in order, without a
gap. The refinement maps `got` to `delivered`. A session is one connection
here; buffers over 4096 bytes, which `ExtractPacket` cuts, are excluded by
`MaxAhead`.

### GateStream

Bytes are cells `[message, place, nLength]`. `Receive(n)` is a completion of n
bytes, `Handle` a handler together with the step to the next message (the
length it leaves in the header is chosen freely: kept, or a reply's),
`MoveTail` the end of the loop. `cut` and `rewritten` remember what spoils the
framing: a receive that ended inside a message, a reply of another length. A header read where none is leads to "lost",
where the model stops.

### GateSession

The slots of `g_UserInfoArray` with the four threads that touch them: `Accept`,
`SetUp`, `Arm`, `Announce` are `AcceptThread`; `Disconnected`, `Received`,
`Push`, `Reject`, `ShutRejected`, `ReceiveAgain`, `Free`, `Shut` are
`ServerWorkerThread`; `Forward` is `ThreadFuncForMsg`; `Learn`, `CutOff`,
`ShutCutOff` are `ClientWorkerThread`. `CloseSession` is two steps, since it
frees the slot before it closes whatever socket the slot names by then. The game
server's answers are `Open` (with `StaticArray`), `Close`, `Handle`, `Refuse`; a
server that goes down in `GetFreeKey` behind a full table takes no further step,
which no fairness forbids.
A completion carries the slot (the completion key) of the socket it is for. A
client's number is the order of its accept and stands for its socket. The TCP
streams keep their order; `Downlink` shows where `xSend` does not, and the
session results assume that the server's buffer never overflows.

`forced` remembers a cut-off by the gate or the server: from then on two clients
may share a slot (a rejected packet closes twice), and the properties that speak
of one client for a slot stop there. `OwnIndex` does not need it.

### Downlink

`Reply` and `Chat` push on `m_xSendBuffQ`; `Start`, `Fill`, `PutBack`, `Send`
are the main loop in `xSend`, one packet a step because handlers push
meanwhile; `Transmit`, `Clear`, `Sent` are the send under way and its
completion, two writes apart; `Receive`, `Process`, `Broadcast`, `MoveTail` are
`ClientWorkerThread`, `SendToClient` is `ThreadFuncForMsg`. A broadcast is one
step for each entry of `wUserList`, since the sender may empty a send buffer
between two of them; `out` and `filled` are a session's `SendBuffer` and
`nSendBufferLen`. A byte is a cell: a packet and the byte's place in it. The
bytes that are on their way, from the server's buffer to the gate's `pszData`,
are the `Pipe`; `InStep` says that they are whole packets, which the gate's loop
takes for granted when it reads a header at `pszData`. The header of a chat message is on the stack and its
`wUserList` is never set: `Chat` chooses it freely. `requeued` remembers that
`xSend` has put a packet behind others, after which order is not promised.
`DownlinkAssumption` says that a packet fits the gate's buffers; audio messages
of 4045 bytes and more do not (see the hazards).

### Kcp

The control block of `ikcp_create` and one operator for each function of
`ikcp.c`, as `CUserInfo::InitKcp` configures it: no congestion window, message
mode, fast resend. `Messages` are what `ikcp_send` takes: a message it refuses
changes nothing and is not among them. `Send`, `Recv`, `Input`, `Update` are the four calls;
`Input` takes one segment of a datagram at a time (`Round`, with `input` for what
is left of it), since the main loop may call `ikcp_update` while a KCP worker is
in `ikcp_input`; `Flush` is `ikcp_flush` as a whole, with the segments packed into datagrams.
Clocks are left out: which resend timers have run out, and whether the probe
timer has, is a choice of `Update`; a timer that runs out while a datagram is
on its way counts as a fault, like a loss or a duplicate, and `MaxFaults`
bounds them. `net` is a set, so datagrams overtake one another. `MCKcp` says
who sends which messages. The refinement maps what `ikcp_recv` has returned to
`Channel`; a message that is not whole maps to 0, which is no message.

### KcpUser

`OnReceivedMsg` (one `ikcp_recv` for each datagram), `ExtractPacket` round by
round, and `MoveTail`. `KcpInput` puts messages on the queue of ikcp: none or
several for a datagram. The count of bytes, which no constructor sets, starts
at zero. A round of the loop that changes nothing is a stuttering step: that is
where the code never returns.

### GateList and GateRegistry

`CWHList` node by node, with the three threads that use `g_xGateList`:
`Accept` and `Adding` (`Allocate`, `TestHead`, `LinkFirst` or `Link` and
`LinkBack`, `SetLast`, `ReadToAdd`, `Increment`) are `AcceptThread` in
`AddNewNode`; `Lose` and `Removing` (`Search`, `Unlink`, `Relink`, `FreeNode`,
`ReadToRemove`, `Decrement`) are the worker in `RemoveNodeByData`; `Scan`,
`GetHead`, `Visit`, `GetNext` are the main loop. `List.h:3` says that the caller
has to lock; only the remover does (`SockMsg_GateComm.cpp:81`), so the lock
excludes no one and has no place in the model. `GlobalAlloc` gives out freed
nodes again. `GateRegistry` is what the main loop relies on: a sequence of
gates, added to at the end. `Listed`, the gates of the nodes reached from
`m_lpHead`, refines it. `Walk` follows the links for as many nodes as there are.

Four history variables say when the code keeps less than that: `met`, the adder
and the remover are both at the end of the list (the new gate is then linked
behind a freed node, or behind a null `m_lpTail`): the model ends there, as it
ends with `up = FALSE` where a thread touches a freed node; `stranded`, the node
the main loop stands at was freed; `bumped`, an increment and a decrement of
`m_nCount` overlapped; `early`, the gates whose loss came before they were
listed. Each is reachable in the run, and without its exception each property
is violated. `owed` is what a walk has yet to reach of the gates that were
listed when it began.

## 4. The runs

| Run | Instance | Shows |
|---|---|---|
| `room_two_users` | 2 users, 1 room, asked sizes 0 and 3 with a cap of 2, normal and replay; 3.7 M states | `TypeOK`, `WorkerInv`, `Membership`, `CountIsLength`, `Capacity`, `CreatesVacantRoom` with users competing |
| `room_wait_ends` | 1 user, 2 rooms, 3 nodes on `g_xRoomList`, normal and replay, fair; 707 K states | `WaitEnds`; `ScanInv` with a neighbour to delist and a room listed twice |
| `gate_list` | 3 gates, 3 nodes, fair; 247 K states | `OnlyStrandedDies`, `WalkComplete`, `CountAgrees`, `LostAreGone`, `RegistrySpec`, `Served` |
| `uplink` | 2 clients, 2 elements, 2 good packets each, bad ones, hang-ups, fair; 278 K states | `OneOwner`, `OnlyBadLeaks`, `NothingLost`, `UplinkSpec`, `Delivered` |
| `stream` | 3 messages of 0 to 2 data cells, 2 header cells, buffer 8; 12 K states | `InStep` |
| `session` | 3 clients on 1 slot, 2 user slots on the server, 1 packet, fair; 503 K states | `OwnIndex`, `OneClientPerSlot`, `HangUpNoticed` |
| `downlink` | 2 clients, 3 packets (1 a chat) of 0 or 1 data cell, 2 header cells, server buffer 5, gate buffers 3, fair; 261 K states | `InStep`, `NothingLost`, `InOrder`, `Arrives` |
| `kcp` | 2 messages of 2 segments one way, window 3, mtu 2, 1 fault, fair; 132 K states | `Remembered`, `TransferSpec`, `Arrives` |
| `stream_tail` | violated | the tail is not moved to the front (`SockMsg_GateComm.cpp:99`) |
| `session_index` | violated | a packet carries another client's index (`EnDecode.h:15`) |
| `downlink_chat` | violated | chat goes by a `wUserList` nothing sets (`EnDecode.h:14`) |
| `kcp_user` | violated | the error answers of `ikcp_recv` are added to the byte count (`ikcp.c:354`) |

Every property of a passing run has a mutant in `PROJECT.json`: a plausible slip
in one definition (`... == a mutant` in the modules) that makes the run fail.

**Bounds.** `MaxListed` and `MaxNodes` cap two lists the code lets grow; they
appear in the guards of `OpenNewUser` and `CreateRoom`. Two users and a cap of
players below the asked size are enough for a full room, a refused join and a
room that empties while another user enters; two rooms are enough for a list
with a neighbour to delist and for the same room twice. In `room_wait_ends`
`MaxListed` is 0: no client takes the slot, and the packets name it with the 0 a
slot of the gate begins with. The rooms and the main loop never read whose slot
it is, so they do all they do with an owner, and the list can be longer. In `GateList` three
gates are enough for a removal at the head, in the middle and at the end while
a third is added, and three nodes for a freed node to be given out again. In `GateUplink` the
pool is smaller than the packets under way, so that exhaustion happens;
`Delivered` therefore speaks of the behaviours in which the pool never runs dry,
because a packet it stalls waits for its client, which the code does not
guarantee to send again. In `GateStream` a header of two cells lets a receive
end inside a header. In `GateSession` one slot is enough for it to change hands
twice while answers to its earlier clients are under way, and three clients for
the cursor of `GetFreeKey` to come round. In `Downlink` the server's buffer
takes one packet with data and no second one, so that packets are put back and
filled again, and a client's send buffer takes one packet with data and one
without, so that packets are dropped. In `Kcp` two segments leave one place of
the window of three: the second message waits for the first to be read, the
window closes, and one fault may hit any datagram, the one that reopens the
window included. `MaxAcks` bounds the acks an end collects before it flushes.

**Fairness.** `RoomServer`: weak fairness of the worker inside a handler and of
the main loop (threads that run, and locks that are always given back), and of
time; none for requests. `GateUplink`: weak fairness of the two threads; none
for clients. `GateSession`: weak fairness of `AcceptThread` and of the IOCP
worker, which takes completions in the order they come; none for the clients,
the server or the other threads. `Downlink`: weak fairness of the main loop,
the send and its completion, `ClientWorkerThread` and `ThreadFuncForMsg`; none
for what handlers push. `GateList`: weak fairness of the adder and the remover inside
their calls and of the main loop; none for gates that connect or are lost.
`Kcp`: an end is updated again and again (the main loop
calls `KcpServer::Update`, every 20 ms of game time) and its timers run out in
the end, and what the network delivers is taken in (KCP workers run; the endless
round of `ExtractPacket`, a hazard of `KcpUser`, is no part of this module);
losses end because faults are bounded. No fairness of `Recv`: the game server
calls `ikcp_recv` once for each datagram it takes in, so a message may wait on
the queue for ever when no datagram follows. `Arrives` therefore says that what
`ikcp_send` took gets to the queue `ikcp_recv` reads from, unless that queue
stays full for good.

Deadlock is checked where the system never stops (`RoomServer`; a crashed
process stutters in `Down`); the other modules stop when the clients, the gate
or the handlers have sent all the bounds allow.

## 5. The proofs

`RoomServerProofs` proves, for every number of users, rooms and gates and every
size, under `RoomServerAssumption` alone:

* `TypeCorrect`: `Spec => [](TypeOK /\ ScanInv)`;
* `Invariance`: `Spec => []IInv`;
* `WorkerHolds`, `MembershipHolds`, `CountHolds`, `CapacityHolds`: the
  invariants the runs check;
* `VacantRoomTaken`: `Spec => CreatesVacantRoom`.

`Membership`, `CountIsLength` and `Capacity` are not inductive: between the
check in a handler and the write, nothing in them says that the user and the
room are as the handler found them. `IInv` adds `WorkerInv` (the user that is
entering is in no room and the room has a place; a joining or leaving user's
`m_pRoom` is the handler's room) and `ScanInv` (the main loop's node is on the
list). The argument: the worker is alone in writing `m_pRoom`, the lists and
the counts (`OthersMoveNobody`: all the other actions keep them, `Kept`), so
only the worker's own steps are cases (`EnterStep`, `EnlistStep`,
`CloseInRoomStep`, `LeaveStep`), and each moves one user between one list and
`m_pRoom`. `CreatesVacantRoom` follows because a slot that is free has
`m_nCount = 0`, hence an empty list, hence no user with that `m_pRoom`.
`TableLemmas` has what they need of sequences without repetition and of
`GetFreeKey`.

`GateUplinkProofs` proves, for every number of clients and elements, under
`GateUplinkAssumption`:

* `UplinkTypes`, `OneOwnerHolds`, `OnlyBadLeaksHolds`, from `UplinkInvariance`.

Here `IInv` adds `ThreadsInv` to the two properties: a session the worker works
on still has a packet in its buffer, and the batch of `ThreadFuncForMsg` is
what the queue holds plus the packet in hand (which is why `Pop` never meets an
empty queue). The argument for the pool: an element that is marked as free is
with no one, so the worker, which alone marks elements as taken, never takes
one with an owner; and each later step hands an element from one owner to the
next (`TailOnce`, `AppendOnce` for the queue).

The order of packets (`NothingLostHolds`) needs `StreamInv`: the packets of a
client that are on the way (in its buffer, in the worker's hand, queued, in the
sender's batch), put one behind the other, are the ones from the last the server
got to the last sent, or the first of these where the session is closed. A step
either leaves this way as it is (`QuietStep`) or moves one packet at its end;
for every other client the packet that moved is as good as a bad one, which the
order skips (`InOrderSkip`). `DeliverNext` then says that what is delivered is
always the next packet, which is the step of `Channel`: `UplinkRefines` proves
`Spec => UplinkSpec`.

`RoomServerProofs.ScanHolds` proves `ScanInv` from `TypeCorrect`.

`GateSessionProofs` proves, under `GateSessionAssumption`, `SessionTypes`,
`OwnIndexHolds` and `OneClientHolds`. `OwnIndex` rests on `KeyInv` (who holds
which slot and which socket) and `OrderInv` (the messages of a slot on the two
streams are in the order in which its clients came). `OneClientPerSlot` needs
`HoldInv` besides: until the program closes a client that has not hung up
(`forced`), nobody but the clients closes connections, each connection is with
one thread at a time, and the slot it has is its own.

`GateStreamProofs` proves, under `GateStreamAssumption`, `StreamTypes` and
`InStepHolds`. `BufferInv` keeps the offset and the length in the buffer and says
that all they cover has been sent; `FramedInv`, that until the framing is spoilt
what the worker has yet to handle (`Window`) is whole messages, the next one
first and up to the last it received, and the stream is the rest of them
(`WholeMessages`, `Taken`).

`GateListProofs` proves, for every number of gates and nodes, under
`GateListAssumption`, `ListTypes`, `OnlyStrandedDiesHolds`, `WalkCompleteHolds`,
`CountAgreesHolds`, `LostAreGoneHolds` and `ListRefines` (`Spec =>
RegistrySpec`), from `ListInvariance`. Its invariant is at the head of the
module; TLC has checked it on the instance of `gate_list`, and it holds as long
as the writers have not met (`met \/ ListInv`):

* `Linked`: the nodes are a chain of links without a node twice, allocated, each
  with a gate of its own. A chain is what `Walk` comes by (`NodesAre`: a least
  place at which the two differ, and no more than `MaxNodes` nodes, since none
  comes twice), so a step is judged by the links it writes. `NodesStep` is the
  heart of the proof: `LinkFirst` and `Link` put one node behind the list,
  `Unlink` takes one out, every other step leaves it alone.
* `Backward`: `prev` and `m_lpTail` are what the chain says, but for the step
  that is under way. `Link` writes through `m_lpTail` and `Unlink` through
  `prev`, so the chain depends on it.
* `AdderInv`, `RemoverInv`: the node in hand is nobody else's until it is
  linked, or after it is taken out; the remover's `prev` and `next` are the
  neighbours it will have to join. The two disturb each other only where one is
  at the node the other writes, which is the end of the list, which is `Meeting`.
* `WalkInv`: the main loop is at a linked node, or at the one just taken out,
  whose `next` still leads into the list; what it owes is ahead of it.
* `CountInv`: what a thread has read of `m_nCount` is what it still is, unless
  the two have overlapped (`bumped`); and it stays within what has been added
  and removed, which is all its type needs.

`DownlinkProofs` proves, for every number of sessions and packets and every size
of the buffers, under `DownlinkAssumption`, `DownlinkTypes`, `InStepHolds`,
`NothingLostHolds` and `InOrderHolds`, from `DownlinkInvariance`. TLC has checked
its invariant on the instance of `downlink`. `InStep` and `NothingLost` are parts
of it as they stand; what it adds is

* `SendInv`: the send buffer belongs to the main loop or to the send under way,
  never to both, and what it holds is as long as what the main loop has copied.
  This is what `m_fDoSending` is for, and what keeps `Pipe` the same while the
  buffer is handed to `WSASend` and back (`PipeStart`, `PipeComplete`), while TCP
  cuts it and while a tail is moved to the front (`PipeReceive`);
* `PushedInv`: a packet that is anywhere has been pushed;
* `LineInv`: until `xSend` has put a packet behind others (`requeued`), what a
  session has been passed, the pipe and what waits are one line in the order of
  the pushes, in which only a broadcast may come twice to a session.

`NothingLost` counts the places a reply is in; a step takes it out of one and
puts it into another, which is a statement about how often something comes in
two sequences one after the other (`TimesConcat`, `TimesCells`). `InStep` is kept
because whole packets one behind the other are whole packets (`WholeConcat`), and
because what is behind the first of them is so as well (`WholeFirst`,
`WholeRest`, `PipeStep`).

`KcpProofs` proves `TypeOK`, `Remembered` and `KcpRefines` (`Spec =>
TransferSpec`) for every message, window and mtu and any number of lost, doubled
and overtaken datagrams, under `KcpAssumption`. The first two rest on the
inductive invariant `Wire`:

* `WellFormed` of both control blocks, and `UnaIs`: `snd_una` is the first number
  of the send buffer, or `snd_nxt` when that is empty (`ikcp_shrink_buf`);
* `Listed`: what an end is about to acknowledge it has (`Has`: below `rcv_nxt` or
  in `rcv_buf`);
* `Met`: an end has only what its peer has numbered, and what the peer has
  numbered the end has or the peer still keeps;
* `AllTold`: every segment in the network, and every one that `ikcp_input` has
  still to look at, says what its sender knows (`Told`): the sender has what the
  segment acknowledges, one by one or with `una`, and has given out the number
  the segment carries. Ends forget nothing they had, so what was once true of a
  segment stays true however late or often it comes (`ToldLater`).

What `ikcp_input` does is stated for each of its parts: `Relieved` for the sending
half (`ParseUnaIs`, `ParseAckIs`, `ParseFastackIs`, `ShrinkIs`), `Takes` for the
receiving half (`InsertedKeeps`, `MoveKeeps`, `InputPushIs`), `Heard` for a whole
segment. How `First` divides segments into datagrams does not matter to them: a
datagram is a choice of the segments (`CarryIs`).

`KcpRefines` needs to know besides what a segment carries. `Divides` lays all
the messages an end will ever send one behind the other, cut into segments
(`Posts`, numbered from 0 as `ikcp_flush` will number them), with the place where
each message starts (`Starts`); that there is such a plan is shown by a greatest
number of messages that have one (`DividesAll`). `Carried` adds to `Wire`:

* `SenderRight`, `ReceiverRight`, `AllRight`: every copy of a segment (in
  `snd_queue`, `snd_buf`, `rcv_buf`, `rcv_queue`, the network, or half taken in)
  carries what was posted under its number. Copies are made and dropped, never
  changed, so lost, doubled and overtaken datagrams do not disturb it;
* `SendsRight`: the numbers given out and the queue behind them end where the
  next message to be sent starts; `GetsRight`: what has been read are the first
  messages of the peer, and the receive queue goes on where they end.

That a message is read only after it was sent (`PostedFirst`) follows from
`Wire`: `rcv_nxt` is never past the peer's `snd_nxt`. What `ikcp_recv` merges ends
at the `frg` 0 of the next message (`NextMessage`), so it is that message, whole.
A `Send` step is then a `Send` of the channel, a `Recv` step that returns a
message a `Deliver` of the other channel, and every other step a stutter. TLC
checks `TransferSpec` itself, but cannot evaluate `Carried`, whose plan it would
have to look for among all sequences.

Model-checked only: `WaitEnds`, `Delivered`, `HangUpNoticed`, `Served` and the
two `Arrives` (liveness under fairness is out of the prover's reach). The
results about `GateUplink` are for
sessions of one connection, as the module is.

## 6. Not modelled

The components `PROJECT.json` marks `not_modelled`, with the reason there: more
than half of the sources are generated protobuf code, and much of the rest is
not compiled, start-up I/O or library headers. Of the modelled components:

* a network error of `WSASend` (only logged), memory exhaustion in `new`, more
  than one gate process, the loss of the gate's connection to the server, and
  the end of a process (`g_fTerminated` is never set);
* the slots of `GateSession` together with the send buffers of `Downlink`
  (bytes of a slot's last client may go to the next one): a hazard without a
  property, the product of the two is too large for TLC;
* in `Kcp`, round-trip estimates, the congestion window and streaming mode
  (switched off), `dead_link`, and the wrap of 32-bit numbers, which
  `_itimediff` handles as long as fewer than 2^31 segments are in flight;
* memory behind tables and buffers: where the code reads or writes there, the
  models go "down", "lost" or stop counting, and the hazard says so;
* the other `CWHList`s node by node (`g_xRoomList` and the users of a room are
  sequences: their writers are one thread, or hold the lock), `Clear`, which no
  running thread calls, and the keep-alive timer of the gate, one timer in one
  thread;
* `GateList` behind `met`: what the heap does with a write to a freed node.

Hazards met while modelling, beside those of `PROJECT.json`, that no property
speaks of; where a model has them they are its behaviour:

* rooms: the KCP server of a room's slot outlives the room, so the next room
  there gets port -1 (`Handler_Map.cpp:25`); users that left stay on
  `KcpServer::users` (`KcpServer.cpp:49`); `GetFreeKey` reads one element behind
  a full table (`StaticArray.h:64`); a `GetTickCount()` of 0 turns the wait of a
  room off (`Handler_Map.cpp:57`);
* gate: `GetEmptyElement(-1)` with an exhausted pool (`DynamicArray.h:83`);
  `GetData` accepts one index too many (`DynamicArray.h:28`); `ExtractPacket`
  moves up 4096 bytes of a buffer of 60000 (`GameGate.h:61`); with every slot
  taken an accepted socket is neither read nor closed (`ServerSockMsg.cpp:65`);
  a `WORD` is compared with -1 (`ClientSockMsg.cpp:20`); a `GM_CLOSE` meant for
  a slot's last client cuts off the next (`ClientSockMsg.cpp:98`);
* sending: chat goes out over the sender's gate only
  (`SockMsg_GateComm.cpp:657`); a chat buffer's `nIndex` is never set, and
  `xSend` gives the element of that index back (line 682); an audio message of
  4045 to 4088 bytes fills the gate's receive buffer before it is whole, and
  `ClientWorkerThread` ends (line 656);
* KCP: one `ikcp_recv` for each datagram leaves further messages waiting
  (`UserInfo.cpp:83`); `m_nKcpReveivedBytes` is neither initialised nor reset
  (`UserInfo.cpp:68`); `bind()` is tried once (`KcpServer.cpp:170`); the users
  are walked without a lock (`KcpServer.cpp:141`); answers -2 and -3 of
  `ikcp_input` count as accepted (`KcpServer.cpp:147`); the control block of a
  user that enters again is not released (`KcpServer.cpp:133`); `rmt_wnd` is taken
  from every segment, also from one that was overtaken (`ikcp.c:781`).
