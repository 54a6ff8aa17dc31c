------------------------------ MODULE Downlink ------------------------------
(***************************************************************************)
(* The way of a packet from the game server to a client.                   *)
(*                                                                         *)
(* Handlers push packets on the gate's queue m_xSendBuffQ.  The main loop  *)
(* packs what the queue holds into OverlappedEx[1].Buffer (xSend) and      *)
(* sends it; the completion of the send makes the buffer free again.  TCP  *)
(* cuts the stream anywhere.  The gate's ClientWorkerThread takes whole    *)
(* messages out of its receive buffer and copies each to the send buffer   *)
(* of its session, which ThreadFuncForMsg empties into the socket.         *)
(*                                                                         *)
(* A packet is its number; mail says where it goes and how long it is.  A  *)
(* byte is a cell: a packet's number and the byte's place in it.  A        *)
(* session is one client connection (GateSession has the slots).           *)
(***************************************************************************)
EXTENDS Integers, Sequences, SequencesExt, FiniteSets

CONSTANTS Session,       \* client connections
          Nobody,        \* an entry of wUserList that is no session
          HeaderSize,    \* sizeof(_TMSGHEADER)
          MaxLength,     \* bound: nLength
          GateSize,      \* DATA_GATE_SIZE, the server's buffer for a gate
          BufferSize,    \* DATA_BUFSIZE, the gate's receive and send buffers
          ListSize,      \* _NUM_OF_MAXPLAYER, the entries of wUserList
          MaxPackets,    \* bound: packets
          MaxBroadcasts  \* bound: how many of them are BOARDCASTS2G

\* A packet fits the buffers it goes through.  (Serialized chat of more than
\* DATA_BUFSIZE - sizeof(_TMSGHEADER) bytes does not; see the README.)
ASSUME DownlinkAssumption ==
    /\ Nobody \notin Session
    /\ HeaderSize \in Nat \ {0}
    /\ MaxLength \in Nat
    /\ GateSize \in Nat /\ GateSize >= HeaderSize + MaxLength
    /\ BufferSize \in Nat /\ BufferSize >= HeaderSize + MaxLength
    /\ ListSize \in Nat
    /\ MaxPackets \in Nat /\ MaxBroadcasts \in Nat

Number == 1 .. MaxPackets
Packet == [broadcast : BOOLEAN, to : Session, length : 0 .. MaxLength,
           list : [1 .. ListSize -> Session \cup {Nobody}]]
Cell == [packet : Number, place : 0 .. HeaderSize + MaxLength - 1]

VARIABLES
    mail,       \* every packet pushed so far
    sendQ,      \* m_xSendBuffQ
    buf,        \* OverlappedEx[1].Buffer
    bufLen,     \* OverlappedEx[1].bufLen
    doSending,  \* m_fDoSending
    main,       \* where the main loop is, lpSendBuff (0 is NULL), dwSend
    wire,       \* the WSASend: "none", "sending", "sent", "cleared"
    stream,     \* the TCP stream
    recvBuf,    \* the first BytesRECV bytes of ClientOverlapped->Buffer
    reader,     \* where ClientWorkerThread is, pszData, and how many entries of
                \* wUserList it has gone through
    out,        \* SendBuffer of each session, packet by packet
    filled,     \* nSendBufferLen of each session
    got,        \* the packets sent to each client, in order
    dropped,    \* history: the packets a full send buffer has cost a session
    requeued    \* history: xSend has put a packet behind others

serverVars == <<mail, sendQ, buf, bufLen, doSending, main, requeued>>
gateVars == <<recvBuf, reader, out, filled, dropped>>
vars == <<serverVars, wire, stream, gateVars, got>>

Size(p) == HeaderSize + mail[p].length
Cells(p) == [i \in 1 .. Size(p) |-> [packet |-> p, place |-> i - 1]]

TypeOK ==
    /\ mail \in Seq(Packet)
    /\ sendQ \in Seq(Number)
    /\ buf \in Seq(Cell) /\ Len(buf) <= GateSize
    /\ bufLen \in 0 .. GateSize
    /\ doSending \in BOOLEAN
    /\ main \in [pc : {"scan", "fill", "send"}, packet : Number \cup {0}, dwSend : 0 .. GateSize]
    /\ wire \in {"none", "sending", "sent", "cleared"}
    /\ stream \in Seq(Cell)
    /\ recvBuf \in Seq(Cell) /\ Len(recvBuf) <= BufferSize
    /\ reader \in [pc : {"receive", "process"}, at : 0 .. BufferSize, entry : 0 .. ListSize]
    /\ out \in [Session -> Seq(Number)]
    /\ filled \in [Session -> 0 .. BufferSize]
    /\ got \in [Session -> Seq(Number)]
    /\ dropped \in [Session -> Seq(Number)]
    /\ requeued \in BOOLEAN

Scan == [pc |-> "scan", packet |-> 0, dwSend |-> 0]
WSARecv == [pc |-> "receive", at |-> 0, entry |-> 0]

Init ==
    /\ mail = <<>> /\ sendQ = <<>>
    /\ buf = <<>> /\ bufLen = 0
    /\ doSending = FALSE /\ main = Scan /\ requeued = FALSE
    /\ wire = "none" /\ stream = <<>>
    /\ recvBuf = <<>> /\ reader = WSARecv
    /\ out = [s \in Session |-> <<>>]
    /\ filled = [s \in Session |-> 0]
    /\ got = [s \in Session |-> <<>>]
    /\ dropped = [s \in Session |-> <<>>]
-----------------------------------------------------------------------------
(* The handlers of the game server.                                        *)

\* A mutant: the newest packet is the first to be sent.
PushHead(packet) ==
    /\ Len(mail) < MaxPackets
    /\ mail' = Append(mail, packet)
    /\ sendQ' = <<Len(mail')>> \o sendQ
    /\ UNCHANGED <<buf, bufLen, doSending, main, requeued, wire, stream, gateVars, got>>

Push(packet) ==
    /\ Len(mail) < MaxPackets
    /\ mail' = Append(mail, packet)
    /\ sendQ' = Append(sendQ, Len(mail'))
    /\ UNCHANGED <<buf, bufLen, doSending, main, requeued, wire, stream, gateVars, got>>

\* A reply goes to the session of the request; wUserList does not count.
Reply ==
    \E s \in Session : \E n \in 0 .. MaxLength :
        Push([broadcast |-> FALSE, to |-> s, length |-> n,
              list |-> [i \in 1 .. ListSize |-> Nobody]])

\* Chat is pushed once for each member of the room, as a broadcast.  Nothing
\* sets wUserList of the header on the stack: it may hold anything.
Chat ==
    /\ Cardinality({i \in DOMAIN mail : mail[i].broadcast}) < MaxBroadcasts
    /\ \E s \in Session : \E list \in [1 .. ListSize -> Session \cup {Nobody}] :
           Push([broadcast |-> TRUE, to |-> s, length |-> MaxLength, list |-> list])
-----------------------------------------------------------------------------
(* The main loop of the game server, in xSend.  The handlers push meanwhile. *)

TakeNext ==
    IF sendQ = <<>>
    THEN main' = [main EXCEPT !.pc = "send", !.packet = 0] /\ UNCHANGED sendQ
    ELSE main' = [main EXCEPT !.pc = "fill", !.packet = Head(sendQ)] /\ sendQ' = Tail(sendQ)

\* A mutant: the main loop does not look at m_fDoSending.
StartAtOnce ==
    /\ main.pc = "scan"
    /\ sendQ # <<>>
    /\ TakeNext
    /\ UNCHANGED <<mail, buf, bufLen, doSending, requeued, wire, stream, gateVars, got>>

Start ==
    /\ main.pc = "scan"
    /\ ~doSending
    /\ sendQ # <<>>
    /\ TakeNext
    /\ UNCHANGED <<mail, buf, bufLen, doSending, requeued, wire, stream, gateVars, got>>

Fits == main.dwSend + Size(main.packet) <= GateSize

\* The packet is copied behind the others, and the next one popped.
Fill ==
    /\ main.pc = "fill"
    /\ Fits
    /\ buf' = SubSeq(buf, 1, bufLen) \o Cells(main.packet)
    /\ bufLen' = bufLen + Size(main.packet)
    /\ LET n == main.dwSend + Size(main.packet)
       IN  IF sendQ = <<>>
           THEN main' = [pc |-> "send", packet |-> 0, dwSend |-> n] /\ UNCHANGED sendQ
           ELSE main' = [pc |-> "fill", packet |-> Head(sendQ), dwSend |-> n] /\ sendQ' = Tail(sendQ)
    /\ UNCHANGED <<mail, doSending, requeued, wire, stream, gateVars, got>>

\* A mutant: the packet that does not fit is left out.
PutAway ==
    /\ main.pc = "fill"
    /\ ~Fits
    /\ main' = [main EXCEPT !.pc = "send", !.packet = 0]
    /\ UNCHANGED <<mail, sendQ, buf, bufLen, doSending, requeued, wire, stream, gateVars, got>>

\* A packet that does not fit any more goes to the tail of the queue, behind
\* what the handlers have pushed after it.
PutBack ==
    /\ main.pc = "fill"
    /\ ~Fits
    /\ sendQ' = Append(sendQ, main.packet)
    /\ requeued' = (requeued \/ sendQ # <<>>)
    /\ main' = [main EXCEPT !.pc = "send", !.packet = 0]
    /\ UNCHANGED <<mail, buf, bufLen, doSending, wire, stream, gateVars, got>>

\* WSASend, unless nothing was copied.
Send ==
    /\ main.pc = "send"
    /\ IF main.dwSend # 0
       THEN doSending' = TRUE /\ wire' = "sending"
       ELSE UNCHANGED <<doSending, wire>>
    /\ main' = Scan
    /\ UNCHANGED <<mail, sendQ, buf, bufLen, requeued, stream, gateVars, got>>
-----------------------------------------------------------------------------
(* The network, and the completion of the send in ServerWorkerThread.      *)

\* With SO_SNDBUF set to zero the bytes are taken from the buffer itself.
Transmit ==
    /\ wire = "sending"
    /\ stream' = stream \o SubSeq(buf, 1, bufLen)
    /\ wire' = "sent"
    /\ UNCHANGED <<serverVars, gateVars, got>>

Clear ==
    /\ wire = "sent"
    /\ bufLen' = 0
    /\ wire' = "cleared"
    /\ UNCHANGED <<mail, sendQ, buf, doSending, main, requeued, stream, gateVars, got>>

\* A mutant: m_fDoSending is never reset.
KeepSending ==
    /\ wire = "cleared"
    /\ wire' = "none"
    /\ UNCHANGED <<serverVars, stream, gateVars, got>>

Sent ==
    /\ wire = "cleared"
    /\ doSending' = FALSE
    /\ wire' = "none"
    /\ UNCHANGED <<mail, sendQ, buf, bufLen, main, requeued, stream, gateVars, got>>
-----------------------------------------------------------------------------
(* The gate's ClientWorkerThread.                                          *)

\* A receive for what is left of the buffer completes.
Receive ==
    /\ reader.pc = "receive"
    /\ \E n \in 1 .. Len(stream) :
          /\ Len(recvBuf) + n <= BufferSize
          /\ recvBuf' = recvBuf \o SubSeq(stream, 1, n)
          /\ stream' = SubSeq(stream, n + 1, Len(stream))
    /\ reader' = [reader EXCEPT !.pc = "process"]
    /\ UNCHANGED <<serverVars, wire, out, filled, dropped, got>>

BytesRECV == Len(recvBuf) - reader.at

\* The message at pszData: a header that says how long the message is.
AtHand == recvBuf[reader.at + 1].packet

HasMessage ==
    /\ BytesRECV >= HeaderSize
    /\ BytesRECV >= Size(AtHand)

\* To the send buffer of a session, under its SendBuffLock, unless it is full.
\* A packet takes sizeof(CMsg) bytes more than its data there: one cell.
Copy(p, s) ==
    LET after == filled[s] + 1 + mail[p].length
    IN  IF after > BufferSize
        THEN dropped' = [dropped EXCEPT ![s] = Append(@, p)] /\ UNCHANGED <<out, filled>>
        ELSE /\ out' = [out EXCEPT ![s] = Append(@, p)]
             /\ filled' = [filled EXCEPT ![s] = after]
             /\ UNCHANGED dropped

\* On to the next message.
Step == reader' = [pc |-> "process", at |-> reader.at + Size(AtHand), entry |-> 0]

\* ProcessGameSvrPacket goes by wSessionIndex.
Process ==
    /\ reader.pc = "process"
    /\ HasMessage
    /\ ~mail[AtHand].broadcast
    /\ Copy(AtHand, mail[AtHand].to)
    /\ Step
    /\ UNCHANGED <<serverVars, wire, stream, recvBuf, got>>

\* ProcessGameSvrBoardCastPacket goes by wUserList, entry by entry; the sender
\* may empty a send buffer between two of them.
Broadcast ==
    /\ reader.pc = "process"
    /\ HasMessage
    /\ mail[AtHand].broadcast
    /\ IF reader.entry < ListSize
       THEN LET s == mail[AtHand].list[reader.entry + 1]
            IN  /\ IF s = Nobody THEN UNCHANGED <<out, filled, dropped>> ELSE Copy(AtHand, s)
                /\ reader' = [reader EXCEPT !.entry = @ + 1]
       ELSE Step /\ UNCHANGED <<out, filled, dropped>>
    /\ UNCHANGED <<serverVars, wire, stream, recvBuf, got>>

\* A mutant: the rest stays where it is.
StayPut ==
    /\ reader.pc = "process"
    /\ ~HasMessage
    /\ recvBuf' = SubSeq(recvBuf, 1, BytesRECV)
    /\ reader' = WSARecv
    /\ UNCHANGED <<serverVars, wire, stream, out, filled, dropped, got>>

\* What is left of a message is moved to the front of the buffer.
MoveTail ==
    /\ reader.pc = "process"
    /\ ~HasMessage
    /\ recvBuf' = SubSeq(recvBuf, reader.at + 1, Len(recvBuf))
    /\ reader' = WSARecv
    /\ UNCHANGED <<serverVars, wire, stream, out, filled, dropped, got>>
-----------------------------------------------------------------------------
(* ThreadFuncForMsg.                                                       *)

SendToClient(s) ==
    /\ out[s] # <<>>
    /\ got' = [got EXCEPT ![s] = @ \o out[s]]
    /\ out' = [out EXCEPT ![s] = <<>>]
    /\ filled' = [filled EXCEPT ![s] = 0]
    /\ UNCHANGED <<serverVars, wire, stream, recvBuf, reader, dropped>>
-----------------------------------------------------------------------------
MainLoop == Start \/ Fill \/ PutBack \/ Send
Complete == Transmit \/ Clear \/ Sent
Read == Receive \/ Process \/ Broadcast \/ MoveTail

Next ==
    \/ Reply \/ Chat
    \/ MainLoop
    \/ Complete
    \/ Read
    \/ \E s \in Session : SendToClient(s)

Spec == Init /\ [][Next]_vars

\* The threads run, and TCP delivers.
FairSpec ==
    /\ Spec
    /\ WF_vars(MainLoop) /\ WF_vars(Complete) /\ WF_vars(Read)
    /\ \A s \in Session : WF_vars(SendToClient(s))
-----------------------------------------------------------------------------
(* Properties.                                                             *)

\* The bytes between the server's buffer and the gate's loop.
Unread == SubSeq(recvBuf, reader.at + 1, Len(recvBuf))
Unsent == IF wire \in {"none", "sending"} THEN SubSeq(buf, 1, bufLen) ELSE <<>>
Pipe == Unread \o stream \o Unsent

\* Every cell stands in its packet, and the packet is there from its first cell
\* to its last.
WholePackets(cells) ==
    \A i \in 1 .. Len(cells) :
        LET first == i - cells[i].place
            size == Size(cells[i].packet)
        IN  /\ 1 <= first /\ i < first + size /\ first + size <= Len(cells) + 1
            /\ \A k \in 0 .. size - 1 :
                    cells[first + k] = [packet |-> cells[i].packet, place |-> k]

\* However TCP cuts the stream and whenever a buffer is filled again, the gate
\* stands at the beginning of a packet and has whole packets before it.
InStep == WholePackets(Pipe)

\* The packet in the main loop's hand, and the ones on the queue.
Waiting == (IF main.pc = "fill" THEN <<main.packet>> ELSE <<>>) \o sendQ

Times(x, s) == Cardinality({i \in DOMAIN s : s[i] = x})
With(p, s) == Times(p, out[s]) + Times(p, got[s]) + Times(p, dropped[s])

\* A reply is in one place: it waits to be sent, is in the pipe, or is with its
\* session; only a full send buffer costs it, and no other session has it.
NothingLost ==
    \A p \in DOMAIN mail : ~mail[p].broadcast =>
        /\ Times(p, Waiting) + Times([packet |-> p, place |-> 0], Pipe) + With(p, mail[p].to) = 1
        /\ \A s \in Session \ {mail[p].to} : With(p, s) = 0

\* As long as xSend has not put a packet behind others, each client gets its
\* packets in the order in which the handlers pushed them.
InOrder ==
    ~requeued => \A s \in Session : \A i, j \in 1 .. Len(got[s]) :
        i < j => \/ got[s][i] < got[s][j]
                 \/ got[s][i] = got[s][j] /\ mail[got[s][i]].broadcast

\* A reply arrives in the end, unless a full send buffer has cost it: a send is
\* always completed, and no packet is put back forever.
Arrives ==
    LET pushed(p) == p \in DOMAIN mail /\ ~mail[p].broadcast
        settled(p) == Contains(got[mail[p].to], p) \/ Contains(dropped[mail[p].to], p)
    IN  \A p \in Number : pushed(p) ~> (pushed(p) /\ settled(p))

\* A chat message goes to the session it was made for and to no other.
ChatReaches ==
    \A s \in Session : \A i \in DOMAIN got[s] : mail[got[s][i]].to = s

=============================================================================
