---------------------------- MODULE GateUplink ----------------------------
(***************************************************************************)
(* The way of a client's packet through the gate.                          *)
(*                                                                         *)
(* The IOCP worker (ServerWorkerThread) appends what a client has sent to  *)
(* the session's buffer, takes an element of g_memPool for each whole      *)
(* packet, copies the packet there and pushes it on g_SendToServerQ.       *)
(* ThreadFuncForMsg drains the queue to the game server and gives the      *)
(* elements back.  The queue has a lock; the pool has none.                *)
(*                                                                         *)
(* A session here is one client connection.  The reuse of session slots is *)
(* not part of this module, nor are buffers of more than DATA_BUFSIZE      *)
(* bytes, which ExtractPacket does not move up correctly: of each client   *)
(* at most MaxAhead packets wait to be taken out, and they fit.            *)
(***************************************************************************)
EXTENDS Integers, Sequences, SequencesExt, FiniteSets

CONSTANTS Session,    \* client connections
          NoSession,  \* of the worker between two completions, and of a pool
                      \* element never used
          PoolSize,   \* elements of g_memPool (_MAX_USER_ARRAY)
          MaxSent,    \* bound: good packets a client sends
          MaxAhead    \* bound: packets of a client not yet out of its buffer

ASSUME GateUplinkAssumption ==
    /\ NoSession \notin Session
    /\ PoolSize \in Nat \ {0}
    /\ MaxSent \in Nat
    /\ MaxAhead \in Nat

Element == 0 .. PoolSize - 1

\* A packet is its number among the client's good ones; Bad is one with a
\* length ExtractPacket does not accept.
Bad == 0
Packet == Nat

Idle == [pc |-> "idle", session |-> NoSession, element |-> 0]

VARIABLES
    sent,       \* how many good packets each client has sent
    flight,     \* the packets of each client the gate has not received
    inbuf,      \* the whole packets in CSessionInfo::Buffer
    open,       \* the sessions whose socket the gate has not closed
    used,       \* the pool elements with m_IsAvElements set
    data,       \* the session and the packet in each pool element
    queue,      \* g_SendToServerQ
    worker,     \* where ServerWorkerThread is, for which session and element
    sender,     \* where ThreadFuncForMsg is, its element and how many are left
    delivered   \* the packets sent to the game server, by session

clientVars == <<sent, flight>>
sessionVars == <<inbuf, open>>
poolVars == <<used, data>>
vars == <<clientVars, sessionVars, poolVars, queue, worker, sender, delivered>>

TypeOK ==
    /\ sent \in [Session -> 0 .. MaxSent]
    /\ flight \in [Session -> Seq(Packet)]
    /\ inbuf \in [Session -> Seq(Packet)]
    /\ open \in SUBSET Session
    /\ used \in SUBSET Element
    /\ data \in [Element -> [session : Session \cup {NoSession}, packet : Packet]]
    /\ queue \in Seq(Element)
    /\ worker \in [pc : {"idle", "look", "extract", "push"},
                   session : Session \cup {NoSession}, element : 0 .. PoolSize]
    /\ sender \in [pc : {"idle", "pop", "send", "free"},
                   element : Element, left : Nat]
    /\ delivered \in [Session -> Seq(Packet)]

Init ==
    /\ sent = [s \in Session |-> 0]
    /\ flight = [s \in Session |-> <<>>]
    /\ inbuf = [s \in Session |-> <<>>]
    /\ open = Session
    /\ used = {}
    /\ data = [e \in Element |-> [session |-> NoSession, packet |-> Bad]]
    /\ queue = <<>>
    /\ worker = Idle
    /\ sender = [pc |-> "idle", element |-> 0, left |-> 0]
    /\ delivered = [s \in Session |-> <<>>]
-----------------------------------------------------------------------------
(* The client.                                                             *)

SendGood(s) ==
    /\ Len(inbuf[s] \o flight[s]) < MaxAhead
    /\ sent[s] < MaxSent
    /\ sent' = [sent EXCEPT ![s] = @ + 1]
    /\ flight' = [flight EXCEPT ![s] = Append(@, sent'[s])]
    /\ UNCHANGED <<sessionVars, poolVars, queue, worker, sender, delivered>>

SendBad(s) ==
    /\ Len(inbuf[s] \o flight[s]) < MaxAhead
    /\ flight' = [flight EXCEPT ![s] = Append(@, Bad)]
    /\ UNCHANGED <<sent, sessionVars, poolVars, queue, worker, sender, delivered>>
-----------------------------------------------------------------------------
(* ServerWorkerThread.                                                     *)

\* A mutant: one packet is taken out of the buffer for each receive.
OnePacketPerReceive(s, left) == worker' = Idle

\* Receive again, or go on with the next packet of what is left in the buffer,
\* from the first element of the pool.
NextPacket(s, left) ==
    worker' = IF left = <<>> THEN Idle
              ELSE [pc |-> "look", session |-> s, element |-> 0]

\* A mutant: what a receive brings replaces what is left in the buffer.
ReceiveAtFront(s) ==
    /\ worker.pc = "idle"
    /\ s \in open
    /\ \E n \in 1 .. Len(flight[s]) :
          /\ inbuf' = [inbuf EXCEPT ![s] = SubSeq(flight[s], 1, n)]
          /\ flight' = [flight EXCEPT ![s] = SubSeq(@, n + 1, Len(@))]
    /\ NextPacket(s, inbuf'[s])
    /\ UNCHANGED <<sent, open, poolVars, queue, sender, delivered>>

\* A receive completes with some of what the client has sent.
Receive(s) ==
    /\ worker.pc = "idle"
    /\ s \in open
    /\ \E n \in 1 .. Len(flight[s]) :
          /\ inbuf' = [inbuf EXCEPT ![s] = @ \o SubSeq(flight[s], 1, n)]
          /\ flight' = [flight EXCEPT ![s] = SubSeq(@, n + 1, Len(@))]
    /\ NextPacket(s, inbuf'[s])
    /\ UNCHANGED <<sent, open, poolVars, queue, sender, delivered>>

\* A receive completes with nothing: the client has hung up.  GM_CLOSE goes to
\* the game server at once; what is left in the buffer is dropped.
HangUp(s) ==
    /\ worker.pc = "idle"
    /\ s \in open
    /\ flight[s] = <<>>
    /\ open' = open \ {s}
    /\ inbuf' = [inbuf EXCEPT ![s] = <<>>]
    /\ UNCHANGED <<clientVars, poolVars, queue, worker, sender, delivered>>

\* A mutant: the loop over the pool runs to <= PoolSize.
LookOneMore ==
    /\ worker.pc = "look"
    /\ worker.element <= PoolSize
    /\ IF worker.element \in used
       THEN worker' = [worker EXCEPT !.element = @ + 1] /\ UNCHANGED used
       ELSE worker' = [worker EXCEPT !.pc = "extract"] /\ used' = used \cup {worker.element}
    /\ UNCHANGED <<clientVars, sessionVars, data, queue, sender, delivered>>

\* GetAvailablePosition and GetEmptyElement look at one element after the
\* other, while ThreadFuncForMsg gives elements back.  (m_nLastRemoveIndex and
\* m_nLastInsertIndex are always 0: no one attaches or detaches elements.)
Look ==
    /\ worker.pc = "look"
    /\ worker.element < PoolSize
    /\ IF worker.element \in used
       THEN worker' = [worker EXCEPT !.element = @ + 1] /\ UNCHANGED used
       ELSE worker' = [worker EXCEPT !.pc = "extract"] /\ used' = used \cup {worker.element}
    /\ UNCHANGED <<clientVars, sessionVars, data, queue, sender, delivered>>

\* There is none: the rest of the buffer waits for the next receive.
NoElement ==
    /\ worker.pc = "look"
    /\ worker.element = PoolSize
    /\ worker' = Idle
    /\ UNCHANGED <<clientVars, sessionVars, poolVars, queue, sender, delivered>>

\* ExtractPacket takes the packet out of the buffer.
Extract ==
    LET s == worker.session
    IN  /\ worker.pc = "extract"
        /\ Head(inbuf[s]) # Bad
        /\ data' = [data EXCEPT ![worker.element] = [session |-> s, packet |-> Head(inbuf[s])]]
        /\ inbuf' = [inbuf EXCEPT ![s] = Tail(@)]
        /\ worker' = [worker EXCEPT !.pc = "push"]
        /\ UNCHANGED <<clientVars, open, used, queue, sender, delivered>>

\* ExtractPacket does not accept the packet: the session is closed, without a
\* word to the game server, and the pool element stays taken.
Reject ==
    LET s == worker.session
    IN  /\ worker.pc = "extract"
        /\ Head(inbuf[s]) = Bad
        /\ open' = open \ {s}
        /\ inbuf' = [inbuf EXCEPT ![s] = <<>>]
        /\ data' = [data EXCEPT ![worker.element] = [session |-> s, packet |-> Bad]]
        /\ NextPacket(s, <<>>)
        /\ UNCHANGED <<clientVars, used, queue, sender, delivered>>

\* A mutant: a packet is put at the head of the queue.
PushHead ==
    /\ worker.pc = "push"
    /\ sender.pc = "idle"
    /\ queue' = <<worker.element>> \o queue
    /\ NextPacket(worker.session, inbuf[worker.session])
    /\ UNCHANGED <<clientVars, sessionVars, poolVars, sender, delivered>>

\* PushQ waits for the queue's lock.
Push ==
    /\ worker.pc = "push"
    /\ sender.pc = "idle"
    /\ queue' = Append(queue, worker.element)
    /\ NextPacket(worker.session, inbuf[worker.session])
    /\ UNCHANGED <<clientVars, sessionVars, poolVars, sender, delivered>>
-----------------------------------------------------------------------------
(* ThreadFuncForMsg.  It holds the queue's lock except at "idle".          *)

Drain ==
    /\ sender.pc = "idle"
    /\ queue # <<>>
    /\ sender' = [sender EXCEPT !.pc = "pop", !.left = Len(queue)]
    /\ UNCHANGED <<clientVars, sessionVars, poolVars, queue, worker, delivered>>

\* A mutant: the element is given back before its packet is sent.
PopAndFree ==
    /\ sender.pc = "pop"
    /\ queue' = Tail(queue)
    /\ used' = used \ {Head(queue)}
    /\ sender' = [sender EXCEPT !.pc = "send", !.element = Head(queue)]
    /\ UNCHANGED <<clientVars, sessionVars, data, worker, delivered>>

Pop ==
    /\ sender.pc = "pop"
    /\ queue' = Tail(queue)
    /\ sender' = [sender EXCEPT !.pc = "send", !.element = Head(queue)]
    /\ UNCHANGED <<clientVars, sessionVars, poolVars, worker, delivered>>

\* SendSocketMsgS.  GetData finds the session's slot whether it is in use or not.
Deliver ==
    LET d == data[sender.element]
    IN  /\ sender.pc = "send"
        /\ delivered' = [delivered EXCEPT ![d.session] = Append(@, d.packet)]
        /\ sender' = [sender EXCEPT !.pc = "free"]
        /\ UNCHANGED <<clientVars, sessionVars, poolVars, queue, worker>>

\* A mutant: only the last element of a batch is given back.
FreeLast ==
    /\ sender.pc = "free"
    /\ used' = IF sender.left = 1 THEN used \ {sender.element} ELSE used
    /\ sender' = [sender EXCEPT !.pc = IF sender.left = 1 THEN "idle" ELSE "pop",
                                 !.left = @ - 1]
    /\ UNCHANGED <<clientVars, sessionVars, data, queue, worker, delivered>>

\* SetEmptyElement; the lock is released after the last packet.
Free ==
    /\ sender.pc = "free"
    /\ used' = used \ {sender.element}
    /\ sender' = [sender EXCEPT !.pc = IF sender.left = 1 THEN "idle" ELSE "pop",
                                 !.left = @ - 1]
    /\ UNCHANGED <<clientVars, sessionVars, data, queue, worker, delivered>>
-----------------------------------------------------------------------------
Work == Look \/ NoElement \/ Extract \/ Reject \/ Push \/ \E s \in Session : Receive(s)
Forward == Drain \/ Pop \/ Deliver \/ Free

Next ==
    \/ \E s \in Session : SendGood(s) \/ SendBad(s) \/ HangUp(s)
    \/ Work
    \/ Forward

Spec == Init /\ [][Next]_vars

\* Both threads run, whenever they have work.
FairSpec == Spec /\ WF_vars(Work) /\ WF_vars(Forward)

-----------------------------------------------------------------------------
(* Properties.                                                             *)

InHand(e) == worker.pc \in {"extract", "push"} /\ worker.element = e
Queued(e) == Contains(queue, e)
Leaving(e) == sender.pc \in {"send", "free"} /\ sender.element = e

\* The pool has no lock, yet an element is never handed out while it is still
\* queued or being sent: it is with the worker, once on the queue, or with
\* ThreadFuncForMsg, and then it is marked as taken.
OneOwner ==
    /\ IsInjective(queue)
    /\ \A e \in Element :
          /\ InHand(e) \/ Queued(e) \/ Leaving(e) => e \in used
          /\ ~(InHand(e) /\ Queued(e)) /\ ~(InHand(e) /\ Leaving(e))
          /\ ~(Queued(e) /\ Leaving(e))

\* Only a packet ExtractPacket rejects costs the pool an element: whatever else
\* is taken is on its way to the game server and will be given back.
OnlyBadLeaks ==
    \A e \in used : InHand(e) \/ Queued(e) \/ Leaving(e) \/ data[e].packet = Bad

\* A session the worker works on has a packet in its buffer, and a batch of
\* ThreadFuncForMsg is what the queue holds, plus the packet in hand.
ThreadsInv ==
    /\ worker.pc # "idle" => worker.session \in Session
    /\ worker.pc \in {"look", "extract"} => inbuf[worker.session] # <<>>
    /\ worker.pc \in {"extract", "push"} => worker.element \in Element
    /\ sender.pc # "idle" =>
          sender.left = Len(queue) + IF sender.pc = "pop" THEN 0 ELSE 1
    /\ sender.pc = "pop" => queue # <<>>

\* What a step preserves.
IInv ==
    /\ TypeOK
    /\ ThreadsInv
    /\ OneOwner
    /\ OnlyBadLeaks

\* The pool elements with packets that have left the buffers and not reached
\* the server yet, and what s has in them; to s other packets are as good as bad.
Way ==
    (IF sender.pc = "send" THEN <<sender.element>> ELSE <<>>)
    \o queue
    \o (IF worker.pc = "push" THEN <<worker.element>> ELSE <<>>)

Mine(s) == [i \in 1 .. Len(Way) |->
               IF data[Way[i]].session = s THEN data[Way[i]].packet ELSE Bad]

\* What the gate has received of s, and all that is still on its way.
Taken(s) == delivered[s] \o Mine(s) \o inbuf[s]
Stream(s) == Taken(s) \o flight[s]

\* The good ones of the packets are 1 to n, in this order and each once.
InOrder(packets, n) ==
    /\ \A i \in 1 .. Len(packets) : packets[i] \in 0 .. n
    /\ \A p \in 1 .. n : \E i \in 1 .. Len(packets) : packets[i] = p
    /\ \A i, j \in 1 .. Len(packets) :
          i < j /\ packets[i] # Bad /\ packets[j] # Bad => packets[i] < packets[j]

\* From the client to the game server, through buffer, pool and queue, the
\* packets of an open session are all there and in the order they were sent.
NothingLost == \A s \in open : InOrder(Stream(s), sent[s])

\* What is under way is good and some client's.
OnlyGood ==
    \A i \in 1 .. Len(Way) : data[Way[i]].session \in Session /\ data[Way[i]].packet # Bad

\* Of a session that is closed only the last packets are missing.
OnlyLastLost == \A s \in Session \ open : \E n \in 0 .. sent[s] : InOrder(Taken(s), n)

\* The server has the first ones.
FirstDelivered == \A s \in Session : \A i \in 1 .. Len(delivered[s]) : delivered[s][i] = i

\* What, with IInv, a step preserves of the clients' packets.
StreamInv ==
    /\ OnlyGood
    /\ NothingLost
    /\ OnlyLastLost
    /\ FirstDelivered

\* The gate is a channel that keeps the order of each client's packets.
Uplink == INSTANCE Channel WITH got <- delivered
UplinkSpec == Uplink!Spec

\* As long as the pool never runs dry, a packet is delivered in the end or its
\* session is closed.  (What a session's buffer holds when the pool is empty
\* waits until its client sends something more.)
Delivered ==
    [](used # Element) =>
        \A s \in Session : \A n \in 1 .. MaxSent :
            sent[s] >= n ~> (Len(delivered[s]) >= n \/ s \notin open)

=============================================================================
