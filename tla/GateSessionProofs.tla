------------------------- MODULE GateSessionProofs -------------------------
(***************************************************************************)
(* The session slots of the gate, for every number of slots, users and     *)
(* clients: once the answer to a client's GM_OPEN has come back, the slot  *)
(* the client last took holds the client's own index.                      *)
(***************************************************************************)
EXTENDS GateSession, TableLemmas

USE GateSessionAssumption

\* Handling the first message of a stream.
LEMMA HandleFirst ==
    ASSUME NEW S, NEW s \in Seq(S), s # <<>>
    PROVE  /\ Head(s) = s[1] /\ Head(s) \in S
           /\ Tail(s) \in Seq(S)
           /\ Len(s) \in Nat /\ Len(s) >= 1
           /\ Len(Tail(s)) = Len(s) - 1
           /\ \A i \in 1 .. Len(s) - 1 : i + 1 \in 1 .. Len(s) /\ Tail(s)[i] = s[i + 1]
BY EmptySeq, HeadTailProperties, LenProperties

\* Sending one more message on a stream.
LEMMA SendLast ==
    ASSUME NEW S, NEW s \in Seq(S), NEW m \in S
    PROVE  /\ Append(s, m) \in Seq(S)
           /\ Len(s) \in Nat
           /\ Len(Append(s, m)) = Len(s) + 1
           /\ \A i \in 1 .. Len(s) : Append(s, m)[i] = s[i]
           /\ Append(s, m)[Len(s) + 1] = m
BY AppendProperties, LenProperties

\* The first free slot of the gate.
LEMMA FreeSlotFound ==
    ASSUME NEW taken \in SUBSET Slot, taken # Slot
    PROVE  (CHOOSE s \in Slot \ taken : \A t \in Slot \ taken : s <= t) \in Slot \ taken
<1>1. \A s \in Slot : s \in Nat
    BY DEF Slot
<1>2. Slot \ taken \in SUBSET Nat /\ Slot \ taken # {}
    BY <1>1
<1>3. \E s \in Slot \ taken : \A t \in Slot \ taken : s <= t
    BY <1>2, MinOfNaturals
<1>4. QED
    BY <1>3

\* Element and first number of the tables.
LEMMA ZeroIndex == 0 \in User /\ 0 \in Slot /\ Slot \in SUBSET Nat /\ User \in SUBSET Nat
BY DEF User, Slot

\* AcceptThread's steps keep the types.
LEMMA TypeAccepting == TypeOK /\ KeyInv /\ Accepting => TypeOK'
<1> SUFFICES ASSUME TypeOK, KeyInv, Accepting PROVE TypeOK'
    OBVIOUS
<1> USE DEF slotVars, clientVars, threadVars, gateVars, serverVars, history
<1>0. accepted \in 0 .. MaxClients /\ used \in SUBSET Slot /\ slotOf \in [Client -> Slot \cup {NoKey}]
      /\ sock \in [Slot -> Client \cup {NoClient}] /\ index \in [Slot -> User]
      /\ pending \in [Client -> Nat] /\ toServer \in Seq(Message)
    BY DEF TypeOK
<1>2. CASE Accept
    <2>0. accepted' \in 0 .. MaxClients
        BY <1>0, <1>2 DEF Accept
    <2>1. CASE used = Slot
        <3>2. UNCHANGED <<slotOf, used, acceptor>>
            BY <1>2, <2>1 DEF Accept
        <3>3. QED
            BY <1>2, <2>0, <3>2 DEF Accept, TypeOK
    <2>2. CASE used # Slot
        <3> DEFINE s == CHOOSE s \in Slot \ used : \A t \in Slot \ used : s <= t
        <3>1. s \in Slot
            BY <1>0, <2>2, FreeSlotFound
        <3>2. slotOf' = [slotOf EXCEPT ![accepted'] = s]
              /\ used' = used \cup {s} /\ acceptor' = "setup"
            BY <1>2, <2>2 DEF Accept
        <3> HIDE DEF s
        <3>4. slotOf' \in [Client -> Slot \cup {NoKey}]
            BY <1>0, <3>1, <3>2
        <3>5. used' \in SUBSET Slot
            BY <1>0, <3>1, <3>2
        <3>6. QED
            BY <1>2, <2>0, <3>2, <3>4, <3>5 DEF Accept, TypeOK
    <2>3. QED
        BY <2>1, <2>2
<1>3. CASE SetUp
    <2>1. accepted \in Client /\ slotOf[accepted] \in Slot
        BY <1>3 DEF SetUp, KeyInv
    <2>2. sock' \in [Slot -> Client \cup {NoClient}] /\ index' \in [Slot -> User]
        BY <1>0, <1>3, <2>1, ZeroIndex DEF SetUp
    <2>3. QED
        BY <1>3, <2>2 DEF SetUp, TypeOK
<1>4. CASE Arm
    <2>1. accepted \in Client
        BY <1>4 DEF Arm, KeyInv
    <2>2. pending' \in [Client -> Nat]
        BY <1>0, <1>4, <2>1 DEF Arm
    <2>3. QED
        BY <1>4, <2>2 DEF Arm, TypeOK
<1>5. CASE Announce
    <2>1. accepted \in Client /\ slotOf[accepted] \in Slot
        BY <1>5 DEF Announce, KeyInv
    <2>2. [type |-> "open", slot |-> slotOf[accepted], from |-> accepted, index |-> 0] \in Message
        BY <2>1, ZeroIndex DEF Message
    <2>3. toServer' \in Seq(Message)
        BY <1>0, <1>5, <2>2, SendLast DEF Announce, SendSocketMsgS
    <2>4. QED
        BY <1>5, <2>3 DEF Announce, TypeOK
<1>6. QED
    BY <1>2, <1>3, <1>4, <1>5 DEF Accepting

\* ServerWorkerThread's steps keep the types.
LEMMA TypeWorking == TypeOK /\ KeyInv /\ Working => TypeOK'
<1> SUFFICES ASSUME TypeOK, KeyInv, Working PROVE TypeOK'
    OBVIOUS
<1> USE DEF slotVars, clientVars, threadVars, gateVars, serverVars, history
<1>0. used \in SUBSET Slot /\ slotOf \in [Client -> Slot \cup {NoKey}]
      /\ sock \in [Slot -> Client \cup {NoClient}] /\ index \in [Slot -> User]
      /\ pending \in [Client -> Nat] /\ toServer \in Seq(Message) /\ received \in 0 .. MaxPackets
      /\ shut \in SUBSET Client
      /\ queue \in Seq([slot : Slot, from : Client])
    BY DEF TypeOK
<1>1. worker.slot \in Slot /\ worker.client \in Client \cup {NoClient}
      /\ DOMAIN worker = {"pc", "slot", "client"}
    BY DEF TypeOK
<1>2. Idle \in [pc : {"idle"}, slot : Slot, client : {NoClient}]
    BY ZeroIndex DEF Idle
<1>3. \A c \in Client : pending[c] > 0 => slotOf[c] \in Slot
    BY DEF KeyInv
<1>6. ASSUME NEW c \in Client, Disconnected(c) PROVE TypeOK'
    <2>1. slotOf[c] \in Slot
        BY <1>3, <1>6 DEF Disconnected
    <2>2. [type |-> "close", slot |-> slotOf[c], from |-> sock[slotOf[c]], index |-> index[slotOf[c]]] \in Message
        BY <1>0, <2>1 DEF Message
    <2>3. toServer' \in Seq(Message)
        BY <1>0, <1>6, <2>2, SendLast DEF Disconnected, SendSocketMsgS
    <2>4. pending' \in [Client -> Nat]
        BY <1>0, <1>6 DEF Disconnected
    <2>5. worker' = [pc |-> "free", slot |-> slotOf[c], client |-> c] /\ noticed' = noticed \cup {c}
        BY <1>6 DEF Disconnected
    <2>6. /\ worker' \in [pc : {"free"}, slot : Slot, client : Client]
          /\ noticed' \in SUBSET Client
        BY <2>1, <2>5 DEF TypeOK
    <2>7. QED
        BY <1>6, <2>3, <2>4, <2>6 DEF Disconnected, TypeOK
<1>7. ASSUME NEW c \in Client, Received(c) PROVE TypeOK'
    <2>1. slotOf[c] \in Slot
        BY <1>3, <1>7 DEF Received
    <2>2. pending' \in [Client -> Nat] /\ received' \in 0 .. MaxPackets
        BY <1>0, <1>7 DEF Received
    <2>3. worker' = [pc |-> "extract", slot |-> slotOf[c], client |-> c]
        BY <1>7 DEF Received
    <2>4. worker' \in [pc : {"extract"}, slot : Slot, client : Client]
        BY <2>1, <2>3
    <2>5. QED
        BY <1>7, <2>2, <2>4 DEF Received, TypeOK
<1>8. CASE Push
    <2>1. [slot |-> worker.slot, from |-> worker.client] \in [slot : Slot, from : Client]
        BY <1>1, <1>8 DEF Push, KeyInv
    <2>2. queue' \in Seq([slot : Slot, from : Client])
        BY <1>0, <1>8, <2>1, SendLast DEF Push
    <2>3. QED
        BY <1>8, <2>2 DEF Push, TypeOK
<1>9. CASE Reject
    BY <1>9 DEF Reject, FreeSlot, TypeOK
<1>10. CASE ShutRejected
    BY <1>10 DEF ShutRejected, ShutSocket, TypeOK
<1>11. CASE ReceiveAgain
    <2>2. CASE sock[worker.slot] \in shut
        BY <1>11, <2>2 DEF ReceiveAgain, TypeOK
    <2>3. CASE sock[worker.slot] \notin shut
        <3> DEFINE c == sock[worker.slot]
        <3>1. pending' = [pending EXCEPT ![c] = @ + 1] /\ worker' = Idle
            BY <1>11, <2>3 DEF ReceiveAgain
        <3> HIDE DEF c
        <3>2. pending' \in [Client -> Nat]
            <4>1. CASE c \in Client
                BY <1>0, <3>1, <4>1
            <4>2. CASE c \notin Client
                BY <1>0, <3>1, <4>2
            <4>3. QED
                BY <4>1, <4>2
        <3>3. QED
            BY <1>11, <1>2, <3>1, <3>2 DEF ReceiveAgain, TypeOK
    <2>4. QED
        BY <2>2, <2>3
<1>12. CASE Free
    BY <1>12 DEF Free, FreeSlot, TypeOK
<1>13. CASE Shut
    <2>2. shut' \in SUBSET Client /\ worker' = Idle
        BY <1>0, <1>1, <1>13 DEF Shut, ShutSocket
    <2>3. QED
        BY <1>13, <1>2, <2>2 DEF Shut, TypeOK
<1>14. QED
    BY <1>6, <1>7, <1>8, <1>9, <1>10, <1>11, <1>12, <1>13 DEF Working

\* The steps of ThreadFuncForMsg, the server and ClientWorkerThread keep the types.
LEMMA TypeStreams == TypeOK /\ OrderInv /\ (Forward \/ Serving \/ Reading) => TypeOK'
<1> SUFFICES ASSUME TypeOK, OrderInv, Forward \/ Serving \/ Reading PROVE TypeOK'
    OBVIOUS
<1> USE DEF slotVars, clientVars, threadVars, gateVars, serverVars, history
<1>0. queue \in Seq([slot : Slot, from : Client]) /\ toServer \in Seq(Message) /\ toGate \in Seq(Answer)
      /\ index \in [Slot -> User] /\ users \in [User -> Client \cup {NoClient}] /\ cursor \in Nat
      /\ given \in [Client -> User \cup {NoKey}]
    BY DEF TypeOK
<1>1. toServer # <<>> =>
        /\ Head(toServer) \in Message /\ Tail(toServer) \in Seq(Message)
        /\ Head(toServer).type # "close" => Head(toServer).from \in Client
    <2>1. SUFFICES ASSUME toServer # <<>>
                   PROVE  /\ Head(toServer) \in Message /\ Tail(toServer) \in Seq(Message)
                          /\ Head(toServer).type # "close" => Head(toServer).from \in Client
        OBVIOUS
    <2>2. /\ Head(toServer) \in Message /\ Tail(toServer) \in Seq(Message)
          /\ Head(toServer) = toServer[1] /\ 1 \in 1 .. Len(toServer)
        BY <1>0, <2>1, HandleFirst
    <2>3. QED
        BY <2>2 DEF OrderInv
<1>2. toGate # <<>> => Head(toGate) \in Answer /\ Tail(toGate) \in Seq(Answer)
    BY <1>0, HandleFirst
<1>14. CASE Forward
    <2>1. Head(queue) \in [slot : Slot, from : Client] /\ Tail(queue) \in Seq([slot : Slot, from : Client])
        BY <1>0, <1>14, HandleFirst DEF Forward
    <2>2. [type |-> "packet", slot |-> Head(queue).slot, from |-> Head(queue).from,
           index |-> index[Head(queue).slot]] \in Message
        BY <1>0, <2>1 DEF Message
    <2>3. toServer' \in Seq(Message)
        BY <1>0, <1>14, <2>2, SendLast DEF Forward, SendSocketMsgS
    <2>4. QED
        BY <1>14, <2>1, <2>3 DEF Forward, TypeOK
<1>15. CASE Open
    <2> DEFINE m == Head(toServer)
               u == GetFreeKey({v \in User : users[v] = NoClient}, UserCount, cursor)
    <2>1. m \in Message /\ Tail(toServer) \in Seq(Message) /\ m.from \in Client
        BY <1>1, <1>15 DEF Open
    <2>2. CursorAfter(u, UserCount, cursor) \in Nat
        BY <1>0 DEF CursorAfter
    <2>3. cursor' \in Nat /\ toServer' \in Seq(Message)
        BY <1>15, <2>1, <2>2 DEF Open
    <2>4. CASE u \in User
        <3>1. [type |-> "index", slot |-> m.slot, from |-> m.from, index |-> u] \in Answer
            BY <2>1, <2>4 DEF Answer, Message
        <3>2. toGate' = Append(toGate, [type |-> "index", slot |-> m.slot, from |-> m.from, index |-> u])
            BY <1>15, <2>4 DEF Open, Answered
        <3>3. toGate' \in Seq(Answer)
            BY <1>0, <3>1, <3>2, SendLast
        <3>4. users' = [users EXCEPT ![u] = m.from] /\ given' = [given EXCEPT ![m.from] = u]
            BY <1>15, <2>4 DEF Open
        <3> HIDE DEF u, m
        <3>5. users' \in [User -> Client \cup {NoClient}] /\ given' \in [Client -> User \cup {NoKey}]
            BY <1>0, <2>1, <2>4, <3>4
        <3>6. QED
            BY <1>15, <2>3, <3>3, <3>5 DEF Open, TypeOK
    <2>5. CASE u \notin User
        <3>1. UNCHANGED <<users, given, toGate>>
            BY <1>15, <2>5 DEF Open
        <3> HIDE DEF u, m
        <3>3. QED
            BY <1>15, <2>3, <3>1 DEF Open, TypeOK
    <2>6. QED
        BY <2>4, <2>5
<1>16. CASE Close
    <2>1. users' \in [User -> Client \cup {NoClient}] /\ toServer' \in Seq(Message)
        BY <1>0, <1>1, <1>16 DEF Close, Message
    <2>2. QED
        BY <1>16, <2>1 DEF Close, TypeOK
<1>17. CASE Handle
    BY <1>1, <1>17 DEF Handle, TypeOK
<1>18. CASE Refuse
    <2> DEFINE m == Head(toServer)
    <2>1. m \in Message /\ Tail(toServer) \in Seq(Message) /\ m.from \in Client
        BY <1>1, <1>18 DEF Refuse
    <2>2. [type |-> "close", slot |-> m.slot, from |-> m.from, index |-> 0] \in Answer
        BY <2>1, ZeroIndex DEF Answer, Message
    <2>3. toGate' \in Seq(Answer)
        BY <1>0, <1>18, <2>2, SendLast DEF Refuse, Answered
    <2>4. QED
        BY <1>18, <2>1, <2>3 DEF Refuse, TypeOK
<1>19. CASE Learn
    <2>1. Head(toGate) \in Answer /\ Tail(toGate) \in Seq(Answer)
        BY <1>2, <1>19 DEF Learn
    <2>2. index' \in [Slot -> User]
        BY <1>0, <1>19, <2>1 DEF Learn, Answer
    <2>3. told' \in SUBSET Client
        BY <1>19, <2>1 DEF Learn, Answer, TypeOK
    <2>4. QED
        BY <1>19, <2>1, <2>2, <2>3 DEF Learn, TypeOK
<1>20. CASE CutOff
    <2>1. Head(toGate) \in Answer /\ Tail(toGate) \in Seq(Answer)
        BY <1>2, <1>20 DEF CutOff
    <2>2. Head(toGate).slot \in Slot
        BY <2>1 DEF Answer
    <2>3. QED
        BY <1>20, <2>1, <2>2 DEF CutOff, FreeSlot, TypeOK
<1>21. CASE ShutCutOff
    BY <1>21 DEF ShutCutOff, ShutSocket, TypeOK
<1>22. QED
    BY <1>14, <1>15, <1>16, <1>17, <1>18, <1>19, <1>20, <1>21 DEF Serving, Reading

\* Every step keeps the types of the gate's and the server's state.
LEMMA TypeStep == TypeOK /\ KeyInv /\ OrderInv /\ [Next]_vars => TypeOK'
<1> SUFFICES ASSUME TypeOK, KeyInv, OrderInv, [Next]_vars PROVE TypeOK'
    OBVIOUS
<1> USE DEF slotVars, clientVars, threadVars, gateVars, serverVars, history
<1>1. ASSUME NEW c \in Client, HangUp(c) PROVE TypeOK'
    BY <1>1 DEF HangUp, TypeOK
<1>2. CASE UNCHANGED vars
    BY <1>2 DEF vars, TypeOK
<1>3. QED
    BY <1>1, <1>2, TypeAccepting, TypeWorking, TypeStreams DEF Next
-----------------------------------------------------------------------------
(* Slots, sockets and completion keys.                                     *)

\* The clients the acceptor is done with have their slot set up.
LEMMA AnnouncedSettled == Announced \subseteq Settled
BY DEF Announced, Settled

\* Steps that leave accepts, keys and sockets alone keep KeyInv, as long as
\* receives are armed for clients with a key only.
LEMMA KeyFrame ==
    ASSUME TypeOK, KeyInv,
           UNCHANGED <<accepted, acceptor, slotOf, sock>>,
           \A c \in Client : pending'[c] > 0 => slotOf[c] \in Slot,
           worker'.pc = "extract" => worker'.client \in Client
    PROVE  KeyInv'
BY DEF KeyInv, Settled

\* KeyInv is kept by AcceptThread.
LEMMA KeyAccepting == TypeOK /\ KeyInv /\ Accepting => KeyInv'
<1> SUFFICES ASSUME TypeOK, KeyInv, Accepting PROVE KeyInv'
    OBVIOUS
<1> USE DEF slotVars, clientVars, threadVars, gateVars, serverVars, history
<1>0. accepted \in 0 .. MaxClients /\ used \in SUBSET Slot /\ slotOf \in [Client -> Slot \cup {NoKey}]
      /\ sock \in [Slot -> Client \cup {NoClient}] /\ pending \in [Client -> Nat]
    BY DEF TypeOK
<1>a. (\A c \in Client : c \in Nat) /\ NoKey \notin Slot /\ NoClient \notin Client
    BY ZeroIndex DEF Client, NoKey, NoClient
<1>1. CASE Accept
    <2>0. accepted' = accepted + 1 /\ accepted' \in Client /\ acceptor = "accept"
          /\ UNCHANGED <<sock, pending, worker>>
        BY <1>0, <1>a, <1>1 DEF Accept, Client
    <2>1. Settled = {c \in Client : c <= accepted}
        <3>1. \A c \in Client : c \in Settled <=> c <= accepted
            BY <1>0, <1>a, <2>0 DEF Settled
        <3>2. QED
            BY <3>1 DEF Settled
    <2>2. CASE used = Slot
        <3>1. UNCHANGED <<slotOf, acceptor>>
            BY <1>1, <2>2 DEF Accept
        <3>2. slotOf[accepted'] = NoKey
            BY <1>0, <1>a, <2>0 DEF KeyInv
        <3>3. Settled' = Settled \cup {accepted'}
            BY <1>0, <1>a, <2>0, <2>1, <3>1 DEF Settled, Client
        <3>4. QED
            BY <1>0, <1>a, <2>0, <3>1, <3>2, <3>3 DEF KeyInv
    <2>3. CASE used # Slot
        <3> DEFINE s == CHOOSE s \in Slot \ used : \A t \in Slot \ used : s <= t
        <3>1. s \in Slot
            BY <1>0, <1>a, <2>3, FreeSlotFound
        <3>2. slotOf' = [slotOf EXCEPT ![accepted'] = s] /\ acceptor' = "setup"
            BY <1>1, <2>3 DEF Accept
        <3> HIDE DEF s
        <3>3. Settled' = Settled
            BY <1>0, <1>a, <2>0, <2>1, <3>2 DEF Settled, Client
        <3>4. /\ slotOf'[accepted'] = s
              /\ \A c \in Client : c # accepted' => slotOf'[c] = slotOf[c]
              /\ accepted' \notin Settled
            BY <1>0, <1>a, <2>0, <2>1, <3>2
        <3>5. \A c \in Client : pending'[c] > 0 => slotOf'[c] \in Slot
            BY <1>0, <1>a, <2>0, <3>1, <3>4 DEF KeyInv
        <3>6. \A c \in Client : c > accepted' => slotOf'[c] = NoKey
            BY <1>0, <1>a, <2>0, <3>4 DEF KeyInv
        <3>7. \A t \in Slot : sock'[t] \in Client => slotOf'[sock'[t]] = t /\ sock'[t] \in Settled'
            BY <1>0, <1>a, <2>0, <3>3, <3>4 DEF KeyInv
        <3>8. \A c \in Settled' : slotOf'[c] \in Slot => sock'[slotOf'[c]] >= c
            <4>1. \A c \in Settled : c # accepted' /\ c \in Client
                BY <3>4 DEF Settled
            <4>2. QED
                BY <2>0, <3>3, <3>4, <4>1 DEF KeyInv
        <3>9. QED
            BY <2>0, <3>1, <3>4, <3>5, <3>6, <3>7, <3>8 DEF KeyInv
    <2>4. QED
        BY <2>2, <2>3
<1>2. CASE SetUp
    <2> DEFINE s == slotOf[accepted]
    <2>1. accepted \in Client /\ s \in Slot
        BY <1>2 DEF SetUp, KeyInv
    <2>2. sock' = [sock EXCEPT ![s] = accepted] /\ acceptor = "setup" /\ acceptor' = "arm"
          /\ UNCHANGED <<accepted, slotOf, pending, worker>>
        BY <1>2 DEF SetUp
    <2>3. Settled' = Settled \cup {accepted} /\ \A c \in Settled' : c <= accepted /\ c \in Client
        BY <1>0, <1>a, <2>1, <2>2 DEF Settled
    <2> HIDE DEF s
    <2>4. \A t \in Slot : sock'[t] = IF t = s THEN accepted ELSE sock[t]
        BY <1>0, <1>a, <2>2
    <2>5. \A t \in Slot : sock'[t] \in Client => slotOf'[sock'[t]] = t /\ sock'[t] \in Settled'
        BY <1>0, <1>a, <2>1, <2>2, <2>3, <2>4 DEF KeyInv, s
    <2>6. \A c \in Settled' : slotOf'[c] \in Slot => sock'[slotOf'[c]] >= c
        <3>1. SUFFICES ASSUME NEW c \in Settled', slotOf[c] \in Slot
                       PROVE  sock'[slotOf[c]] >= c
            BY <2>2
        <3>2. CASE slotOf[c] = s
            BY <1>0, <1>a, <2>3, <2>4, <3>1, <3>2
        <3>3. CASE slotOf[c] # s
            <4>1. c \in Settled
                BY <2>3, <3>3 DEF s
            <4>2. QED
                BY <2>4, <3>1, <3>3, <4>1 DEF KeyInv
        <3>4. QED
            BY <3>2, <3>3
    <2>7. QED
        BY <2>1, <2>2, <2>5, <2>6 DEF KeyInv, s
<1>3. CASE Arm
    <2>1. accepted \in Client /\ slotOf[accepted] \in Slot
        BY <1>3 DEF Arm, KeyInv
    <2>2. acceptor = "arm" /\ acceptor' = "open" /\ UNCHANGED <<accepted, slotOf, sock, worker>>
        BY <1>3 DEF Arm
    <2>3. Settled' = Settled
        BY <2>2 DEF Settled
    <2>4. \A c \in Client : c # accepted => pending'[c] = pending[c]
        BY <1>0, <1>a, <1>3, <2>1 DEF Arm
    <2>5. QED
        BY <2>1, <2>2, <2>3, <2>4 DEF KeyInv
<1>4. CASE Announce
    <2>1. acceptor = "open" /\ acceptor' = "accept" /\ UNCHANGED <<accepted, slotOf, sock, worker, pending>>
        BY <1>4 DEF Announce
    <2>2. Settled' = Settled
        BY <2>1 DEF Settled
    <2>3. QED
        BY <2>1, <2>2 DEF KeyInv
<1>5. QED
    BY <1>1, <1>2, <1>3, <1>4 DEF Accepting

\* Every step keeps KeyInv.
LEMMA KeyStep == TypeOK /\ KeyInv /\ [Next]_vars => KeyInv'
<1> SUFFICES ASSUME TypeOK, KeyInv, [Next]_vars PROVE KeyInv'
    OBVIOUS
<1> USE DEF slotVars, clientVars, threadVars, gateVars, serverVars, history
<1>0. /\ pending \in [Client -> Nat] /\ sock \in [Slot -> Client \cup {NoClient}]
      /\ worker.slot \in Slot /\ DOMAIN worker = {"pc", "slot", "client"}
    BY DEF TypeOK
<1>1. /\ \A c \in Client : pending[c] > 0 => slotOf[c] \in Slot
      /\ worker.pc = "extract" => worker.client \in Client
    BY DEF KeyInv
<1>2. CASE Accepting
    BY <1>2, KeyAccepting
<1>3. ASSUME NEW c \in Client, HangUp(c) PROVE KeyInv'
    BY <1>1, <1>3, KeyFrame DEF HangUp
<1>4. ASSUME NEW c \in Client, Disconnected(c) PROVE KeyInv'
    <2>1. \A d \in Client : pending'[d] > 0 => slotOf[d] \in Slot
        BY <1>0, <1>1, <1>4 DEF Disconnected
    <2>2. worker'.pc # "extract" /\ UNCHANGED <<accepted, acceptor, slotOf, sock>>
        BY <1>4 DEF Disconnected
    <2>3. QED
        BY <2>1, <2>2, KeyFrame
<1>5. ASSUME NEW c \in Client, Received(c) PROVE KeyInv'
    <2>1. \A d \in Client : pending'[d] > 0 => slotOf[d] \in Slot
        BY <1>0, <1>1, <1>5 DEF Received
    <2>2. worker'.client \in Client /\ UNCHANGED <<accepted, acceptor, slotOf, sock>>
        BY <1>5 DEF Received
    <2>3. QED
        BY <2>1, <2>2, KeyFrame
<1>6. CASE Push \/ Reject \/ ShutRejected \/ Free \/ Shut
    <2>1. worker'.pc # "extract" /\ UNCHANGED <<accepted, acceptor, slotOf, sock, pending>>
        <3>1. \A pc \in STRING : [worker EXCEPT !.pc = pc].pc = pc
            BY <1>0
        <3>2. CASE Push
            BY <3>1, <3>2 DEF Push
        <3>3. CASE Reject
            <4>1. worker' = [worker EXCEPT !.pc = "shut again"] /\ "shut again" # "extract"
                BY <3>3 DEF Reject
            <4>2. QED
                BY <1>0, <3>3, <4>1 DEF Reject
        <3>4. CASE ShutRejected
            <4>1. worker' = [worker EXCEPT !.pc = "again"]
                BY <3>4 DEF ShutRejected
            <4>2. QED
                BY <1>0, <3>4, <4>1 DEF ShutRejected
        <3>5. CASE Free
            BY <3>1, <3>5 DEF Free
        <3>6. CASE Shut
            BY <3>6 DEF Shut, Idle
        <3>7. QED
            BY <1>6, <3>2, <3>3, <3>4, <3>5, <3>6
    <2>2. QED
        BY <1>1, <2>1, KeyFrame
<1>7. CASE ReceiveAgain
    <2> DEFINE c == sock[worker.slot]
    <2>1. worker'.pc # "extract" /\ UNCHANGED <<accepted, acceptor, slotOf, sock>>
        BY <1>0, <1>7 DEF ReceiveAgain, Idle
    <2>2. pending' \in {pending, [pending EXCEPT ![c] = @ + 1]}
        BY <1>7 DEF ReceiveAgain
    <2>3. c \in Client => slotOf[c] \in Slot
        BY <1>0 DEF KeyInv
    <2> HIDE DEF c
    <2>4. \A d \in Client : d # c => pending'[d] = pending[d]
        BY <1>0, <2>2
    <2>5. QED
        BY <1>1, <2>1, <2>3, <2>4, KeyFrame
<1>8. CASE Forward \/ Serving \/ Reading \/ UNCHANGED vars
    <2>1. UNCHANGED <<accepted, acceptor, slotOf, sock, pending, worker>>
        BY <1>8 DEF Forward, Serving, Open, Close, Handle, Refuse, Reading, Learn, CutOff,
                    ShutCutOff, vars
    <2>2. QED
        BY <1>1, <2>1, KeyFrame
<1>9. QED
    BY <1>2, <1>3, <1>4, <1>5, <1>6, <1>7, <1>8 DEF Next, Working
-----------------------------------------------------------------------------
(* Openings on their way to the server, answers on their way back.         *)

\* AcceptThread only goes on: what is announced stays announced, with its key.
LEMMA AnnouncedStays ==
    ASSUME TypeOK, KeyInv, [Next]_vars
    PROVE  Announced \subseteq Announced' /\ \A c \in Announced : slotOf'[c] = slotOf[c]
<1> USE DEF slotVars, clientVars, threadVars, gateVars, serverVars, history
<1>a. accepted \in 0 .. MaxClients /\ slotOf \in [Client -> Slot \cup {NoKey}]
    BY DEF TypeOK
<1>0. accepted \in Nat /\ (\A c \in Client : c \in Nat)
      /\ slotOf \in [Client -> Slot \cup {NoKey}]
    BY <1>a DEF Client
<1>1. CASE Accept
    <2>1. accepted' = accepted + 1 /\ acceptor = "accept"
        BY <1>1 DEF Accept
    <2>2. \A c \in Announced : c \in Client /\ c <= accepted
        BY <1>0 DEF Announced
    <2>3. \A c \in Client : c <= accepted => slotOf'[c] = slotOf[c]
        <3>1. CASE used = Slot
            BY <1>1, <3>1 DEF Accept
        <3>2. CASE used # Slot
            <4> DEFINE s == CHOOSE s \in Slot \ used : \A t \in Slot \ used : s <= t
            <4>1. slotOf' = [slotOf EXCEPT ![accepted'] = s]
                BY <1>1, <3>2 DEF Accept
            <4> HIDE DEF s
            <4>2. QED
                BY <1>0, <2>1, <4>1
        <3>3. QED
            BY <3>1, <3>2
    <2>4. \A c \in Announced : c \in Announced'
        BY <1>0, <2>1, <2>2 DEF Announced
    <2>5. QED
        BY <2>2, <2>3, <2>4
<1>2. CASE SetUp \/ Arm \/ Announce
    <2>1. UNCHANGED <<accepted, slotOf>> /\ acceptor # "accept"
        BY <1>2 DEF SetUp, Arm, Announce
    <2>2. QED
        BY <2>1 DEF Announced
<1>3. CASE (\E c \in Client : HangUp(c)) \/ Working \/ Forward \/ Serving \/ Reading \/ UNCHANGED vars
    <2>1. UNCHANGED <<accepted, slotOf, acceptor>>
        BY <1>3 DEF HangUp, Working, Disconnected, Received, Push, Reject, ShutRejected, ReceiveAgain,
                    Free, Shut, Forward, Serving, Open, Close, Handle, Refuse, Reading, Learn,
                    CutOff, ShutCutOff, vars
    <2>2. QED
        BY <2>1 DEF Announced
<1>4. QED
    BY <1>1, <1>2, <1>3 DEF Next, Accepting

\* A step takes the first p messages off the stream to the server, or the first
\* q off the stream to the gate, and adds none that OrderInv is about.
ServerKept(p) ==
    /\ Len(toServer) \in Nat /\ Len(toServer') \in Nat
    /\ \A i \in 1 .. Len(toServer') :
          \/ i + p \in 1 .. Len(toServer) /\ toServer'[i] = toServer[i + p]
          \/ toServer'[i].type # "open"
             /\ (toServer'[i].type # "close" => toServer'[i].from \in Client)

GateKept(q) ==
    /\ Len(toGate) \in Nat /\ Len(toGate') \in Nat
    /\ \A i \in 1 .. Len(toGate') :
          \/ i + q \in 1 .. Len(toGate) /\ toGate'[i] = toGate[i + q]
          \/ toGate'[i].type # "index"

\* Such a step keeps OrderInv.
LEMMA OrderFrame ==
    ASSUME OrderInv, Announced \subseteq Announced',
           \A c \in Announced : slotOf'[c] = slotOf[c], told' = told, given' = given,
           NEW p \in Nat, NEW q \in Nat, ServerKept(p), GateKept(q)
    PROVE  OrderInv'
<1> USE DEF ServerKept, GateKept
<1>1. (told \subseteq Announced)'
    BY DEF OrderInv
<1>2. \A i \in 1 .. Len(toServer') : toServer'[i].type # "close" => toServer'[i].from \in Client
    BY DEF OrderInv
<1>3. ASSUME NEW i \in 1 .. Len(toServer'), toServer'[i].type = "open"
      PROVE  i + p \in 1 .. Len(toServer) /\ toServer'[i] = toServer[i + p]
    BY <1>3
<1>4. ASSUME NEW i \in 1 .. Len(toGate'), toGate'[i].type = "index"
      PROVE  i + q \in 1 .. Len(toGate) /\ toGate'[i] = toGate[i + q]
    BY <1>4
<1>5. \A i \in 1 .. Len(toServer') : toServer'[i].type = "open" => Waits(toServer[i])'
    <2>1. SUFFICES ASSUME NEW i \in 1 .. Len(toServer'), toServer'[i].type = "open"
                   PROVE  Waits(toServer[i])'
        OBVIOUS
    <2>2. Waits(toServer[i + p]) /\ toServer'[i] = toServer[i + p]
        BY <1>3, <2>1 DEF OrderInv
    <2>3. QED
        BY <2>2 DEF Waits
<1>6. \A i, j \in 1 .. Len(toServer') :
        i < j /\ toServer'[i].type = "open" /\ toServer'[j].type = "open" =>
            toServer'[i].from < toServer'[j].from
    <2>1. SUFFICES ASSUME NEW i \in 1 .. Len(toServer'), NEW j \in 1 .. Len(toServer'), i < j,
                          toServer'[i].type = "open", toServer'[j].type = "open"
                   PROVE  toServer'[i].from < toServer'[j].from
        OBVIOUS
    <2>2. /\ i + p \in 1 .. Len(toServer) /\ toServer'[i] = toServer[i + p]
          /\ j + p \in 1 .. Len(toServer) /\ toServer'[j] = toServer[j + p]
          /\ i + p < j + p
        BY <2>1
    <2>3. QED
        BY <2>1, <2>2 DEF OrderInv
<1>7. \A i \in 1 .. Len(toGate') : toGate'[i].type = "index" =>
        Waits(toGate[i])' /\ given'[toGate'[i].from] = toGate'[i].index
    <2>1. SUFFICES ASSUME NEW i \in 1 .. Len(toGate'), toGate'[i].type = "index"
                   PROVE  Waits(toGate[i])' /\ given'[toGate'[i].from] = toGate'[i].index
        OBVIOUS
    <2>2. /\ Waits(toGate[i + q]) /\ toGate'[i] = toGate[i + q]
          /\ given[toGate[i + q].from] = toGate[i + q].index
        BY <1>4, <2>1 DEF OrderInv
    <2>3. QED
        BY <2>2 DEF Waits
<1>8. \A i, j \in 1 .. Len(toGate') :
        i < j /\ toGate'[i].type = "index" /\ toGate'[j].type = "index" =>
            toGate'[i].from < toGate'[j].from
    <2>1. SUFFICES ASSUME NEW i \in 1 .. Len(toGate'), NEW j \in 1 .. Len(toGate'), i < j,
                          toGate'[i].type = "index", toGate'[j].type = "index"
                   PROVE  toGate'[i].from < toGate'[j].from
        OBVIOUS
    <2>2. /\ i + q \in 1 .. Len(toGate) /\ toGate'[i] = toGate[i + q]
          /\ j + q \in 1 .. Len(toGate) /\ toGate'[j] = toGate[j + q]
          /\ i + q < j + q
        BY <2>1
    <2>3. QED
        BY <2>1, <2>2 DEF OrderInv
<1>9. \A i \in 1 .. Len(toGate'), j \in 1 .. Len(toServer') :
        toGate'[i].type = "index" /\ toServer'[j].type = "open" =>
            toGate'[i].from < toServer'[j].from
    <2>1. SUFFICES ASSUME NEW i \in 1 .. Len(toGate'), NEW j \in 1 .. Len(toServer'),
                          toGate'[i].type = "index", toServer'[j].type = "open"
                   PROVE  toGate'[i].from < toServer'[j].from
        OBVIOUS
    <2>2. /\ i + q \in 1 .. Len(toGate) /\ toGate'[i] = toGate[i + q]
          /\ j + p \in 1 .. Len(toServer) /\ toServer'[j] = toServer[j + p]
        BY <2>1
    <2>3. QED
        BY <2>1, <2>2 DEF OrderInv
<1>10. QED
    BY <1>1, <1>2, <1>5, <1>6, <1>7, <1>8, <1>9 DEF OrderInv

\* GM_OPEN goes out behind those of all clients accepted before.
LEMMA OrderAnnounce == TypeOK /\ KeyInv /\ OrderInv /\ Announce => OrderInv'
<1> SUFFICES ASSUME TypeOK, KeyInv, OrderInv, Announce PROVE OrderInv'
    OBVIOUS
<1> USE DEF slotVars, clientVars, threadVars, gateVars, serverVars, history
<1> DEFINE m == [type |-> "open", slot |-> slotOf[accepted], from |-> accepted, index |-> 0]
           n == Len(toServer)
<1>a. toServer \in Seq(Message) /\ toGate \in Seq(Answer) /\ accepted \in 0 .. MaxClients
    BY DEF TypeOK
<1>1. toServer \in Seq(Message) /\ toGate \in Seq(Answer) /\ accepted \in Nat
      /\ \A c \in Client : c \in Nat
    BY <1>a DEF Client
<1>2. accepted \in Client /\ slotOf[accepted] \in Slot
    BY DEF Announce, KeyInv
<1>3. m \in Message
    BY <1>2, ZeroIndex DEF Message
<1>4. toServer' = Append(toServer, m)
    BY DEF Announce, SendSocketMsgS
<1>5. /\ n \in Nat /\ Len(toServer') = n + 1
      /\ \A i \in 1 .. n : toServer'[i] = toServer[i]
      /\ toServer'[n + 1] = m
    BY <1>1, <1>3, <1>4, SendLast
<1>6. UNCHANGED <<toGate, told, given, slotOf, accepted>> /\ acceptor = "open" /\ acceptor' = "accept"
    BY DEF Announce
<1>7. Announced' = Announced \cup {accepted} /\ \A c \in Announced : c < accepted
    BY <1>1, <1>2, <1>6 DEF Announced
<1>8. m.type = "open" /\ m.from = accepted /\ m.slot = slotOf[accepted]
    OBVIOUS
<1> HIDE DEF m, n
<1>9. ASSUME NEW i \in 1 .. n + 1, i # n + 1 PROVE i \in 1 .. n
    BY <1>5, <1>9
<1>10. (told \subseteq Announced)'
    BY <1>6, <1>7 DEF OrderInv
<1>11. \A i \in 1 .. n + 1 : toServer'[i].type # "close" => toServer'[i].from \in Client
    BY <1>2, <1>5, <1>8, <1>9 DEF OrderInv, n
<1>12. \A i \in 1 .. n + 1 : toServer'[i].type = "open" => Waits(toServer[i])'
    <2>1. SUFFICES ASSUME NEW i \in 1 .. n + 1, toServer'[i].type = "open" PROVE Waits(toServer[i])'
        OBVIOUS
    <2>2. CASE i = n + 1
        <3>1. \A c \in told : c < accepted
            BY <1>7 DEF OrderInv
        <3>2. QED
            BY <1>5, <1>6, <1>7, <1>8, <2>2, <3>1 DEF Waits
    <2>3. CASE i # n + 1
        <3>1. toServer'[i] = toServer[i] /\ Waits(toServer[i])
            BY <1>5, <1>9, <2>1, <2>3 DEF OrderInv, n
        <3>2. QED
            BY <1>6, <1>7, <3>1 DEF Waits
    <2>4. QED
        BY <2>2, <2>3
<1>13. \A i \in 1 .. n : toServer[i].type = "open" => toServer[i].from < accepted
    BY <1>7 DEF OrderInv, Waits, n
<1>14. \A i, j \in 1 .. n + 1 :
        i < j /\ toServer'[i].type = "open" /\ toServer'[j].type = "open" =>
            toServer'[i].from < toServer'[j].from
    <2>1. SUFFICES ASSUME NEW i \in 1 .. n + 1, NEW j \in 1 .. n + 1, i < j,
                          toServer'[i].type = "open", toServer'[j].type = "open"
                   PROVE  toServer'[i].from < toServer'[j].from
        OBVIOUS
    <2>2. i \in 1 .. n
        BY <1>5, <2>1
    <2>3. CASE j = n + 1
        BY <1>5, <1>8, <1>13, <2>1, <2>2, <2>3
    <2>4. CASE j # n + 1
        BY <1>5, <1>9, <2>1, <2>2, <2>4 DEF OrderInv, n
    <2>5. QED
        BY <2>3, <2>4
<1>15. \A i \in 1 .. Len(toGate') : toGate'[i].type = "index" =>
        Waits(toGate[i])' /\ given'[toGate'[i].from] = toGate'[i].index
    BY <1>6, <1>7 DEF OrderInv, Waits
<1>16. \A i, j \in 1 .. Len(toGate') :
        i < j /\ toGate'[i].type = "index" /\ toGate'[j].type = "index" =>
            toGate'[i].from < toGate'[j].from
    BY <1>6 DEF OrderInv
<1>17. \A i \in 1 .. Len(toGate'), j \in 1 .. n + 1 :
        toGate'[i].type = "index" /\ toServer'[j].type = "open" =>
            toGate'[i].from < toServer'[j].from
    <2>1. SUFFICES ASSUME NEW i \in 1 .. Len(toGate), NEW j \in 1 .. n + 1,
                          toGate[i].type = "index", toServer'[j].type = "open"
                   PROVE  toGate[i].from < toServer'[j].from
        BY <1>6
    <2>2. CASE j = n + 1
        <3>1. toGate[i].from \in Announced
            BY <2>1 DEF OrderInv, Waits
        <3>2. QED
            BY <1>5, <1>7, <1>8, <2>2, <3>1
    <2>3. CASE j # n + 1
        BY <1>5, <1>9, <2>1, <2>3 DEF OrderInv, n
    <2>4. QED
        BY <2>2, <2>3
<1>18. QED
    BY <1>5, <1>10, <1>11, <1>12, <1>14, <1>15, <1>16, <1>17 DEF OrderInv

\* OpenNewUser answers the first opening: later than all answers under way.
LEMMA OrderOpen == TypeOK /\ OrderInv /\ Open => OrderInv'
<1> SUFFICES ASSUME TypeOK, OrderInv, Open PROVE OrderInv'
    OBVIOUS
<1> USE DEF slotVars, clientVars, threadVars, gateVars, serverVars, history
<1> DEFINE m == toServer[1]
           u == GetFreeKey({v \in User : users[v] = NoClient}, UserCount, cursor)
           a == [type |-> "index", slot |-> m.slot, from |-> m.from, index |-> u]
           n == Len(toServer)
           g == Len(toGate)
<1>a. toServer \in Seq(Message) /\ toGate \in Seq(Answer) /\ given \in [Client -> User \cup {NoKey}]
    BY DEF TypeOK
<1>1. toServer # <<>> /\ toServer' = Tail(toServer) /\ UNCHANGED <<told, slotOf, accepted, acceptor>>
    BY DEF Open
<1>2. /\ n \in Nat /\ n >= 1 /\ Head(toServer) = m /\ m \in Message
      /\ toServer' \in Seq(Message) /\ Len(toServer') = n - 1
      /\ \A i \in 1 .. n - 1 : i + 1 \in 1 .. n /\ toServer'[i] = toServer[i + 1]
    BY <1>a, <1>1, HandleFirst
<1>3. m.type = "open"
    BY <1>2 DEF Open
<1>4. Announced' = Announced
    BY <1>1 DEF Announced
<1>5. 1 \in 1 .. n
    BY <1>2
<1>6. Waits(m) /\ m.from \in Client
    BY <1>3, <1>5 DEF OrderInv
<1>7. g \in Nat
    BY <1>a, LenProperties
<1>8. CASE u \notin User
    <2>1. UNCHANGED <<toGate, given>>
        BY <1>2, <1>8 DEF Open
    <2> HIDE DEF u, a, m
    <2>2. ServerKept(1)
        BY <1>2 DEF ServerKept
    <2>3. GateKept(0)
        BY <1>7, <2>1 DEF GateKept
    <2>4. QED
        BY <1>1, <1>4, <2>1, <2>2, <2>3, OrderFrame
<1>9. CASE u \in User
    <2>1. a \in Answer
        BY <1>2, <1>6, <1>9 DEF Answer, Message
    <2>2. toGate' = Append(toGate, a) /\ given' = [given EXCEPT ![m.from] = u]
        BY <1>2, <1>9 DEF Open, Answered
    <2>3. /\ Len(toGate') = g + 1 /\ toGate'[g + 1] = a
          /\ \A i \in 1 .. g : toGate'[i] = toGate[i]
        BY <1>a, <2>1, <2>2, SendLast
    <2>4. a.type = "index" /\ a.from = m.from /\ a.slot = m.slot /\ a.index = u
        OBVIOUS
    <2> HIDE DEF u, a, m
    <2>5. given'[m.from] = u /\ \A c \in Client : c # m.from => given'[c] = given[c]
        BY <1>a, <1>6, <2>2
    <2> HIDE DEF n, g
    <2>6. \A i \in 1 .. g : toGate[i].type = "index" => toGate[i].from < m.from
        BY <1>3, <1>5 DEF OrderInv, m, n, g
    <2>7. \A j \in 2 .. n : toServer[j].type = "open" => m.from < toServer[j].from
        <3>1. SUFFICES ASSUME NEW j \in 2 .. n, toServer[j].type = "open"
                       PROVE  m.from < toServer[j].from
            OBVIOUS
        <3>2. j \in 1 .. n /\ 1 < j
            BY <1>2
        <3>3. QED
            BY <1>3, <1>5, <3>1, <3>2 DEF OrderInv, m, n
    <2>8. \A c \in Announced : c \in Client /\ c \in Nat
        BY DEF Announced, Client
    <2>9. \A i \in 1 .. n - 1 : i + 1 \in 2 .. n
        BY <1>2
    <2>10. (told \subseteq Announced)'
        BY <1>1, <1>4 DEF OrderInv
    <2>11. \A i \in 1 .. Len(toServer') : toServer'[i].type # "close" => toServer'[i].from \in Client
        BY <1>2 DEF OrderInv, n
    <2>12. \A i \in 1 .. Len(toServer') : toServer'[i].type = "open" => Waits(toServer[i])'
        <3>1. SUFFICES ASSUME NEW i \in 1 .. n - 1, toServer'[i].type = "open"
                       PROVE  Waits(toServer[i])'
            BY <1>2
        <3>2. toServer'[i] = toServer[i + 1] /\ Waits(toServer[i + 1])
            BY <1>2, <3>1 DEF OrderInv, n
        <3>3. QED
            BY <1>1, <1>4, <3>2 DEF Waits
    <2>13. \A i, j \in 1 .. Len(toServer') :
        i < j /\ toServer'[i].type = "open" /\ toServer'[j].type = "open" =>
            toServer'[i].from < toServer'[j].from
        <3>1. SUFFICES ASSUME NEW i \in 1 .. n - 1, NEW j \in 1 .. n - 1, i < j,
                              toServer'[i].type = "open", toServer'[j].type = "open"
                       PROVE  toServer'[i].from < toServer'[j].from
            BY <1>2
        <3>2. /\ i + 1 \in 1 .. n /\ j + 1 \in 1 .. n /\ i + 1 < j + 1
              /\ toServer'[i] = toServer[i + 1] /\ toServer'[j] = toServer[j + 1]
            BY <1>2, <3>1
        <3>3. QED
            BY <3>1, <3>2 DEF OrderInv, n
    <2>14. \A i \in 1 .. Len(toGate') : toGate'[i].type = "index" =>
              Waits(toGate[i])' /\ given'[toGate'[i].from] = toGate'[i].index
        <3>1. SUFFICES ASSUME NEW i \in 1 .. g + 1, toGate'[i].type = "index"
                       PROVE  Waits(toGate[i])' /\ given'[toGate'[i].from] = toGate'[i].index
            BY <2>3
        <3>2. CASE i = g + 1
            BY <1>1, <1>4, <1>6, <2>3, <2>4, <2>5, <3>2 DEF Waits
        <3>3. CASE i # g + 1
            <4>1. i \in 1 .. g /\ toGate'[i] = toGate[i]
                BY <1>7, <2>3, <3>3 DEF g
            <4>2. /\ Waits(toGate[i]) /\ given[toGate[i].from] = toGate[i].index
                  /\ toGate[i].from < m.from
                BY <2>6, <3>1, <4>1 DEF OrderInv, g
            <4>3. toGate[i].from \in Client /\ toGate[i].from # m.from
                BY <1>6, <2>8, <4>2 DEF Waits
            <4>4. QED
                BY <1>1, <1>4, <2>5, <4>1, <4>2, <4>3 DEF Waits
        <3>4. QED
            BY <3>2, <3>3
    <2>15. \A i, j \in 1 .. Len(toGate') :
        i < j /\ toGate'[i].type = "index" /\ toGate'[j].type = "index" =>
            toGate'[i].from < toGate'[j].from
        <3>1. SUFFICES ASSUME NEW i \in 1 .. g + 1, NEW j \in 1 .. g + 1, i < j,
                              toGate'[i].type = "index", toGate'[j].type = "index"
                       PROVE  toGate'[i].from < toGate'[j].from
            BY <2>3
        <3>2. i \in 1 .. g /\ toGate'[i] = toGate[i]
            BY <1>7, <2>3, <3>1 DEF g
        <3>3. CASE j = g + 1
            BY <2>3, <2>4, <2>6, <3>1, <3>2, <3>3
        <3>4. CASE j # g + 1
            <4>1. j \in 1 .. g /\ toGate'[j] = toGate[j]
                BY <1>7, <2>3, <3>4 DEF g
            <4>2. QED
                BY <3>1, <3>2, <4>1 DEF OrderInv, g
        <3>5. QED
            BY <3>3, <3>4
    <2>16. \A i \in 1 .. Len(toGate'), j \in 1 .. Len(toServer') :
        toGate'[i].type = "index" /\ toServer'[j].type = "open" =>
            toGate'[i].from < toServer'[j].from
        <3>1. SUFFICES ASSUME NEW i \in 1 .. g + 1, NEW j \in 1 .. n - 1,
                              toGate'[i].type = "index", toServer'[j].type = "open"
                       PROVE  toGate'[i].from < toServer'[j].from
            BY <1>2, <2>3
        <3>2. j + 1 \in 2 .. n /\ j + 1 \in 1 .. n /\ toServer'[j] = toServer[j + 1]
            BY <1>2, <2>9, <3>1
        <3>3. CASE i = g + 1
            BY <2>3, <2>4, <2>7, <3>1, <3>2, <3>3
        <3>4. CASE i # g + 1
            <4>1. i \in 1 .. g /\ toGate'[i] = toGate[i]
                BY <1>7, <2>3, <3>4 DEF g
            <4>2. QED
                BY <3>1, <3>2, <4>1 DEF OrderInv, g, n
        <3>5. QED
            BY <3>3, <3>4
    <2>17. QED
        BY <2>10, <2>11, <2>12, <2>13, <2>14, <2>15, <2>16 DEF OrderInv
<1>10. QED
    BY <1>8, <1>9

\* The first answer under way is that of the client that is told next.
LEMMA OrderLearn == TypeOK /\ OrderInv /\ Learn => OrderInv'
<1> SUFFICES ASSUME TypeOK, OrderInv, Learn PROVE OrderInv'
    OBVIOUS
<1> USE DEF slotVars, clientVars, threadVars, gateVars, serverVars, history
<1> DEFINE m == toGate[1]
           g == Len(toGate)
<1>1. toGate \in Seq(Answer) /\ toGate # <<>> /\ toGate' = Tail(toGate)
      /\ UNCHANGED <<toServer, slotOf, accepted, acceptor, given>>
    BY DEF Learn, TypeOK
<1>2. /\ g \in Nat /\ g >= 1 /\ Head(toGate) = m
      /\ Len(toGate') = g - 1
      /\ \A i \in 1 .. g - 1 : i + 1 \in 1 .. g /\ toGate'[i] = toGate[i + 1]
    BY <1>1, HandleFirst
<1>3. m.type = "index" /\ told' = told \cup {m.from}
    BY <1>2 DEF Learn
<1>4. 1 \in 1 .. g /\ \A i \in 1 .. g - 1 : 1 < i + 1
    BY <1>2
<1> HIDE DEF m, g
<1>5. Announced' = Announced /\ Waits(m)
    BY <1>1, <1>3, <1>4 DEF Announced, OrderInv, m, g
<1>6. \A i \in 1 .. g - 1 : toGate[i + 1].type = "index" => m.from < toGate[i + 1].from
    BY <1>2, <1>3, <1>4 DEF OrderInv, m, g
<1>7. \A i \in 1 .. Len(toServer) : toServer[i].type = "open" => m.from < toServer[i].from
    BY <1>3, <1>4 DEF OrderInv, m, g
<1>8. (told \subseteq Announced)'
    BY <1>3, <1>5 DEF OrderInv, Waits
<1>9. \A i \in 1 .. Len(toServer') : toServer'[i].type # "close" => toServer'[i].from \in Client
    BY <1>1 DEF OrderInv
<1>10. \A i \in 1 .. Len(toServer') : toServer'[i].type = "open" => Waits(toServer[i])'
    <2>1. SUFFICES ASSUME NEW i \in 1 .. Len(toServer), toServer[i].type = "open"
                   PROVE  Waits(toServer[i])'
        BY <1>1
    <2>2. Waits(toServer[i]) /\ m.from < toServer[i].from
        BY <1>7, <2>1 DEF OrderInv
    <2>3. QED
        BY <1>1, <1>3, <1>5, <2>2 DEF Waits
<1>11. \A i, j \in 1 .. Len(toServer') :
        i < j /\ toServer'[i].type = "open" /\ toServer'[j].type = "open" =>
            toServer'[i].from < toServer'[j].from
    BY <1>1 DEF OrderInv
<1>12. \A i \in 1 .. Len(toGate') : toGate'[i].type = "index" =>
        Waits(toGate[i])' /\ given'[toGate'[i].from] = toGate'[i].index
    <2>1. SUFFICES ASSUME NEW i \in 1 .. g - 1, toGate'[i].type = "index"
                   PROVE  Waits(toGate[i])' /\ given'[toGate'[i].from] = toGate'[i].index
        BY <1>2
    <2>2. /\ toGate'[i] = toGate[i + 1] /\ Waits(toGate[i + 1]) /\ m.from < toGate[i + 1].from
          /\ given[toGate[i + 1].from] = toGate[i + 1].index
        BY <1>2, <1>6, <2>1 DEF OrderInv, g
    <2>3. QED
        BY <1>1, <1>3, <1>5, <2>2 DEF Waits
<1>13. \A i, j \in 1 .. Len(toGate') :
        i < j /\ toGate'[i].type = "index" /\ toGate'[j].type = "index" =>
            toGate'[i].from < toGate'[j].from
    <2>1. SUFFICES ASSUME NEW i \in 1 .. g - 1, NEW j \in 1 .. g - 1, i < j,
                          toGate'[i].type = "index", toGate'[j].type = "index"
                   PROVE  toGate'[i].from < toGate'[j].from
        BY <1>2
    <2>2. /\ i + 1 \in 1 .. g /\ j + 1 \in 1 .. g /\ i + 1 < j + 1
          /\ toGate'[i] = toGate[i + 1] /\ toGate'[j] = toGate[j + 1]
        BY <1>2, <2>1
    <2>3. QED
        BY <2>1, <2>2 DEF OrderInv, g
<1>14. \A i \in 1 .. Len(toGate'), j \in 1 .. Len(toServer') :
        toGate'[i].type = "index" /\ toServer'[j].type = "open" =>
            toGate'[i].from < toServer'[j].from
    <2>1. SUFFICES ASSUME NEW i \in 1 .. g - 1, NEW j \in 1 .. Len(toServer),
                          toGate'[i].type = "index", toServer[j].type = "open"
                   PROVE  toGate'[i].from < toServer[j].from
        BY <1>1, <1>2
    <2>2. i + 1 \in 1 .. g /\ toGate'[i] = toGate[i + 1]
        BY <1>2
    <2>3. QED
        BY <2>1, <2>2 DEF OrderInv, g
<1>15. QED
    BY <1>8, <1>9, <1>10, <1>11, <1>12, <1>13, <1>14 DEF OrderInv

\* What each other step does to the two streams.
LEMMA StreamsKept ==
    ASSUME TypeOK, KeyInv, OrderInv, [Next]_vars, ~Announce, ~Open, ~Learn
    PROVE  /\ ServerKept(0) \/ ServerKept(1)
           /\ GateKept(0) \/ GateKept(1)
           /\ UNCHANGED <<told, given>>
<1> USE DEF slotVars, clientVars, threadVars, gateVars, serverVars, history
<1>0. toServer \in Seq(Message) /\ toGate \in Seq(Answer) /\ queue \in Seq([slot : Slot, from : Client])
      /\ index \in [Slot -> User] /\ slotOf \in [Client -> Slot \cup {NoKey}]
      /\ sock \in [Slot -> Client \cup {NoClient}]
    BY DEF TypeOK
<1>1. Len(toServer) \in Nat /\ Len(toGate) \in Nat
    BY <1>0, LenProperties
<1>2. ASSUME UNCHANGED toServer PROVE ServerKept(0)
    BY <1>1, <1>2 DEF ServerKept
<1>3. ASSUME UNCHANGED toGate PROVE GateKept(0)
    BY <1>1, <1>3 DEF GateKept
<1>4. ASSUME NEW m \in Message, toServer' = Append(toServer, m), m.type # "open",
             m.type # "close" => m.from \in Client
      PROVE  ServerKept(0)
    <2>1. /\ Len(toServer') = Len(toServer) + 1 /\ toServer'[Len(toServer) + 1] = m
          /\ \A i \in 1 .. Len(toServer) : toServer'[i] = toServer[i]
        BY <1>0, <1>4, SendLast
    <2>2. \A i \in 1 .. Len(toServer') : i = Len(toServer) + 1 \/ i \in 1 .. Len(toServer)
        BY <1>1, <2>1
    <2>3. QED
        BY <1>1, <1>4, <2>1, <2>2 DEF ServerKept
<1>5. ASSUME NEW m \in Answer, toGate' = Append(toGate, m), m.type # "index"
      PROVE  GateKept(0)
    <2>1. /\ Len(toGate') = Len(toGate) + 1 /\ toGate'[Len(toGate) + 1] = m
          /\ \A i \in 1 .. Len(toGate) : toGate'[i] = toGate[i]
        BY <1>0, <1>5, SendLast
    <2>2. \A i \in 1 .. Len(toGate') : i = Len(toGate) + 1 \/ i \in 1 .. Len(toGate)
        BY <1>1, <2>1
    <2>3. QED
        BY <1>1, <1>5, <2>1, <2>2 DEF GateKept
<1>6. ASSUME toServer # <<>>, toServer' = Tail(toServer)
      PROVE  ServerKept(1)
    <2>1. /\ Len(toServer') = Len(toServer) - 1 /\ Len(toServer) >= 1
          /\ \A i \in 1 .. Len(toServer) - 1 : i + 1 \in 1 .. Len(toServer) /\ toServer'[i] = toServer[i + 1]
        BY <1>0, <1>6, HandleFirst
    <2>2. QED
        BY <1>1, <2>1 DEF ServerKept
<1>7. ASSUME toGate # <<>>, toGate' = Tail(toGate)
      PROVE  GateKept(1)
    <2>1. /\ Len(toGate') = Len(toGate) - 1 /\ Len(toGate) >= 1
          /\ \A i \in 1 .. Len(toGate) - 1 : i + 1 \in 1 .. Len(toGate) /\ toGate'[i] = toGate[i + 1]
        BY <1>0, <1>7, HandleFirst
    <2>2. QED
        BY <1>1, <2>1 DEF GateKept
<1>8. CASE (\E c \in Client : HangUp(c) \/ Received(c)) \/ Accept \/ SetUp \/ Arm \/ Push \/ Reject
           \/ ShutRejected \/ ReceiveAgain \/ Free \/ Shut \/ ShutCutOff \/ UNCHANGED vars
    <2>1. UNCHANGED <<toServer, toGate, told, given>>
        BY <1>8 DEF HangUp, Received, Accept, SetUp, Arm, Push, Reject, ShutRejected, ReceiveAgain,
                    Free, Shut, ShutCutOff, vars
    <2>2. QED
        BY <1>2, <1>3, <2>1
<1>9. CASE \E c \in Client : Disconnected(c)
    <2>1. PICK c \in Client : Disconnected(c)
        BY <1>9
    <2> DEFINE m == [type |-> "close", slot |-> slotOf[c], from |-> sock[slotOf[c]],
                     index |-> index[slotOf[c]]]
    <2>2. slotOf[c] \in Slot
        BY <2>1 DEF Disconnected, KeyInv
    <2>3. m \in Message
        BY <1>0, <2>2 DEF Message
    <2>4. toServer' = Append(toServer, m) /\ UNCHANGED <<toGate, told, given>>
        BY <2>1 DEF Disconnected, SendSocketMsgS
    <2>5. QED
        BY <1>3, <1>4, <2>3, <2>4
<1>10. CASE Forward
    <2> DEFINE p == Head(queue)
               m == [type |-> "packet", slot |-> p.slot, from |-> p.from, index |-> index[p.slot]]
    <2>1. p \in [slot : Slot, from : Client]
        BY <1>0, <1>10, HandleFirst DEF Forward
    <2>2. m \in Message /\ m.from \in Client /\ m.type = "packet"
        BY <1>0, <2>1 DEF Message
    <2>3. toServer' = Append(toServer, m) /\ UNCHANGED <<toGate, told, given>>
        BY <1>10 DEF Forward, SendSocketMsgS
    <2> HIDE DEF m
    <2>4. QED
        BY <1>3, <1>4, <2>2, <2>3
<1>11. CASE Close \/ Handle
    <2>1. toServer # <<>> /\ toServer' = Tail(toServer) /\ UNCHANGED <<toGate, told, given>>
        BY <1>11 DEF Close, Handle
    <2>2. QED
        BY <1>3, <1>6, <2>1
<1>12. CASE Refuse
    <2> DEFINE m == Head(toServer)
               a == [type |-> "close", slot |-> m.slot, from |-> m.from, index |-> 0]
    <2>1. /\ toServer # <<>> /\ toServer' = Tail(toServer) /\ m.type = "packet"
          /\ toGate' = Append(toGate, a) /\ UNCHANGED <<told, given>>
        BY <1>12 DEF Refuse, Answered
    <2>2. m \in Message /\ m.from \in Client
        BY <1>0, <2>1, HandleFirst DEF OrderInv
    <2>3. a \in Answer
        BY <2>2, ZeroIndex DEF Message, Answer
    <2>4. QED
        BY <1>5, <1>6, <2>1, <2>3
<1>13. CASE CutOff
    <2>1. toGate # <<>> /\ toGate' = Tail(toGate) /\ UNCHANGED <<toServer, told, given>>
        BY <1>13 DEF CutOff
    <2>2. QED
        BY <1>2, <1>7, <2>1
<1>14. QED
    BY <1>8, <1>9, <1>10, <1>11, <1>12, <1>13 DEF Next, Accepting, Working, Serving, Reading

\* Every step keeps the order of the openings and the answers.
LEMMA OrderStep == TypeOK /\ KeyInv /\ OrderInv /\ [Next]_vars => OrderInv'
<1> SUFFICES ASSUME TypeOK, KeyInv, OrderInv, [Next]_vars PROVE OrderInv'
    OBVIOUS
<1>1. CASE Announce \/ Open \/ Learn
    BY <1>1, OrderAnnounce, OrderOpen, OrderLearn
<1>2. CASE ~Announce /\ ~Open /\ ~Learn
    <2>1. /\ ServerKept(0) \/ ServerKept(1)
          /\ GateKept(0) \/ GateKept(1)
          /\ UNCHANGED <<told, given>>
        BY <1>2, StreamsKept
    <2>2. Announced \subseteq Announced' /\ \A c \in Announced : slotOf'[c] = slotOf[c]
        BY AnnouncedStays
    <2>3. 0 \in Nat /\ 1 \in Nat
        OBVIOUS
    <2>4. QED
        BY <2>1, <2>2, <2>3, OrderFrame
<1>3. QED
    BY <1>1, <1>2
-----------------------------------------------------------------------------
(* A client's own index.                                                   *)

\* A slot that changes hands goes to a client that has not been told; the first
\* answer under way is written where its client is, or where a later one waits.
LEMMA IndexStep == IInv /\ [Next]_vars => OwnIndex'
<1> SUFFICES ASSUME IInv, [Next]_vars PROVE OwnIndex'
    OBVIOUS
<1> USE DEF slotVars, clientVars, threadVars, gateVars, serverVars, history
<1>a. TypeOK /\ KeyInv /\ OrderInv /\ OwnIndex
    BY DEF IInv
<1>0. /\ sock \in [Slot -> Client \cup {NoClient}] /\ index \in [Slot -> User]
      /\ given \in [Client -> User \cup {NoKey}] /\ told \in SUBSET Client
      /\ accepted \in 0 .. MaxClients /\ toServer \in Seq(Message) /\ toGate \in Seq(Answer)
    BY <1>a DEF TypeOK
<1>1. accepted \in Nat /\ \A c \in Client : c \in Nat
    BY <1>0 DEF Client
<1>2. CASE SetUp
    <2>1. /\ acceptor = "setup" /\ sock' = [sock EXCEPT ![slotOf[accepted]] = accepted]
          /\ index' = [index EXCEPT ![slotOf[accepted]] = 0] /\ UNCHANGED <<told, given>>
        BY <1>2 DEF SetUp
    <2>2. accepted \notin told
        BY <1>1, <1>a, <2>1 DEF OrderInv, Announced
    <2>3. ASSUME NEW s \in Slot, sock'[s] \in told PROVE s # slotOf[accepted]
        BY <1>0, <2>1, <2>2, <2>3
    <2>4. QED
        BY <1>0, <1>a, <2>1, <2>3 DEF OwnIndex
<1>3. CASE Learn
    <2> DEFINE m == toGate[1]
    <2>1. 1 \in 1 .. Len(toGate) /\ m = Head(toGate) /\ m \in Answer
        BY <1>0, <1>3, HandleFirst DEF Learn
    <2>2. /\ m.type = "index" /\ index' = [index EXCEPT ![m.slot] = m.index]
          /\ told' = told \cup {m.from} /\ UNCHANGED <<sock, given>>
        BY <1>3, <2>1 DEF Learn
    <2>3. /\ m.from \in Announced /\ slotOf[m.from] = m.slot /\ m.slot \in Slot
          /\ given[m.from] = m.index /\ \A c \in told : c < m.from
        BY <1>a, <2>1, <2>2 DEF OrderInv, Waits, Answer
    <2> HIDE DEF m
    <2>4. sock[m.slot] >= m.from
        BY <1>a, <2>3, AnnouncedSettled DEF KeyInv
    <2>5. ASSUME NEW s \in Slot, sock[s] \in told' PROVE index'[s] = given[sock[s]]
        <3>1. sock[s] \in Client /\ sock[s] \in Nat /\ m.from \in Nat
            BY <1>0, <1>1, <2>2, <2>3, <2>5 DEF Announced
        <3>2. CASE s = m.slot
            <4>1. sock[s] = m.from
                BY <2>2, <2>3, <2>4, <2>5, <3>1, <3>2
            <4>2. QED
                BY <1>0, <2>2, <2>3, <3>2, <4>1
        <3>3. CASE s # m.slot
            <4>1. sock[s] # m.from
                BY <1>a, <2>3, <3>1, <3>3 DEF KeyInv
            <4>2. QED
                BY <1>0, <1>a, <2>2, <2>5, <3>3, <4>1 DEF OwnIndex
        <3>4. QED
            BY <3>2, <3>3
    <2>6. QED
        BY <2>2, <2>5 DEF OwnIndex
<1>4. CASE Open
    <2> DEFINE m == toServer[1]
               u == GetFreeKey({v \in User : users[v] = NoClient}, UserCount, cursor)
    <2>1. 1 \in 1 .. Len(toServer) /\ m = Head(toServer) /\ m.type = "open"
        BY <1>0, <1>4, HandleFirst DEF Open
    <2>2. \A c \in told : c # m.from
        BY <1>0, <1>1, <1>a, <2>1 DEF OrderInv, Waits
    <2>3. UNCHANGED <<sock, index, told>> /\ (given' = given \/ given' = [given EXCEPT ![m.from] = u])
        BY <1>4, <2>1 DEF Open
    <2> HIDE DEF m, u
    <2>4. \A c \in told : given'[c] = given[c]
        BY <1>0, <2>2, <2>3
    <2>5. QED
        BY <1>a, <2>3, <2>4 DEF OwnIndex
<1>5. CASE (\E c \in Client : HangUp(c) \/ Disconnected(c) \/ Received(c)) \/ Accept \/ Arm
           \/ Announce \/ Push \/ Reject \/ ShutRejected \/ ReceiveAgain \/ Free \/ Shut \/ Forward
           \/ Close \/ Handle \/ Refuse \/ CutOff \/ ShutCutOff \/ UNCHANGED vars
    <2>1. UNCHANGED <<sock, index, told, given>>
        BY <1>5 DEF HangUp, Disconnected, Received, Accept, Arm, Announce, Push, Reject,
                    ShutRejected, ReceiveAgain, Free, Shut, Forward, Close, Handle, Refuse, CutOff,
                    ShutCutOff, vars
    <2>2. QED
        BY <1>a, <2>1 DEF OwnIndex
<1>6. QED
    BY <1>2, <1>3, <1>4, <1>5 DEF Next, Accepting, Working, Serving, Reading

\* The invariant holds at the start, when no client has come.
LEMMA InitIInv == Init => IInv
<1> SUFFICES ASSUME Init PROVE IInv
    OBVIOUS
<1> USE DEF Init
<1>1. TypeOK
    <2>1. worker \in [pc : {"idle", "extract", "free", "shut", "again", "free again", "shut again"},
                      slot : Slot, client : Client \cup {NoClient}]
        BY ZeroIndex DEF Idle
    <2>2. reader \in [pc : {"idle", "shut"}, slot : Slot]
        BY ZeroIndex
    <2>3. queue \in Seq([slot : Slot, from : Client]) /\ toServer \in Seq(Message) /\ toGate \in Seq(Answer)
        BY EmptySeq
    <2>4. /\ slotOf \in [Client -> Slot \cup {NoKey}] /\ used \in SUBSET Slot
          /\ sock \in [Slot -> Client \cup {NoClient}] /\ index \in [Slot -> User]
          /\ users \in [User -> Client \cup {NoClient}] /\ given \in [Client -> User \cup {NoKey}]
        BY ZeroIndex
    <2>5. accepted \in 0 .. MaxClients /\ received \in 0 .. MaxPackets /\ cursor \in Nat
          /\ pending \in [Client -> Nat]
        OBVIOUS
    <2>6. QED
        BY <2>1, <2>2, <2>3, <2>4, <2>5 DEF TypeOK
<1>2. \A c \in Client : c \in Nat /\ c >= 1
    BY DEF Client
<1>3. Announced = {} /\ Settled = {}
    BY <1>2 DEF Announced, Settled
<1>4. KeyInv
    BY <1>2, <1>3 DEF KeyInv, Idle, NoClient
<1>5. OrderInv
    BY <1>3, EmptySeq DEF OrderInv
<1>6. OwnIndex
    BY DEF OwnIndex
<1>7. QED
    BY <1>1, <1>4, <1>5, <1>6 DEF IInv

\* The gate's slots and the two streams are consistent at all times: keys name
\* the last client that took a slot, and openings and answers come in the order
\* of the accepts.
THEOREM SessionInvariance == Spec => []IInv
<1>1. IInv /\ [Next]_vars => IInv'
    BY TypeStep, KeyStep, OrderStep, IndexStep DEF IInv
<1>2. QED
    BY InitIInv, <1>1, PTL DEF Spec

\* Every slot index, user index and client the four threads and the server pass
\* on is one there is: no completion, queued packet, opening or answer names a
\* slot outside g_UserInfoArray.
THEOREM SessionTypes == Spec => []TypeOK
<1>1. IInv => TypeOK
    BY DEF IInv
<1>2. QED
    BY SessionInvariance, <1>1, PTL

\* Once its answer has come back, the client that last took a slot has its own
\* index there, whatever answers to earlier owners were still under way.
THEOREM OwnIndexHolds == Spec => []OwnIndex
<1>1. IInv => OwnIndex
    BY DEF IInv
<1>2. QED
    BY SessionInvariance, <1>1, PTL
-----------------------------------------------------------------------------
(* One connection for each slot.                                           *)

\* What a step that takes no slot, sets none up and receives nothing again does
\* to the connections.
LEMMA ServedFrame ==
    ASSUME OwnSlot, \A c \in Client : Served(c)' => Served(c),
           slotOf' = slotOf, sock' = sock, used \subseteq used',
           acceptor = "setup" => accepted' = accepted /\ acceptor' = "setup"
    PROVE  OwnSlot'
BY DEF OwnSlot

\* As long as clients only hang up, AcceptThread, the worker and the clients'
\* receives each have connections of their own.
LEMMA HoldStep == IInv /\ HoldInv /\ [Next]_vars => HoldInv'
<1> SUFFICES ASSUME IInv, HoldInv, [Next]_vars, ~forced' PROVE (OnlyHangUps /\ OneAtATime /\ OwnSlot)'
    BY DEF HoldInv
<1> USE DEF slotVars, clientVars, threadVars, gateVars, serverVars, history
<1>a. TypeOK /\ KeyInv /\ OrderInv
    BY DEF IInv
<1>0. /\ accepted \in 0 .. MaxClients /\ slotOf \in [Client -> Slot \cup {NoKey}]
      /\ used \in SUBSET Slot /\ sock \in [Slot -> Client \cup {NoClient}]
      /\ pending \in [Client -> Nat] /\ toGate \in Seq(Answer)
    BY <1>a DEF TypeOK
<1>b. worker \in [pc : {"idle", "extract", "free", "shut", "again", "free again", "shut again"},
                  slot : Slot, client : Client \cup {NoClient}]
    BY <1>a DEF TypeOK
<1>c. /\ worker.slot \in Slot
      /\ \A v : LET w == [worker EXCEPT !.pc = v]
               IN  w.pc = v /\ w.slot = worker.slot /\ w.client = worker.client
    BY <1>b
<1>d. forced \in BOOLEAN
    BY <1>a DEF TypeOK
<1>1. accepted \in Nat /\ \A c \in Client : c \in Nat /\ c >= 1
    BY <1>0 DEF Client
<1>2. ~forced /\ ~Reject /\ ~Refuse
    <2>1. ~Reject /\ ~Refuse
        BY DEF Reject, Refuse
    <2>2. CASE Accepting \/ (\E c \in Client : HangUp(c)) \/ Forward \/ UNCHANGED vars
        <3>1. UNCHANGED forced
            BY <2>2 DEF Accepting, HangUp, Accept, SetUp, Arm, Announce, Forward, vars
        <3>2. QED
            BY <2>1, <3>1, Zenon
    <2>3. CASE Working
        <3>1. UNCHANGED forced
            BY <2>1, <2>3 DEF Working, Disconnected, Received, Push, ShutRejected, ReceiveAgain, Free, Shut
        <3>2. QED
            BY <2>1, <3>1, Zenon
    <2>4. CASE Serving \/ Reading
        <3>1. UNCHANGED forced
            BY <2>1, <2>4 DEF Serving, Reading, Open, Close, Handle, Learn, CutOff, ShutCutOff
        <3>2. QED
            BY <2>1, <3>1, Zenon
    <2>5. QED
        BY <2>1, <2>2, <2>3, <2>4 DEF Next
<1>3. OnlyHangUps /\ OneAtATime /\ OwnSlot
    BY <1>2 DEF HoldInv
<1>4. Len(toGate) \in Nat /\ (toGate # <<>> => toGate[1] = Head(toGate) /\ 1 \in 1 .. Len(toGate))
    BY <1>0, HandleFirst, LenProperties
<1>5. ~ShutRejected /\ ~CutOff /\ ~ShutCutOff
    BY <1>3, <1>4 DEF OnlyHangUps, ShutRejected, CutOff, ShutCutOff
<1>6. \A c \in Client : pending[c] \in {0, 1}
    BY <1>0, <1>3 DEF OneAtATime
<1>7. OnlyHangUps'
    <2>1. reader'.pc = "idle" /\ worker'.pc # "shut again"
        <3>1. CASE Accepting \/ (\E c \in Client : HangUp(c)) \/ Forward \/ Serving \/ Reading \/ UNCHANGED vars
            <4>1. UNCHANGED <<worker, reader>>
                BY <1>5, <3>1 DEF Accepting, HangUp, Accept, SetUp, Arm, Announce, Forward, Serving,
                   Reading, Open, Close, Handle, Refuse, Learn, vars
            <4>2. QED
                BY <1>3, <4>1 DEF OnlyHangUps
        <3>2. CASE \E c \in Client : Disconnected(c) \/ Received(c)
            <4>1. PICK c \in Client : Disconnected(c) \/ Received(c)
                BY <3>2
            <4>2. worker'.pc # "shut again"
                <5>1. CASE Disconnected(c)
                    BY <5>1 DEF Disconnected
                <5>2. CASE Received(c)
                    BY <5>2 DEF Received
                <5>3. QED
                    BY <4>1, <5>1, <5>2
            <4>3. UNCHANGED reader
                BY <4>1 DEF Disconnected, Received
            <4>4. QED
                BY <1>3, <4>2, <4>3 DEF OnlyHangUps
        <3>3. CASE Push \/ ReceiveAgain \/ Free \/ Shut
            <4>1. worker'.pc # "shut again"
                <5>1. CASE Push
                    BY <1>c, <5>1 DEF Push
                <5>2. CASE ReceiveAgain
                    <6>1. worker' = Idle \/ worker' = [worker EXCEPT !.pc = "free"]
                        BY <5>2 DEF ReceiveAgain
                    <6>2. QED
                        <7>1. CASE worker' = Idle
                            BY <7>1 DEF Idle
                        <7>2. CASE worker' = [worker EXCEPT !.pc = "free"]
                            BY <1>c, <7>2
                        <7>3. QED
                            BY <6>1, <7>1, <7>2
                <5>3. CASE Free
                    BY <1>c, <5>3 DEF Free
                <5>4. CASE Shut
                    BY <5>4 DEF Shut, Idle
                <5>5. QED
                    BY <3>3, <5>1, <5>2, <5>3, <5>4
            <4>2. UNCHANGED reader
                BY <3>3 DEF Push, ReceiveAgain, Free, Shut
            <4>3. QED
                BY <1>3, <4>1, <4>2 DEF OnlyHangUps
        <3>4. QED
            BY <1>2, <1>5, <3>1, <3>2, <3>3 DEF Next, Working
    <2>2. CASE UNCHANGED toGate
        BY <1>3, <2>1, <2>2 DEF OnlyHangUps
    <2>3. CASE Learn
        <3>1. toGate # <<>> /\ toGate' = Tail(toGate)
            BY <2>3 DEF Learn
        <3>2. /\ Len(toGate') = Len(toGate) - 1
              /\ \A i \in 1 .. Len(toGate) - 1 : i + 1 \in 1 .. Len(toGate) /\ toGate'[i] = toGate[i + 1]
            BY <1>0, <3>1, HandleFirst
        <3>3. QED
            BY <1>3, <2>1, <3>2 DEF OnlyHangUps
    <2>4. CASE Open /\ toGate' # toGate
        <3> DEFINE m == Head(toServer)
                   u == GetFreeKey({v \in User : users[v] = NoClient}, UserCount, cursor)
                   a == [type |-> "index", slot |-> m.slot, from |-> m.from, index |-> u]
        <3>1. toGate' = Append(toGate, a) /\ toServer # <<>> /\ m.type = "open" /\ u \in User
            BY <2>4 DEF Open, Answered
        <3>2. m \in Message /\ m.from \in Client
            <4>1. toServer \in Seq(Message)
                BY <1>a DEF TypeOK
            <4>2. m \in Message /\ m = toServer[1] /\ 1 \in 1 .. Len(toServer)
                BY <3>1, <4>1, HandleFirst
            <4>3. QED
                BY <1>a, <3>1, <4>2 DEF OrderInv
        <3>3. a \in Answer /\ a.type = "index"
            BY <3>1, <3>2 DEF Message, Answer
        <3> HIDE DEF a
        <3>4. \A i \in 1 .. Len(toGate') : (i \in 1 .. Len(toGate) /\ toGate'[i] = toGate[i]) \/ toGate'[i] = a
            <4>1. /\ Len(toGate') = Len(toGate) + 1 /\ toGate'[Len(toGate) + 1] = a
                  /\ \A i \in 1 .. Len(toGate) : toGate'[i] = toGate[i]
                BY <1>0, <3>1, <3>3, SendLast
            <4>2. QED
                BY <1>4, <4>1
        <3>5. QED
            BY <1>3, <2>1, <3>3, <3>4 DEF OnlyHangUps
    <2>5. QED
        BY <1>2, <1>5, <2>2, <2>3, <2>4 DEF Next, Accepting, Working, Serving, Reading, HangUp,
           Disconnected, Received, Accept, SetUp, Arm, Announce, Push, ReceiveAgain, Free, Shut,
           Forward, Open, Close, Handle, vars
<1>8. CASE Accept
    <2>1. acceptor = "accept" /\ accepted' = accepted + 1 /\ UNCHANGED <<sock, pending, worker>>
        BY <1>8 DEF Accept
    <2>2. CASE used = Slot
        <3>1. UNCHANGED <<slotOf, used, acceptor>>
            BY <1>8, <2>2 DEF Accept
        <3>2. \A c \in Client : (Arriving(c)' <=> Arriving(c)) /\ (AtWork(c)' <=> AtWork(c))
            BY <2>1, <3>1 DEF Arriving, AtWork
        <3>3. OneAtATime'
            BY <1>3, <2>1, <3>1, <3>2 DEF OneAtATime
        <3>4. OwnSlot'
            BY <1>3, <2>1, <3>1, <3>2, ServedFrame DEF Served
        <3>5. QED
            BY <1>7, <3>3, <3>4
    <2>3. CASE used # Slot
        <3> DEFINE n == accepted + 1
                   s == CHOOSE s \in Slot \ used : \A t \in Slot \ used : s <= t
        <3>1. s \in Slot \ used /\ n \in Client
            BY <1>0, <1>1, <1>8, <2>3, FreeSlotFound DEF Accept, Client
        <3>2. slotOf' = [slotOf EXCEPT ![n] = s] /\ used' = used \cup {s} /\ acceptor' = "setup"
            BY <1>8, <2>1, <2>3 DEF Accept
        <3>3. pending[n] = 0 /\ ~AtWork(n) /\ n # accepted
            <4>1. slotOf[n] = NoKey /\ NoKey \notin Slot
                BY <1>1, <1>a, <3>1 DEF KeyInv, Slot, NoKey
            <4>2. pending[n] = 0
                BY <1>a, <1>6, <3>1, <4>1 DEF KeyInv
            <4>3. ~AtWork(n)
                BY <1>3, <1>c, <4>1 DEF OneAtATime, AtWork
            <4>4. QED
                BY <1>1, <4>2, <4>3
        <3> HIDE DEF n, s
        <3>4. /\ slotOf'[n] = s /\ \A c \in Client : c # n => slotOf'[c] = slotOf[c]
            BY <1>0, <3>1, <3>2
        <3>5. \A c \in Client : (Arriving(c)' <=> c = n) /\ ~Arriving(c) /\ (AtWork(c)' <=> AtWork(c))
            BY <2>1, <3>2 DEF Arriving, AtWork, n
        <3>6. OneAtATime'
            BY <1>3, <2>1, <3>3, <3>4, <3>5 DEF OneAtATime, AtWork
        <3>7. \A c \in Client : Served(c)' <=> c = n \/ Served(c)
            BY <2>1, <3>5 DEF Served
        <3>8. \A c \in Client : Served(c) => c # n /\ slotOf[c] \in used /\ sock[slotOf[c]] = c
            BY <1>3, <2>1, <3>3, <3>5 DEF OwnSlot, Served
        <3>9. n = accepted'
            BY <2>1 DEF n
        <3>10. OwnSlot'
            BY <1>3, <2>1, <3>1, <3>2, <3>4, <3>7, <3>8, <3>9 DEF OwnSlot
        <3>11. QED
            BY <1>7, <3>6, <3>10
    <2>4. QED
        BY <2>2, <2>3
<1>9. CASE SetUp
    <2>1. /\ acceptor = "setup" /\ acceptor' = "arm" /\ sock' = [sock EXCEPT ![slotOf[accepted]] = accepted]
          /\ UNCHANGED <<accepted, slotOf, used, pending, worker>>
        BY <1>9 DEF SetUp
    <2>2. accepted \in Client /\ slotOf[accepted] \in Slot /\ Arriving(accepted)
        BY <1>a, <2>1 DEF KeyInv, Arriving
    <2>3. \A c \in Client : (Arriving(c)' <=> Arriving(c)) /\ (AtWork(c)' <=> AtWork(c))
        BY <2>1 DEF Arriving, AtWork
    <2>4. OneAtATime'
        BY <1>3, <2>1, <2>3 DEF OneAtATime
    <2>5. \A c \in Client : Served(c)' <=> Served(c)
        BY <2>1, <2>3 DEF Served
    <2>6. Served(accepted)
        BY <2>2 DEF Served
    <2>7. ASSUME NEW c \in Client, Served(c) PROVE slotOf[c] \in used /\ sock'[slotOf[c]] = c
        <3>1. slotOf[c] \in used /\ slotOf[c] \in Slot
            BY <1>0, <1>3, <2>7 DEF OwnSlot
        <3>2. CASE c = accepted
            BY <1>0, <2>1, <3>1, <3>2
        <3>3. CASE c # accepted
            <4>1. slotOf[c] # slotOf[accepted] /\ sock[slotOf[c]] = c
                BY <1>3, <2>2, <2>6, <2>7, <3>3 DEF OwnSlot
            <4>2. QED
                BY <1>0, <2>1, <3>1, <4>1
        <3>4. QED
            BY <3>2, <3>3
    <2>8. OwnSlot'
        BY <1>3, <2>1, <2>5, <2>7 DEF OwnSlot
    <2>9. QED
        BY <1>7, <2>4, <2>8
<1>10. CASE Arm
    <2>1. acceptor = "arm" /\ acceptor' = "open" /\ UNCHANGED <<accepted, slotOf, used, sock, worker>>
        BY <1>10 DEF Arm
    <2>2. accepted \in Client /\ Arriving(accepted) /\ pending[accepted] = 0 /\ ~AtWork(accepted)
        BY <1>3, <1>a, <2>1 DEF KeyInv, Arriving, OneAtATime
    <2>3. pending' = pending \/ pending' = [pending EXCEPT ![accepted] = 1]
        BY <1>10, <2>2 DEF Arm
    <2>4. \A c \in Client : ~Arriving(c)' /\ (AtWork(c)' <=> AtWork(c))
        BY <2>1 DEF Arriving, AtWork
    <2>5. \A c \in Client : pending'[c] = pending[c] \/ (c = accepted /\ pending'[c] = 1)
        BY <1>0, <2>2, <2>3
    <2>6. OneAtATime'
        BY <1>3, <2>1, <2>2, <2>4, <2>5 DEF OneAtATime
    <2>7. \A c \in Client : Served(c)' => Served(c)
        BY <2>2, <2>4, <2>5 DEF Served
    <2>8. OwnSlot'
        BY <1>3, <2>1, <2>7, ServedFrame
    <2>9. QED
        BY <1>7, <2>6, <2>8
<1>11. CASE \E c \in Client : Disconnected(c) \/ Received(c)
    <2>1. PICK c \in Client : Disconnected(c) \/ Received(c)
        BY <1>11
    <2>2. /\ worker.pc = "idle" /\ pending[c] > 0 /\ pending' = [pending EXCEPT ![c] = @ - 1]
          /\ worker'.pc \in {"free", "extract"} /\ worker'.slot = slotOf[c] /\ worker'.client = c
          /\ UNCHANGED <<accepted, slotOf, used, sock, acceptor>>
        BY <2>1 DEF Disconnected, Received
    <2>3. pending[c] = 1 /\ pending'[c] = 0 /\ \A d \in Client : d # c => pending'[d] = pending[d]
        BY <1>0, <1>6, <2>2
    <2>4. \A d \in Client : (Arriving(d)' <=> Arriving(d)) /\ ~AtWork(d) /\ (AtWork(d)' <=> d = c)
        BY <2>2 DEF Arriving, AtWork
    <2>5. ~Arriving(c)
        BY <1>3, <2>3 DEF OneAtATime
    <2>6. OneAtATime'
        BY <1>3, <2>2, <2>3, <2>4, <2>5 DEF OneAtATime
    <2>7. \A d \in Client : Served(d)' => Served(d)
        BY <2>2, <2>3, <2>4 DEF Served
    <2>8. OwnSlot'
        BY <1>3, <2>2, <2>7, ServedFrame
    <2>9. QED
        BY <1>7, <2>6, <2>8
<1>12. CASE Push
    <2>1. /\ worker.pc = "extract" /\ worker'.pc = "again" /\ worker'.slot = worker.slot
          /\ worker'.client = worker.client
          /\ UNCHANGED <<accepted, slotOf, used, sock, acceptor, pending>>
        BY <1>0, <1>12 DEF Push
    <2>2. \A c \in Client : (Arriving(c)' <=> Arriving(c)) /\ (AtWork(c)' <=> AtWork(c))
        BY <2>1 DEF Arriving, AtWork
    <2>3. OneAtATime'
        BY <1>3, <2>1, <2>2 DEF OneAtATime
    <2>4. OwnSlot'
        BY <1>3, <2>1, <2>2, ServedFrame DEF Served
    <2>5. QED
        BY <1>7, <2>3, <2>4
<1>13. CASE ReceiveAgain
    <2> DEFINE c == worker.client
    <2>1. worker.pc = "again" /\ UNCHANGED <<accepted, slotOf, used, sock, acceptor>>
        BY <1>13 DEF ReceiveAgain
    <2>2. c \in Client /\ slotOf[c] = worker.slot /\ AtWork(c) /\ ~Arriving(c) /\ pending[c] = 0
        BY <1>3, <2>1 DEF OneAtATime, AtWork
    <2>3. sock[worker.slot] = c
        BY <1>3, <2>2 DEF OwnSlot, Served, Arriving
    <2>4. \/ /\ worker'.pc = "free" /\ worker'.slot = worker.slot /\ worker'.client = c
             /\ pending' = pending
          \/ worker'.pc = "idle" /\ pending' = [pending EXCEPT ![c] = @ + 1]
        <3>1. CASE sock[worker.slot] \in shut
            BY <1>13, <1>c, <3>1 DEF ReceiveAgain
        <3>2. CASE sock[worker.slot] \notin shut
            BY <1>13, <2>3, <3>2 DEF ReceiveAgain, Idle
        <3>3. QED
            BY <3>1, <3>2
    <2> HIDE DEF c
    <2>5. \A d \in Client : (Arriving(d)' <=> Arriving(d)) /\ (AtWork(d) <=> d = c)
        BY <2>1, <2>2 DEF Arriving, AtWork, c
    <2>6. \/ /\ worker'.pc = "free" /\ worker'.slot = worker.slot /\ worker'.client = c
             /\ pending' = pending /\ \A d \in Client : AtWork(d)' <=> d = c
          \/ /\ worker'.pc = "idle" /\ pending'[c] = 1
             /\ \A d \in Client : ~AtWork(d)' /\ (d # c => pending'[d] = pending[d])
        BY <1>0, <2>2, <2>4 DEF AtWork
    <2>7. OneAtATime'
        BY <1>3, <2>1, <2>2, <2>5, <2>6 DEF OneAtATime
    <2>8. \A d \in Client : Served(d)' => Served(d)
        BY <2>5, <2>6 DEF Served
    <2>9. OwnSlot'
        BY <1>3, <2>1, <2>8, ServedFrame
    <2>10. QED
        BY <1>7, <2>7, <2>9
<1>14. CASE Free
    <2> DEFINE c == worker.client
    <2>1. /\ worker.pc = "free" /\ worker'.pc = "shut" /\ used' = used \ {worker.slot}
          /\ UNCHANGED <<accepted, slotOf, sock, acceptor, pending>>
        BY <1>0, <1>14 DEF Free, FreeSlot
    <2>2. c \in Client /\ slotOf[c] = worker.slot /\ AtWork(c) /\ ~Arriving(c) /\ pending[c] = 0
        BY <1>3, <2>1 DEF OneAtATime, AtWork
    <2>3. \A d \in Client : (Arriving(d)' <=> Arriving(d)) /\ ~AtWork(d)'
        BY <2>1 DEF Arriving, AtWork
    <2>4. OneAtATime'
        BY <1>3, <2>1, <2>3 DEF OneAtATime
    <2> HIDE DEF c
    <2>5. Served(c)
        BY <2>2 DEF Served
    <2>6. \A d \in Client : Served(d)' => Served(d) /\ d # c
        BY <2>1, <2>2, <2>3 DEF Served
    <2>7. \A d \in Client : Served(d)' => slotOf[d] # worker.slot
        BY <1>3, <2>2, <2>5, <2>6 DEF OwnSlot
    <2>8. OwnSlot'
        BY <1>3, <2>1, <2>6, <2>7 DEF OwnSlot
    <2>9. QED
        BY <1>7, <2>4, <2>8
<1>15. CASE Announce \/ Shut
    <2>1. /\ \/ acceptor \notin {"setup", "arm"} /\ acceptor' \notin {"setup", "arm"}
             \/ UNCHANGED acceptor
          /\ \/ UNCHANGED worker
             \/ worker.pc = "shut" /\ worker'.pc = "idle"
          /\ UNCHANGED <<accepted, slotOf, used, sock, pending>>
        BY <1>15 DEF Announce, Shut, Idle
    <2>2. \A c \in Client : (Arriving(c)' <=> Arriving(c)) /\ (AtWork(c)' <=> AtWork(c))
        BY <2>1 DEF Arriving, AtWork
    <2>3. OneAtATime'
        BY <1>3, <2>1, <2>2 DEF OneAtATime
    <2>4. acceptor = "setup" => acceptor' = "setup"
        BY <2>1
    <2>5. OwnSlot'
        BY <1>3, <2>1, <2>2, <2>4, ServedFrame DEF Served
    <2>6. QED
        BY <1>7, <2>3, <2>5
<1>16. CASE (\E c \in Client : HangUp(c)) \/ Forward \/ Open \/ Close \/ Handle \/ Learn \/ UNCHANGED vars
    <2>1. UNCHANGED <<accepted, acceptor, slotOf, used, sock, pending, worker>>
        BY <1>16 DEF HangUp, Forward, Open, Close, Handle, Learn, vars
    <2>2. \A c \in Client : (Arriving(c)' <=> Arriving(c)) /\ (AtWork(c)' <=> AtWork(c))
        BY <2>1 DEF Arriving, AtWork
    <2>3. OneAtATime'
        BY <1>3, <2>1, <2>2 DEF OneAtATime
    <2>4. OwnSlot'
        BY <1>3, <2>1, <2>2, ServedFrame DEF Served
    <2>5. QED
        BY <1>7, <2>3, <2>4
<1>17. QED
    BY <1>2, <1>5, <1>8, <1>9, <1>10, <1>11, <1>12, <1>13, <1>14, <1>15, <1>16
    DEF Next, Accepting, Working, Serving, Reading

\* Nobody is served at the start.
LEMMA InitHold == Init => HoldInv
BY EmptySeq DEF Init, Idle, NoClient, Client, HoldInv, OnlyHangUps, OneAtATime, OwnSlot, Served,
                Arriving, AtWork

\* As long as clients only hang up, a slot serves one connection: its receive is
\* the only one of that slot, and AcceptThread cannot take the slot under it.
THEOREM OneClientHolds == Spec => []OneClientPerSlot
<1>1. IInv /\ HoldInv => OneClientPerSlot
    <2>1. SUFFICES ASSUME IInv, HoldInv, ~forced PROVE OneClientPerSlot
        BY DEF OneClientPerSlot
    <2>2. pending \in [Client -> Nat]
        BY <2>1 DEF IInv, TypeOK
    <2>3. QED
        BY <2>1, <2>2 DEF HoldInv, OneClientPerSlot, OneAtATime, OwnSlot, Served
<1>2. HoldInv /\ IInv /\ [Next]_vars => HoldInv'
    BY HoldStep
<1>3. QED
    BY InitHold, SessionInvariance, <1>1, <1>2, PTL DEF Spec

=============================================================================
