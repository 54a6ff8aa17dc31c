-------------------------- MODULE GateUplinkProofs --------------------------
(***************************************************************************)
(* The gate's uplink, for every number of clients and elements: no element *)
(* of the pool has two owners, only rejected packets cost one, the packets *)
(* of a client stay in order, and so the gate is a channel in order.       *)
(***************************************************************************)
EXTENDS GateUplink, TableLemmas

USE GateUplinkAssumption

\* Dequeue from a queue without duplicates.
LEMMA TailOnce ==
    ASSUME NEW S, NEW s \in Seq(S), s # <<>>
    PROVE  /\ Head(s) \in S
           /\ Tail(s) \in Seq(S)
           /\ Len(Tail(s)) = Len(s) - 1
           /\ Contains(s, Head(s))
           /\ IsInjective(s) =>
                 /\ IsInjective(Tail(s))
                 /\ \A x : Contains(Tail(s), x) <=> Contains(s, x) /\ x # Head(s)
<1> DEFINE t == Tail(s)
<1>1. /\ t \in Seq(S)
      /\ Len(t) = Len(s) - 1
      /\ Len(s) \in Nat /\ Len(s) >= 1
      /\ DOMAIN s = 1 .. Len(s)
      /\ DOMAIN t = 1 .. Len(s) - 1
      /\ \A j \in 1 .. Len(s) - 1 : t[j] = s[j + 1]
      /\ Head(s) = s[1]
      /\ Head(s) \in S
    BY EmptySeq, HeadTailProperties, LenProperties
<1> HIDE DEF t
<1>2. Contains(s, Head(s))
    BY <1>1 DEF Contains
<1>3. ASSUME IsInjective(s)
      PROVE  IsInjective(t) /\ \A x : Contains(t, x) <=> Contains(s, x) /\ x # Head(s)
    <2>1. \A j, k \in 1 .. Len(s) : s[j] = s[k] => j = k
        BY <1>1, <1>3 DEF IsInjective
    <2>2. IsInjective(t)
        <3>1. SUFFICES ASSUME NEW j \in 1 .. Len(s) - 1, NEW k \in 1 .. Len(s) - 1, t[j] = t[k]
                       PROVE  j = k
            BY <1>1 DEF IsInjective
        <3>2. QED
            BY <1>1, <2>1, <3>1
    <2>3. ASSUME NEW x, Contains(t, x) PROVE Contains(s, x) /\ x # Head(s)
        <3>1. PICK j \in 1 .. Len(s) - 1 : t[j] = x
            BY <1>1, <2>3 DEF Contains
        <3>2. j + 1 \in 1 .. Len(s) /\ s[j + 1] = x /\ j + 1 # 1
            BY <1>1, <3>1
        <3>3. QED
            BY <1>1, <2>1, <3>2 DEF Contains
    <2>4. ASSUME NEW x, Contains(s, x), x # Head(s) PROVE Contains(t, x)
        <3>1. PICK j \in 1 .. Len(s) : s[j] = x
            BY <2>4 DEF Contains
        <3>2. j - 1 \in 1 .. Len(t) /\ t[j - 1] = x
            BY <1>1, <2>4, <3>1
        <3>3. QED
            BY <3>2 DEF Contains
    <2>5. QED
        BY <2>2, <2>3, <2>4
<1>4. QED
    BY <1>1, <1>2, <1>3 DEF t

\* The initial states satisfy the invariant.
LEMMA InitIInv == Init => IInv
<1> SUFFICES ASSUME Init PROVE IInv
    OBVIOUS
<1>1. TypeOK
    BY DEF Init, TypeOK, Idle, Element, Packet, Bad
<1>2. ThreadsInv
    BY DEF Init, ThreadsInv, Idle
<1>3. \A e : ~Contains(queue, e)
    BY DEF Init, Contains
<1>4. OneOwner
    BY <1>3 DEF Init, OneOwner, InHand, Queued, Leaving, Idle, IsInjective
<1>5. OnlyBadLeaks
    BY DEF Init, OnlyBadLeaks
<1>6. QED
    BY <1>1, <1>2, <1>4, <1>5 DEF IInv

\* Appending what a receive has brought leaves the buffers sequences of packets.
LEMMA ReceiveType ==
    ASSUME TypeOK, NEW s \in Session, NEW n \in 1 .. Len(flight[s])
    PROVE  /\ inbuf[s] \o SubSeq(flight[s], 1, n) \in Seq(Packet)
           /\ SubSeq(flight[s], n + 1, Len(flight[s])) \in Seq(Packet)
<1>1. flight[s] \in Seq(Packet) /\ inbuf[s] \in Seq(Packet) /\ Len(flight[s]) \in Nat
    BY LenProperties DEF TypeOK
<1>2. \A i \in 1 .. Len(flight[s]) : flight[s][i] \in Packet
    BY <1>1, ElementOfSeq
<1>3. SubSeq(flight[s], 1, n) \in Seq(Packet)
    BY <1>1, <1>2, SubSeqProperties
<1>4. SubSeq(flight[s], n + 1, Len(flight[s])) \in Seq(Packet)
    BY <1>1, <1>2, SubSeqProperties
<1>5. QED
    BY <1>1, <1>3, <1>4, ConcatProperties

\* Where the worker goes after a packet has a valid record.
LEMMA NextPacketType ==
    ASSUME TypeOK, NEW s \in Session, NEW left, NextPacket(s, left)
    PROVE  worker' \in [pc : {"idle", "look", "extract", "push"},
                        session : Session \cup {NoSession}, element : 0 .. PoolSize]
BY DEF NextPacket, Idle, TypeOK

\* Every step keeps the types of the gate's state.
LEMMA TypeStep == TypeOK /\ ThreadsInv /\ [Next]_vars => TypeOK'
<1> SUFFICES ASSUME TypeOK, ThreadsInv, [Next]_vars PROVE TypeOK'
    OBVIOUS
<1> USE DEF TypeOK
<1>1. ASSUME NEW s \in Session, SendGood(s) PROVE TypeOK'
    <2>1. sent'[s] = sent[s] + 1 /\ sent'[s] \in Packet /\ sent' \in [Session -> 0 .. MaxSent]
        <3>1. sent[s] \in 0 .. MaxSent - 1 /\ sent' = [sent EXCEPT ![s] = sent[s] + 1]
            BY <1>1 DEF SendGood
        <3>2. sent \in [Session -> 0 .. MaxSent] /\ MaxSent \in Nat
            OBVIOUS
        <3> HIDE DEF TypeOK
        <3>3. sent'[s] = sent[s] + 1 /\ sent[s] + 1 \in 0 .. MaxSent
            BY <3>1, <3>2
        <3>4. sent' \in [Session -> 0 .. MaxSent]
            BY <3>1, <3>2, <3>3
        <3>5. QED
            BY <3>1, <3>2, <3>3, <3>4 DEF Packet
    <2>2. Append(flight[s], sent'[s]) \in Seq(Packet)
        BY <2>1, AppendProperties
    <2>3. QED
        BY <1>1, <2>1, <2>2 DEF SendGood, sessionVars, poolVars
<1>2. ASSUME NEW s \in Session, SendBad(s) PROVE TypeOK'
    <2>1. Append(flight[s], Bad) \in Seq(Packet)
        BY AppendProperties DEF Bad, Packet
    <2>2. QED
        BY <1>2, <2>1 DEF SendBad, sessionVars, poolVars
<1>3. ASSUME NEW s \in Session, HangUp(s) PROVE TypeOK'
    <2>1. <<>> \in Seq(Packet)
        OBVIOUS
    <2>2. QED
        BY <1>3, <2>1 DEF HangUp, clientVars, poolVars
<1>4. ASSUME NEW s \in Session, Receive(s) PROVE TypeOK'
    <2>1. PICK n \in 1 .. Len(flight[s]) :
              /\ inbuf' = [inbuf EXCEPT ![s] = @ \o SubSeq(flight[s], 1, n)]
              /\ flight' = [flight EXCEPT ![s] = SubSeq(@, n + 1, Len(@))]
        BY <1>4 DEF Receive
    <2>2. inbuf' \in [Session -> Seq(Packet)] /\ flight' \in [Session -> Seq(Packet)]
        BY <2>1, ReceiveType
    <2>3. worker' \in [pc : {"idle", "look", "extract", "push"},
                       session : Session \cup {NoSession}, element : 0 .. PoolSize]
        BY <1>4, NextPacketType DEF Receive
    <2>4. QED
        BY <1>4, <2>2, <2>3 DEF Receive, poolVars
<1>5. ASSUME Look PROVE TypeOK'
    <2>1. worker.element \in Element /\ worker.element + 1 \in 0 .. PoolSize
        BY <1>5 DEF Look, Element
    <2>2. used' \in SUBSET Element
        BY <1>5, <2>1 DEF Look
    <2>3. worker' \in [pc : {"idle", "look", "extract", "push"},
                       session : Session \cup {NoSession}, element : 0 .. PoolSize]
        BY <1>5, <2>1 DEF Look
    <2>4. QED
        BY <1>5, <2>2, <2>3 DEF Look, clientVars, sessionVars
<1>6. ASSUME NoElement PROVE TypeOK'
    BY <1>6 DEF NoElement, Idle, clientVars, sessionVars, poolVars
<1>7. ASSUME Extract PROVE TypeOK'
    <2>1. worker.session \in Session /\ inbuf[worker.session] # <<>>
        BY <1>7 DEF Extract, ThreadsInv
    <2>2. /\ Head(inbuf[worker.session]) \in Packet
          /\ Tail(inbuf[worker.session]) \in Seq(Packet)
        BY <2>1, HeadTailProperties
    <2>3. QED
        BY <1>7, <2>1, <2>2 DEF Extract, clientVars
<1>8. ASSUME Reject PROVE TypeOK'
    <2>1. <<>> \in Seq(Packet) /\ worker.session \in Session
        BY <1>8 DEF Reject, ThreadsInv
    <2>2. worker' \in [pc : {"idle", "look", "extract", "push"},
                       session : Session \cup {NoSession}, element : 0 .. PoolSize]
        BY <1>8, <2>1, NextPacketType DEF Reject
    <2>3. QED
        BY <1>8, <2>1, <2>2 DEF Reject, clientVars, Bad, Packet
<1>9. ASSUME Push PROVE TypeOK'
    <2>1. worker.session \in Session /\ worker.element \in Element
        BY <1>9 DEF Push, ThreadsInv
    <2>2. queue' \in Seq(Element)
        BY <1>9, <2>1, AppendProperties DEF Push
    <2>3. worker' \in [pc : {"idle", "look", "extract", "push"},
                       session : Session \cup {NoSession}, element : 0 .. PoolSize]
        BY <1>9, <2>1, NextPacketType DEF Push
    <2>4. QED
        BY <1>9, <2>2, <2>3 DEF Push, clientVars, sessionVars, poolVars
<1>10. ASSUME Drain PROVE TypeOK'
    <2>1. Len(queue) \in Nat
        BY LenProperties
    <2>2. QED
        BY <1>10, <2>1 DEF Drain, clientVars, sessionVars, poolVars
<1>11. ASSUME Pop PROVE TypeOK'
    <2>1. Head(queue) \in Element /\ Tail(queue) \in Seq(Element)
        BY <1>11, TailOnce DEF Pop, ThreadsInv
    <2>2. QED
        BY <1>11, <2>1 DEF Pop, clientVars, sessionVars, poolVars
<1>12. ASSUME Deliver PROVE TypeOK'
    <2> DEFINE d == data[sender.element]
    <2>1. d.packet \in Packet
        OBVIOUS
    <2>2. ASSUME d.session \in Session
          PROVE  Append(delivered[d.session], d.packet) \in Seq(Packet)
        BY <2>1, <2>2, AppendProperties
    <2>3. delivered' \in [Session -> Seq(Packet)]
        BY <1>12, <2>2 DEF Deliver
    <2>4. QED
        BY <1>12, <2>3 DEF Deliver, clientVars, sessionVars, poolVars
<1>13. ASSUME Free PROVE TypeOK'
    <2>1. sender.left = Len(queue) + 1 /\ Len(queue) \in Nat
        BY <1>13, LenProperties DEF Free, ThreadsInv
    <2>2. sender.left - 1 \in Nat
        BY <2>1
    <2>3. sender' \in [pc : {"idle", "pop", "send", "free"}, element : Element, left : Nat]
        BY <1>13, <2>2 DEF Free
    <2>4. used' \in SUBSET Element
        BY <1>13 DEF Free
    <2>5. QED
        BY <1>13, <2>3, <2>4 DEF Free, clientVars, sessionVars
<1>14. CASE UNCHANGED vars
    BY <1>14 DEF vars, clientVars, sessionVars, poolVars
<1>15. QED
    BY <1>1, <1>2, <1>3, <1>4, <1>5, <1>6, <1>7, <1>8, <1>9, <1>10, <1>11, <1>12, <1>13,
       <1>14 DEF Next, Work, Forward

\* Every step keeps what the threads rely on between their steps.
LEMMA ThreadsStep == TypeOK /\ ThreadsInv /\ [Next]_vars => ThreadsInv'
<1> SUFFICES ASSUME TypeOK, ThreadsInv, [Next]_vars PROVE ThreadsInv'
    OBVIOUS
<1> USE DEF ThreadsInv
<1>0. \A s \in Session : \A left :
          NextPacket(s, left) =>
              /\ worker'.pc \in {"idle", "look"}
              /\ worker'.pc = "look" => worker'.session = s /\ left # <<>>
    BY DEF NextPacket, Idle
<1>1. ASSUME NEW s \in Session, SendGood(s) PROVE ThreadsInv'
    BY <1>1 DEF SendGood, sessionVars
<1>2. ASSUME NEW s \in Session, SendBad(s) PROVE ThreadsInv'
    BY <1>2 DEF SendBad, sessionVars
<1>3. ASSUME NEW s \in Session, HangUp(s) PROVE ThreadsInv'
    BY <1>3 DEF HangUp
<1>4. ASSUME NEW s \in Session, Receive(s) PROVE ThreadsInv'
    <2>1. queue' = queue /\ sender' = sender
        BY <1>4 DEF Receive
    <2>2. NextPacket(s, inbuf'[s])
        BY <1>4 DEF Receive
    <2>3. QED
        BY <1>0, <2>1, <2>2
<1>5. ASSUME Look PROVE ThreadsInv'
    <2>1. worker'.session = worker.session /\ worker'.pc \in {"look", "extract"}
        BY <1>5 DEF Look, TypeOK
    <2>2. worker'.pc = "extract" => worker'.element = worker.element
        BY <1>5 DEF Look, TypeOK
    <2>3. worker.element \in Element
        BY <1>5 DEF Look, TypeOK, Element
    <2>4. QED
        BY <1>5, <2>1, <2>2, <2>3 DEF Look, sessionVars
<1>6. ASSUME NoElement PROVE ThreadsInv'
    BY <1>6 DEF NoElement, Idle
<1>7. ASSUME Extract PROVE ThreadsInv'
    BY <1>7 DEF Extract, TypeOK
<1>8. ASSUME Reject PROVE ThreadsInv'
    <2>1. worker'.pc = "idle"
        BY <1>8 DEF Reject, NextPacket, Idle
    <2>2. QED
        BY <1>8, <2>1 DEF Reject
<1>9. ASSUME Push PROVE ThreadsInv'
    <2>1. NextPacket(worker.session, inbuf[worker.session]) /\ worker.session \in Session
        BY <1>9 DEF Push
    <2>2. sender'.pc = "idle" /\ inbuf' = inbuf
        BY <1>9 DEF Push, sessionVars
    <2>3. QED
        BY <1>0, <2>1, <2>2
<1>10. ASSUME Drain PROVE ThreadsInv'
    <2>1. sender'.pc = "pop" /\ sender'.left = Len(queue)
        BY <1>10 DEF Drain, TypeOK
    <2>2. Len(queue) \in Nat
        BY LenProperties DEF TypeOK
    <2>3. QED
        BY <1>10, <2>1, <2>2 DEF Drain, sessionVars
<1>11. ASSUME Pop PROVE ThreadsInv'
    <2>1. sender'.pc = "send" /\ sender'.left = sender.left
        BY <1>11 DEF Pop, TypeOK
    <2>2. Len(queue') = Len(queue) - 1 /\ Len(queue) \in Nat
        BY <1>11, TailOnce, LenProperties DEF Pop, TypeOK
    <2>3. QED
        BY <1>11, <2>1, <2>2 DEF Pop, sessionVars
<1>12. ASSUME Deliver PROVE ThreadsInv'
    <2>1. sender'.pc = "free" /\ sender'.left = sender.left
        BY <1>12 DEF Deliver, TypeOK
    <2>2. QED
        BY <1>12, <2>1 DEF Deliver, sessionVars
<1>13. ASSUME Free PROVE ThreadsInv'
    <2>1. /\ sender'.left = sender.left - 1
          /\ sender'.pc = IF sender.left = 1 THEN "idle" ELSE "pop"
        BY <1>13 DEF Free, TypeOK
    <2>2. sender.left = Len(queue) + 1 /\ Len(queue) \in Nat
        BY <1>13, LenProperties DEF Free, TypeOK
    <2>3. sender.left # 1 => queue # <<>>
        BY <2>2, EmptySeq DEF TypeOK
    <2>4. worker' = worker /\ inbuf' = inbuf /\ queue' = queue
        BY <1>13 DEF Free, sessionVars
    <2>5. CASE sender.left = 1
        BY <2>1, <2>4, <2>5
    <2>6. CASE sender.left # 1
        <3>1. sender'.pc = "pop" /\ sender'.left = Len(queue) /\ queue # <<>>
            BY <2>1, <2>2, <2>3, <2>6
        <3>2. QED
            BY <2>4, <3>1
    <2>7. QED
        BY <2>5, <2>6
<1>14. CASE UNCHANGED vars
    BY <1>14 DEF vars, sessionVars
<1>15. QED
    BY <1>1, <1>2, <1>3, <1>4, <1>5, <1>6, <1>7, <1>8, <1>9, <1>10, <1>11, <1>12, <1>13,
       <1>14 DEF Next, Work, Forward

\* Whoever an element is with, it moves on to the next owner or becomes free,
\* and it is handed out only when it is free.
LEMMA OwnersStep == IInv /\ [Next]_vars => OneOwner' /\ OnlyBadLeaks'
<1> SUFFICES ASSUME IInv, [Next]_vars PROVE OneOwner' /\ OnlyBadLeaks'
    OBVIOUS
<1> USE DEF IInv, OneOwner, OnlyBadLeaks, InHand, Queued, Leaving
<1> DEFINE Owned(e) == InHand(e) \/ Queued(e) \/ Leaving(e)
\* A step that touches neither the elements' owners nor their contents.
<1>0. ASSUME /\ \A e \in Element : InHand(e)' <=> InHand(e)
             /\ \A e \in Element : Leaving(e)' <=> Leaving(e)
             /\ queue' = queue /\ used' = used
             /\ \A e \in Element : data'[e].packet = data[e].packet \/ InHand(e)
      PROVE  OneOwner' /\ OnlyBadLeaks'
    BY <1>0 DEF TypeOK
<1>1. ASSUME NEW s \in Session, SendGood(s) \/ SendBad(s) \/ HangUp(s)
      PROVE  OneOwner' /\ OnlyBadLeaks'
    BY <1>0, <1>1 DEF SendGood, SendBad, HangUp, poolVars
<1>2. ASSUME NEW s \in Session, Receive(s) PROVE OneOwner' /\ OnlyBadLeaks'
    BY <1>0, <1>2 DEF Receive, NextPacket, Idle, poolVars
<1>3. ASSUME Look PROVE OneOwner' /\ OnlyBadLeaks'
    <2>1. CASE worker.element \in used
        BY <1>0, <1>3, <2>1 DEF Look, TypeOK
    <2>2. CASE worker.element \notin used
        <3>1. worker.element \in Element
            BY <1>3 DEF Look, TypeOK, Element
        <3>2. /\ used' = used \cup {worker.element}
              /\ \A e : InHand(e)' <=> e = worker.element
              /\ queue' = queue /\ sender' = sender /\ data' = data
            BY <1>3, <2>2 DEF Look, TypeOK
        <3>3. \A e \in used : ~InHand(e)
            BY <1>3 DEF Look
        <3>4. ~Queued(worker.element) /\ ~Leaving(worker.element)
            BY <2>2, <3>1
        <3>5. QED
            BY <3>1, <3>2, <3>3, <3>4
    <2>3. QED
        BY <2>1, <2>2
<1>4. ASSUME NoElement PROVE OneOwner' /\ OnlyBadLeaks'
    BY <1>0, <1>4 DEF NoElement, Idle, poolVars
<1>5. ASSUME Extract PROVE OneOwner' /\ OnlyBadLeaks'
    <2>1. \A e : InHand(e)' <=> InHand(e)
        BY <1>5 DEF Extract, TypeOK
    <2>2. \A e \in Element : data'[e] = data[e] \/ InHand(e)
        BY <1>5 DEF Extract, TypeOK
    <2>3. QED
        BY <1>0, <1>5, <2>1, <2>2 DEF Extract
<1>6. ASSUME Reject PROVE OneOwner' /\ OnlyBadLeaks'
    <2>1. worker' = Idle /\ queue' = queue /\ sender' = sender /\ used' = used
        BY <1>6 DEF Reject, NextPacket
    <2>2. \A e \in Element : IF e = worker.element THEN data'[e].packet = Bad
                             ELSE data'[e] = data[e]
        BY <1>6 DEF Reject, TypeOK
    <2>3. \A e : InHand(e) <=> e = worker.element
        BY <1>6 DEF Reject
    <2>4. QED
        BY <2>1, <2>2, <2>3 DEF Idle, TypeOK
<1>7. ASSUME Push PROVE OneOwner' /\ OnlyBadLeaks'
    <2> DEFINE e0 == worker.element
    <2>1. e0 \in Element /\ InHand(e0) /\ ~Queued(e0)
        BY <1>7 DEF Push, ThreadsInv
    <2>2. /\ IsInjective(queue')
          /\ \A e : Contains(queue', e) <=> Contains(queue, e) \/ e = e0
        BY <1>7, <2>1, AppendOnce DEF Push, TypeOK
    <2>3. worker'.pc \in {"idle", "look"} /\ sender' = sender /\ used' = used /\ data' = data
        BY <1>7 DEF Push, NextPacket, Idle, poolVars
    <2>4. \A e : InHand(e) <=> e = e0
        BY <1>7 DEF Push
    <2>5. \A e : ~Leaving(e)
        BY <1>7 DEF Push
    <2>6. QED
        BY <2>1, <2>2, <2>3, <2>4, <2>5 DEF TypeOK
<1>8. ASSUME Drain PROVE OneOwner' /\ OnlyBadLeaks'
    BY <1>0, <1>8 DEF Drain, poolVars, TypeOK
<1>9. ASSUME Pop PROVE OneOwner' /\ OnlyBadLeaks'
    <2> DEFINE e0 == Head(queue)
    <2>1. /\ IsInjective(queue')
          /\ \A e : Contains(queue', e) <=> Contains(queue, e) /\ e # e0
          /\ Contains(queue, e0)
          /\ e0 \in Element
        BY <1>9, TailOnce DEF Pop, ThreadsInv, TypeOK
    <2>2. \A e : Leaving(e)' <=> e = e0
        BY <1>9 DEF Pop, TypeOK
    <2>3. \A e : ~Leaving(e)
        BY <1>9 DEF Pop
    <2>4. worker' = worker /\ used' = used /\ data' = data
        BY <1>9 DEF Pop, poolVars
    <2>5. QED
        BY <2>1, <2>2, <2>3, <2>4 DEF TypeOK
<1>10. ASSUME Deliver PROVE OneOwner' /\ OnlyBadLeaks'
    BY <1>0, <1>10 DEF Deliver, poolVars, TypeOK
<1>11. ASSUME Free PROVE OneOwner' /\ OnlyBadLeaks'
    <2> DEFINE e0 == sender.element
    <2>1. used' = used \ {e0} /\ worker' = worker /\ queue' = queue /\ data' = data
        BY <1>11 DEF Free
    <2>2. \A e : Leaving(e) <=> e = e0
        BY <1>11 DEF Free
    <2>3. \A e : ~Leaving(e)'
        BY <1>11 DEF Free, TypeOK
    <2>4. e0 \in Element
        BY DEF TypeOK
    <2>5. QED
        BY <2>1, <2>2, <2>3, <2>4 DEF TypeOK
<1>12. CASE UNCHANGED vars
    BY <1>0, <1>12 DEF vars, poolVars
<1>13. QED
    BY <1>1, <1>2, <1>3, <1>4, <1>5, <1>6, <1>7, <1>8, <1>9, <1>10, <1>11, <1>12
    DEF Next, Work, Forward

\* The inductive invariant of the gate's uplink: the types, what the threads
\* rely on, and both properties of the pool, for any number of clients and
\* elements.
THEOREM UplinkInvariance == Spec => []IInv
<1>1. IInv /\ [Next]_vars => IInv'
    BY TypeStep, ThreadsStep, OwnersStep DEF IInv
<1>2. QED
    BY <1>1, InitIInv, PTL DEF Spec

\* The pool of the gate, which has no lock, never hands out an element that is
\* queued or being sent (GetAvailablePosition, GetEmptyElement against
\* SetEmptyElement).
THEOREM OneOwnerHolds == Spec => []OneOwner
<1>1. IInv => OneOwner
    BY DEF IInv
<1>2. QED
    BY <1>1, UplinkInvariance, PTL

\* An element is lost to the pool only with a packet ExtractPacket rejects.
THEOREM OnlyBadLeaksHolds == Spec => []OnlyBadLeaks
<1>1. IInv => OnlyBadLeaks
    BY DEF IInv
<1>2. QED
    BY <1>1, UplinkInvariance, PTL

\* The types of the gate's state.
THEOREM UplinkTypes == Spec => []TypeOK
<1>1. IInv => TypeOK
    BY DEF IInv
<1>2. QED
    BY <1>1, UplinkInvariance, PTL
-----------------------------------------------------------------------------
(* Sequences of packets.                                                   *)

\* u holds what t holds, at the places f gives, and else only bad packets.
Spread(t, u, f) ==
    /\ f \in [1 .. Len(t) -> 1 .. Len(u)]
    /\ \A i, j \in 1 .. Len(t) : i < j => f[i] < f[j]
    /\ \A i \in 1 .. Len(t) : u[f[i]] = t[i]
    /\ \A j \in 1 .. Len(u) : u[j] # Bad => \E i \in 1 .. Len(t) : f[i] = j

\* Bad packets in between change nothing.
LEMMA InOrderSpread ==
    ASSUME NEW t \in Seq(Packet), NEW u \in Seq(Packet), NEW n \in Nat, NEW f, Spread(t, u, f)
    PROVE  InOrder(t, n) <=> InOrder(u, n)
<1>0. /\ Len(t) \in Nat /\ Len(u) \in Nat
      /\ \A i \in 1 .. Len(t) : f[i] \in 1 .. Len(u)
      /\ \A i, j \in 1 .. Len(t) : i < j => f[i] < f[j]
      /\ \A i \in 1 .. Len(t) : u[f[i]] = t[i]
      /\ \A j \in 1 .. Len(u) : u[j] # Bad => \E i \in 1 .. Len(t) : f[i] = j
    BY LenProperties DEF Spread
<1>1. ASSUME InOrder(t, n) PROVE InOrder(u, n)
    <2>1. ASSUME NEW j \in 1 .. Len(u) PROVE u[j] \in 0 .. n
        <3>1. CASE u[j] = Bad
            BY <3>1 DEF Bad
        <3>2. CASE u[j] # Bad
            <4>1. PICK i \in 1 .. Len(t) : f[i] = j
                BY <1>0, <3>2
            <4>2. u[j] = t[i]
                BY <1>0, <4>1
            <4>3. QED
                BY <1>1, <4>2 DEF InOrder
        <3>3. QED
            BY <3>1, <3>2
    <2>2. ASSUME NEW p \in 1 .. n PROVE \E j \in 1 .. Len(u) : u[j] = p
        BY <1>0, <1>1 DEF InOrder
    <2>3. ASSUME NEW i \in 1 .. Len(u), NEW j \in 1 .. Len(u), i < j, u[i] # Bad, u[j] # Bad
          PROVE  u[i] < u[j]
        <3>1. PICK k \in 1 .. Len(t) : f[k] = i
            BY <1>0, <2>3
        <3>2. PICK m \in 1 .. Len(t) : f[m] = j
            BY <1>0, <2>3
        <3>3. k < m
            <4>1. k # m /\ ~(f[m] < f[k])
                BY <1>0, <2>3, <3>1, <3>2
            <4>2. ~(m < k)
                BY <1>0, <2>3, <3>1, <3>2
            <4>3. QED
                BY <1>0, <4>1, <4>2
        <3>4. t[k] = u[i] /\ t[m] = u[j]
            BY <1>0, <3>1, <3>2
        <3>5. QED
            BY <1>0, <1>1, <2>3, <3>3, <3>4 DEF InOrder
    <2>4. QED
        BY <2>1, <2>2, <2>3 DEF InOrder
<1>2. ASSUME InOrder(u, n) PROVE InOrder(t, n)
    <2>1. ASSUME NEW i \in 1 .. Len(t) PROVE t[i] \in 0 .. n
        BY <1>0, <1>2 DEF InOrder
    <2>2. ASSUME NEW p \in 1 .. n PROVE \E i \in 1 .. Len(t) : t[i] = p
        <3>1. PICK j \in 1 .. Len(u) : u[j] = p
            BY <1>2 DEF InOrder
        <3>2. u[j] # Bad
            BY <3>1 DEF Bad
        <3>3. QED
            BY <1>0, <3>1, <3>2
    <2>3. ASSUME NEW i \in 1 .. Len(t), NEW j \in 1 .. Len(t), i < j, t[i] # Bad, t[j] # Bad
          PROVE  t[i] < t[j]
        <3>1. f[i] < f[j] /\ u[f[i]] = t[i] /\ u[f[j]] = t[j]
            BY <1>0, <2>3
        <3>2. QED
            BY <1>0, <1>2, <2>3, <3>1 DEF InOrder
    <2>4. QED
        BY <2>1, <2>2, <2>3 DEF InOrder
<1>3. QED
    BY <1>1, <1>2

\* One bad packet more or less.
LEMMA InOrderSkip ==
    ASSUME NEW a \in Seq(Packet), NEW b \in Seq(Packet), NEW n \in Nat
    PROVE  InOrder(a \o b, n) <=> InOrder(a \o (<<Bad>> \o b), n)
<1> DEFINE t == a \o b
           c == <<Bad>> \o b
           u == a \o c
           k == Len(a)
           l == Len(b)
           f == [i \in 1 .. k + l |-> IF i <= k THEN i ELSE i + 1]
<1>1. k \in Nat /\ l \in Nat /\ <<Bad>> \in Seq(Packet) /\ Len(<<Bad>>) = 1 /\ <<Bad>>[1] = Bad
    BY LenProperties DEF Bad, Packet
<1>2. c \in Seq(Packet) /\ Len(c) = 1 + l /\ c[1] = Bad /\ \A i \in 1 .. l : c[i + 1] = b[i]
    <2>1. /\ c \in Seq(Packet) /\ Len(c) = 1 + l
          /\ \A i \in 1 .. 1 + l : c[i] = IF i <= 1 THEN <<Bad>>[i] ELSE b[i - 1]
        BY <1>1, ConcatProperties
    <2> HIDE DEF c
    <2>2. 1 \in 1 .. 1 + l /\ c[1] = Bad
        BY <1>1, <2>1
    <2>3. ASSUME NEW i \in 1 .. l PROVE c[i + 1] = b[i]
        <3>1. i + 1 \in 1 .. 1 + l /\ ~(i + 1 <= 1) /\ (i + 1) - 1 = i
            BY <1>1
        <3>2. QED
            BY <2>1, <3>1
    <2>4. QED
        BY <2>1, <2>2, <2>3
<1> HIDE DEF c, k, l
<1>3. /\ t \in Seq(Packet) /\ Len(t) = k + l
      /\ \A i \in 1 .. k + l : t[i] = IF i <= k THEN a[i] ELSE b[i - k]
    <2>1. a \in Seq(Packet) /\ b \in Seq(Packet)
        OBVIOUS
    <2>2. QED
        BY <2>1, ConcatProperties DEF k, l
<1>4. /\ u \in Seq(Packet) /\ Len(u) = k + (1 + l)
      /\ \A i \in 1 .. k + (1 + l) : u[i] = IF i <= k THEN a[i] ELSE c[i - k]
    <2>1. a \in Seq(Packet) /\ c \in Seq(Packet)
        BY <1>2
    <2>2. /\ u \in Seq(Packet) /\ Len(u) = Len(a) + Len(c)
          /\ \A i \in 1 .. Len(a) + Len(c) : u[i] = IF i <= Len(a) THEN a[i] ELSE c[i - Len(a)]
        BY <2>1, ConcatProperties
    <2> HIDE DEF u
    <2>3. QED
        BY <1>2, <2>2 DEF k
<1> HIDE DEF t, u
<1>5. f \in [1 .. Len(t) -> 1 .. Len(u)] /\ \A i, j \in 1 .. Len(t) : i < j => f[i] < f[j]
    BY <1>1, <1>3, <1>4
<1>6. ASSUME NEW i \in 1 .. Len(t) PROVE u[f[i]] = t[i]
    <2>1. CASE i <= k
        BY <1>1, <1>3, <1>4, <1>6, <2>1
    <2>2. CASE ~(i <= k)
        <3>1. f[i] = i + 1 /\ i + 1 \in 1 .. k + (1 + l) /\ ~(i + 1 <= k) /\ (i + 1) - k = (i - k) + 1
              /\ i - k \in 1 .. l
            BY <1>1, <1>3, <2>2
        <3>2. u[i + 1] = c[(i - k) + 1] /\ t[i] = b[i - k]
            BY <1>3, <1>4, <2>2, <3>1
        <3>3. QED
            BY <1>2, <3>1, <3>2
    <2>3. QED
        BY <2>1, <2>2
<1>7. ASSUME NEW j \in 1 .. Len(u), u[j] # Bad PROVE \E i \in 1 .. Len(t) : f[i] = j
    <2>1. CASE j <= k
        <3>1. j \in 1 .. Len(t) /\ f[j] = j
            BY <1>1, <1>3, <1>4, <2>1
        <3>2. QED
            BY <3>1
    <2>2. CASE j > k
        <3>1. j # k + 1
            <4>1. SUFFICES ASSUME j = k + 1 PROVE FALSE
                OBVIOUS
            <4>2. ~(j <= k) /\ j - k = 1 /\ j \in 1 .. k + (1 + l)
                BY <1>1, <1>4, <4>1
            <4>3. u[j] = c[1]
                BY <1>4, <4>2
            <4>4. QED
                BY <1>2, <1>7, <4>3
        <3>2. j - 1 \in 1 .. Len(t) /\ f[j - 1] = j
            BY <1>1, <1>3, <1>4, <2>2, <3>1
        <3>3. QED
            BY <3>2
    <2>3. k \in Nat /\ j \in Int
        BY <1>1
    <2>4. QED
        BY <2>1, <2>2, <2>3
<1> HIDE DEF f
<1>8. Spread(t, u, f)
    BY <1>5, <1>6, <1>7 DEF Spread
<1>9. InOrder(t, n) <=> InOrder(u, n)
    BY <1>3, <1>4, <1>8, InOrderSpread
<1>10. QED
    BY <1>9 DEF t, u, c

\* The first packets are the first numbers.
LEMMA InOrderPrefix ==
    ASSUME NEW a \in Seq(Packet), NEW b \in Seq(Packet), NEW n \in Nat, InOrder(a \o b, n)
    PROVE  \E m \in 0 .. n : InOrder(a, m)
<1> DEFINE t == a \o b
           Missing == {p \in 1 .. n : \A i \in 1 .. Len(a) : a[i] # p}
<1>1. /\ t \in Seq(Packet) /\ Len(a) \in Nat /\ Len(b) \in Nat /\ Len(t) = Len(a) + Len(b)
      /\ \A i \in 1 .. Len(a) : i \in 1 .. Len(t) /\ t[i] = a[i]
    <2>1. Len(a) \in Nat /\ Len(b) \in Nat
        BY LenProperties
    <2>2. /\ t \in Seq(Packet) /\ Len(t) = Len(a) + Len(b)
          /\ \A i \in 1 .. Len(a) + Len(b) : t[i] = IF i <= Len(a) THEN a[i] ELSE b[i - Len(a)]
        BY ConcatProperties
    <2> HIDE DEF t
    <2>3. QED
        BY <2>1, <2>2
<1>2. InOrder(t, n)
    OBVIOUS
<1> HIDE DEF t
<1>3. \A i, j \in 1 .. Len(a) : i < j /\ a[i] # Bad /\ a[j] # Bad => a[i] < a[j]
    BY <1>1, <1>2 DEF InOrder
<1>4. \A i \in 1 .. Len(a) : a[i] \in 0 .. n
    BY <1>1, <1>2 DEF InOrder
<1>5. CASE Missing = {}
    <2>1. InOrder(a, n)
        BY <1>3, <1>4, <1>5 DEF InOrder
    <2>2. QED
        BY <2>1
<1>6. CASE Missing # {}
    <2>1. PICK q \in Missing : \A p \in Missing : q <= p
        <3>1. Missing \in SUBSET Nat
            OBVIOUS
        <3> HIDE DEF Missing
        <3>2. QED
            BY <1>6, <3>1, MinOfNaturals
    <2>2. q - 1 \in 0 .. n /\ q \in 1 .. n
        BY <2>1
    <2>3. ASSUME NEW i \in 1 .. Len(a) PROVE a[i] \in 0 .. q - 1
        <3>1. PICK k \in 1 .. Len(t) : t[k] = q
            BY <1>2, <2>2 DEF InOrder
        <3>2. k > Len(a)
            <4>1. k \notin 1 .. Len(a)
                BY <1>1, <2>1, <3>1
            <4>2. QED
                BY <1>1, <4>1
        <3>3. CASE a[i] = Bad
            BY <2>2, <3>3 DEF Bad
        <3>4. CASE a[i] # Bad
            <4>1. i < k /\ i \in 1 .. Len(t) /\ t[i] = a[i] /\ t[k] # Bad
                BY <1>1, <2>2, <3>1, <3>2 DEF Bad
            <4>2. t[i] < t[k]
                BY <1>2, <3>4, <4>1 DEF InOrder
            <4>3. QED
                BY <1>4, <2>2, <3>1, <4>1, <4>2
        <3>5. QED
            BY <3>3, <3>4
    <2>4. ASSUME NEW p \in 1 .. q - 1 PROVE \E i \in 1 .. Len(a) : a[i] = p
        <3>1. p \in 1 .. n /\ ~(q <= p)
            BY <2>2
        <3>2. QED
            BY <2>1, <3>1
    <2>5. InOrder(a, q - 1)
        BY <1>3, <2>3, <2>4 DEF InOrder
    <2>6. QED
        BY <2>2, <2>5
<1>7. QED
    BY <1>5, <1>6

\* One more packet at the end.
LEMMA InOrderAppend ==
    ASSUME NEW t \in Seq(Packet), NEW n \in Nat, InOrder(t, n)
    PROVE  InOrder(Append(t, n + 1), n + 1) /\ InOrder(Append(t, Bad), n)
<1>1. ASSUME NEW x \in Packet
      PROVE  /\ Len(t) \in Nat /\ Len(Append(t, x)) = Len(t) + 1 /\ Append(t, x)[Len(t) + 1] = x
             /\ \A i \in 1 .. Len(t) : Append(t, x)[i] = t[i]
             /\ \A i \in 1 .. Len(t) + 1 : i = Len(t) + 1 \/ i \in 1 .. Len(t)
    BY AppendProperties, LenProperties
<1>2. n + 1 \in Packet /\ Bad \in Packet
    BY DEF Packet, Bad
<1>3. InOrder(Append(t, n + 1), n + 1)
    <2> DEFINE u == Append(t, n + 1)
               k == Len(t) + 1
    <2>1. /\ Len(t) \in Nat /\ Len(u) = k /\ u[k] = n + 1 /\ k \in 1 .. k
          /\ \A i \in 1 .. Len(t) : u[i] = t[i] /\ i \in 1 .. k
          /\ \A i \in 1 .. k : i = k \/ i \in 1 .. Len(t)
        BY <1>1, <1>2
    <2> HIDE DEF u, k
    <2>2. ASSUME NEW i \in 1 .. k PROVE u[i] \in 0 .. n + 1
        <3>1. CASE i = k
            BY <2>1, <3>1
        <3>2. CASE i \in 1 .. Len(t)
            <4>1. t[i] \in 0 .. n
                BY <3>2 DEF InOrder
            <4>2. QED
                BY <2>1, <3>2, <4>1
        <3>3. QED
            BY <2>1, <3>1, <3>2
    <2>3. ASSUME NEW p \in 1 .. n + 1 PROVE \E i \in 1 .. k : u[i] = p
        <3>1. CASE p = n + 1
            BY <2>1, <3>1
        <3>2. CASE p \in 1 .. n
            BY <2>1, <3>2 DEF InOrder
        <3>3. QED
            BY <3>1, <3>2
    <2>4. ASSUME NEW i \in 1 .. k, NEW j \in 1 .. k, i < j, u[i] # Bad, u[j] # Bad
          PROVE  u[i] < u[j]
        <3>1. i \in 1 .. Len(t) /\ u[i] = t[i] /\ t[i] \in 0 .. n
            BY <2>1, <2>4 DEF InOrder, k
        <3>2. CASE j = k
            BY <2>1, <3>1, <3>2
        <3>3. CASE j \in 1 .. Len(t)
            BY <2>1, <2>4, <3>1, <3>3 DEF InOrder
        <3>4. QED
            BY <2>1, <3>2, <3>3
    <2>5. InOrder(u, n + 1)
        BY <2>1, <2>2, <2>3, <2>4 DEF InOrder
    <2>6. QED
        BY <2>5 DEF u
<1>4. InOrder(Append(t, Bad), n)
    <2> DEFINE u == Append(t, Bad)
               k == Len(t) + 1
    <2>1. /\ Len(t) \in Nat /\ Len(u) = k /\ u[k] = Bad
          /\ \A i \in 1 .. Len(t) : u[i] = t[i] /\ i \in 1 .. k
          /\ \A i \in 1 .. k : i = k \/ i \in 1 .. Len(t)
        BY <1>1, <1>2
    <2> HIDE DEF u, k
    <2>2. ASSUME NEW i \in 1 .. k PROVE u[i] \in 0 .. n
        <3>1. CASE i = k
            BY <2>1, <3>1 DEF Bad
        <3>2. CASE i \in 1 .. Len(t)
            <4>1. t[i] \in 0 .. n
                BY <3>2 DEF InOrder
            <4>2. QED
                BY <2>1, <3>2, <4>1
        <3>3. QED
            BY <2>1, <3>1, <3>2
    <2>3. \A p \in 1 .. n : \E i \in 1 .. k : u[i] = p
        BY <2>1 DEF InOrder
    <2>4. \A i, j \in 1 .. k : i < j /\ u[i] # Bad /\ u[j] # Bad => u[i] < u[j]
        BY <2>1 DEF InOrder
    <2>5. InOrder(u, n)
        BY <2>1, <2>2, <2>3, <2>4 DEF InOrder
    <2>6. QED
        BY <2>5 DEF u
<1>5. QED
    BY <1>3, <1>4

\* Behind the packets 1 to Len(a) comes the next one.
LEMMA InOrderNext ==
    ASSUME NEW a \in Seq(Packet), NEW p \in Packet, NEW b \in Seq(Packet), NEW n \in Nat,
           \A i \in 1 .. Len(a) : a[i] = i, p # Bad, InOrder(a \o (<<p>> \o b), n)
    PROVE  p = Len(a) + 1 /\ p \in 1 .. n
<1> DEFINE c == <<p>> \o b
           t == a \o c
           k == Len(a)
<1>1. c \in Seq(Packet) /\ c[1] = p /\ Len(c) \in Nat /\ Len(c) >= 1 /\ k \in Nat
    <2>1. <<p>> \in Seq(Packet) /\ Len(<<p>>) = 1 /\ <<p>>[1] = p /\ Len(b) \in Nat /\ k \in Nat
        BY LenProperties
    <2>2. /\ c \in Seq(Packet) /\ Len(c) = 1 + Len(b)
          /\ \A i \in 1 .. 1 + Len(b) : c[i] = IF i <= 1 THEN <<p>>[i] ELSE b[i - 1]
        BY <2>1, ConcatProperties
    <2> HIDE DEF c
    <2>3. QED
        BY <2>1, <2>2
<1>2. InOrder(t, n)
    OBVIOUS
<1> HIDE DEF c
<1>3. /\ t \in Seq(Packet) /\ Len(t) = k + Len(c) /\ k + 1 \in 1 .. Len(t) /\ t[k + 1] = p
      /\ \A i \in 1 .. k : t[i] = i /\ i \in 1 .. Len(t)
    <2>1. /\ t \in Seq(Packet) /\ Len(t) = k + Len(c)
          /\ \A i \in 1 .. k + Len(c) : t[i] = IF i <= k THEN a[i] ELSE c[i - k]
        BY <1>1, ConcatProperties
    <2> HIDE DEF t, k
    <2>2. k + 1 \in 1 .. k + Len(c) /\ ~(k + 1 <= k) /\ (k + 1) - k = 1
        BY <1>1
    <2>3. t[k + 1] = p
        BY <1>1, <2>1, <2>2
    <2>4. \A i \in 1 .. k : t[i] = i /\ i \in 1 .. k + Len(c)
        BY <1>1, <2>1 DEF k
    <2>5. QED
        BY <2>1, <2>2, <2>3, <2>4
<1> HIDE DEF t, k
<1>4. p \in 0 .. n /\ p >= 1
    BY <1>2, <1>3 DEF InOrder, Bad, Packet
<1>5. p > k
    <2>1. CASE k = 0
        BY <1>4, <2>1
    <2>2. CASE k > 0
        <3>1. k \in 1 .. k /\ k < k + 1
            BY <1>1, <2>2
        <3>2. t[k] = k /\ t[k] # Bad
            BY <1>3, <2>2, <3>1 DEF Bad
        <3>3. t[k] < t[k + 1]
            BY <1>2, <1>3, <3>1, <3>2 DEF InOrder
        <3>4. QED
            BY <1>3, <3>2, <3>3
    <2>3. QED
        BY <1>1, <2>1, <2>2
<1>6. ~(p > k + 1)
    <2>1. SUFFICES ASSUME p > k + 1 PROVE FALSE
        OBVIOUS
    <2>2. k + 1 \in 1 .. n
        BY <1>1, <1>4, <2>1
    <2>3. PICK j \in 1 .. Len(t) : t[j] = k + 1
        BY <1>2, <2>2 DEF InOrder
    <2>4. j # k + 1 /\ j \notin 1 .. k
        BY <1>1, <1>3, <2>1, <2>3
    <2>5. k + 1 < j
        BY <1>1, <1>3, <2>4
    <2>6. t[k + 1] < t[j]
        <3>1. k + 1 \in 1 .. Len(t) /\ t[k + 1] # Bad /\ t[j] # Bad
            BY <1>1, <1>3, <2>3 DEF Bad
        <3>2. QED
            BY <1>2, <2>5, <3>1 DEF InOrder
    <2>7. QED
        BY <1>1, <1>3, <1>4, <2>1, <2>3, <2>6
<1>7. QED
    BY <1>1, <1>4, <1>5, <1>6 DEF k
-----------------------------------------------------------------------------
(* What the elements on their way hold of one client.                      *)

Part(w, d, s) == [i \in 1 .. Len(w) |-> IF d[w[i]].session = s THEN d[w[i]].packet ELSE Bad]
PartOf(d, e, s) == IF d[e].session = s THEN d[e].packet ELSE Bad
Contents == [Element -> [session : Session \cup {NoSession}, packet : Packet]]

LEMMA PartType ==
    ASSUME NEW w \in Seq(Element), NEW d \in Contents, NEW s
    PROVE  /\ Part(w, d, s) \in Seq(Packet) /\ Len(Part(w, d, s)) = Len(w)
           /\ \A i \in 1 .. Len(w) : Part(w, d, s)[i] = PartOf(d, w[i], s)
           /\ \A e \in Element : PartOf(d, e, s) \in Packet
<1>1. Len(w) \in Nat /\ \A i \in 1 .. Len(w) : w[i] \in Element
    BY LenProperties
<1>2. \A e \in Element : PartOf(d, e, s) \in Packet
    BY DEF Contents, PartOf, Packet, Bad
<1>3. Part(w, d, s) = [i \in 1 .. Len(w) |-> PartOf(d, w[i], s)]
    BY DEF Part, PartOf
<1>4. Part(w, d, s) \in [1 .. Len(w) -> Packet]
    BY <1>1, <1>2, <1>3
<1>5. QED
    BY <1>1, <1>2, <1>3, <1>4, SeqDef

\* One more element at the end.
LEMMA PartAppend ==
    ASSUME NEW w \in Seq(Element), NEW d \in Contents, NEW s, NEW e \in Element
    PROVE  Part(Append(w, e), d, s) = Append(Part(w, d, s), PartOf(d, e, s))
<1> DEFINE l == Part(Append(w, e), d, s)
           r == Append(Part(w, d, s), PartOf(d, e, s))
           n == Len(w)
<1>1. /\ Append(w, e) \in Seq(Element) /\ Len(Append(w, e)) = n + 1 /\ n \in Nat
      /\ Append(w, e)[n + 1] = e /\ \A i \in 1 .. n : Append(w, e)[i] = w[i]
    BY AppendProperties, LenProperties
<1>2. /\ Part(w, d, s) \in Seq(Packet) /\ Len(Part(w, d, s)) = n /\ PartOf(d, e, s) \in Packet
      /\ \A i \in 1 .. n : Part(w, d, s)[i] = PartOf(d, w[i], s)
    BY PartType
<1>3. /\ l \in Seq(Packet) /\ Len(l) = n + 1
      /\ \A i \in 1 .. n + 1 : l[i] = PartOf(d, Append(w, e)[i], s)
    <2> DEFINE v == Append(w, e)
    <2>1. v \in Seq(Element) /\ Len(v) = n + 1
        BY <1>1
    <2> HIDE DEF v
    <2>2. /\ Part(v, d, s) \in Seq(Packet) /\ Len(Part(v, d, s)) = n + 1
          /\ \A i \in 1 .. n + 1 : Part(v, d, s)[i] = PartOf(d, v[i], s)
        BY <2>1, PartType
    <2>3. QED
        BY <2>2 DEF v
<1>4. /\ r \in Seq(Packet) /\ Len(r) = n + 1 /\ r[n + 1] = PartOf(d, e, s)
      /\ \A i \in 1 .. n : r[i] = PartOf(d, w[i], s)
    BY <1>2, AppendProperties
<1> HIDE DEF l, r, n
<1>5. ASSUME NEW i \in 1 .. n + 1 PROVE l[i] = r[i]
    <2>1. CASE i = n + 1
        BY <1>1, <1>3, <1>4, <2>1
    <2>2. CASE i \in 1 .. n
        BY <1>1, <1>3, <1>4, <2>2
    <2>3. QED
        BY <1>1, <2>1, <2>2
<1>6. l = r
    BY <1>3, <1>4, <1>5, SeqEqual
<1>7. QED
    BY <1>6 DEF l, r

\* One more element at the front.
LEMMA PartFirst ==
    ASSUME NEW w \in Seq(Element), NEW d \in Contents, NEW s, NEW e \in Element
    PROVE  Part(<<e>> \o w, d, s) = <<PartOf(d, e, s)>> \o Part(w, d, s)
<1> DEFINE v == <<e>> \o w
           q == PartOf(d, e, s)
           p == Part(w, d, s)
           l == Part(v, d, s)
           r == <<q>> \o p
           n == Len(w)
<1>1. /\ p \in Seq(Packet) /\ Len(p) = n /\ q \in Packet /\ n \in Nat
      /\ \A i \in 1 .. n : p[i] = PartOf(d, w[i], s)
    BY PartType, LenProperties
<1>2. <<e>> \in Seq(Element) /\ Len(<<e>>) = 1 /\ <<e>>[1] = e
    OBVIOUS
<1>3. /\ v \in Seq(Element) /\ Len(v) = 1 + n
      /\ \A i \in 1 .. 1 + n : v[i] = IF i <= 1 THEN <<e>>[i] ELSE w[i - 1]
    BY <1>2, ConcatProperties
<1> HIDE DEF q, p
<1>4. <<q>> \in Seq(Packet) /\ Len(<<q>>) = 1 /\ <<q>>[1] = q
    BY <1>1
<1>5. /\ r \in Seq(Packet) /\ Len(r) = 1 + n
      /\ \A i \in 1 .. 1 + n : r[i] = IF i <= 1 THEN <<q>>[i] ELSE p[i - 1]
    BY <1>1, <1>4, ConcatProperties
<1> HIDE DEF v
<1>6. /\ l \in Seq(Packet) /\ Len(l) = 1 + n
      /\ \A i \in 1 .. 1 + n : l[i] = PartOf(d, v[i], s)
    BY <1>3, PartType
<1> HIDE DEF l, r, n
<1>7. ASSUME NEW i \in 1 .. 1 + n PROVE l[i] = r[i]
    <2>1. CASE i = 1
        <3>1. 1 \in 1 .. 1 + n /\ v[1] = e
            BY <1>1, <1>2, <1>3
        <3>2. l[1] = q
            BY <1>6, <3>1 DEF q
        <3>3. r[1] = q
            BY <1>4, <1>5, <3>1
        <3>4. QED
            BY <2>1, <3>2, <3>3
    <2>2. CASE i # 1
        <3>1. i - 1 \in 1 .. n /\ ~(i <= 1)
            BY <1>1, <2>2
        <3>2. QED
            BY <1>1, <1>3, <1>5, <1>6, <3>1
    <2>3. QED
        BY <2>1, <2>2
<1>8. l = r
    BY <1>5, <1>6, <1>7, SeqEqual
<1>9. QED
    BY <1>8 DEF l, r, v, q, p

\* Elements that are not on their way may change.
LEMMA PartOther ==
    ASSUME NEW w \in Seq(Element), NEW d, NEW c, NEW s,
           \A i \in 1 .. Len(w) : d[w[i]] = c[w[i]]
    PROVE  Part(w, d, s) = Part(w, c, s)
BY DEF Part

-----------------------------------------------------------------------------
(* Where an element of a sequence stands.                                  *)

LEMMA HeadThenTail ==
    ASSUME NEW S, NEW q \in Seq(S), q # <<>>
    PROVE  Head(q) \in S /\ Tail(q) \in Seq(S) /\ q = <<Head(q)>> \o Tail(q)
<1> DEFINE h == Head(q)
           t == Tail(q)
           r == <<h>> \o t
<1>1. /\ h \in S /\ t \in Seq(S) /\ Len(t) = Len(q) - 1 /\ h = q[1]
      /\ \A i \in 1 .. Len(t) : t[i] = q[i + 1]
      /\ Len(q) \in Nat
    BY HeadTailProperties, LenProperties
<1> HIDE DEF h, t
<1>2. <<h>> \in Seq(S) /\ Len(<<h>>) = 1 /\ <<h>>[1] = h
    BY <1>1
<1>3. /\ r \in Seq(S) /\ Len(r) = 1 + Len(t)
      /\ \A i \in 1 .. 1 + Len(t) : r[i] = IF i <= 1 THEN <<h>>[i] ELSE t[i - 1]
    BY <1>1, <1>2, ConcatProperties
<1> HIDE DEF r
<1>4. ASSUME NEW i \in 1 .. Len(q) PROVE q[i] = r[i]
    <2>1. CASE i = 1
        BY <1>1, <1>2, <1>3, <2>1
    <2>2. CASE i # 1
        <3>1. i - 1 \in 1 .. Len(t) /\ ~(i <= 1) /\ i \in 1 .. 1 + Len(t)
            BY <1>1, <2>2
        <3>2. r[i] = t[i - 1] /\ t[i - 1] = q[(i - 1) + 1] /\ (i - 1) + 1 = i
            BY <1>1, <1>3, <3>1
        <3>3. QED
            BY <3>2
    <2>3. QED
        BY <2>1, <2>2
<1>5. q = r
    BY <1>1, <1>3, <1>4, SeqEqual
<1>6. QED
    BY <1>1, <1>5 DEF h, t, r

\* Concatenation is associative, with the equation out of the provers' sight:
\* among many sequences they regroup without end.
Associates(s, t, u) == (s \o t) \o u = s \o (t \o u)

LEMMA Associate ==
    ASSUME NEW S, NEW s \in Seq(S), NEW t \in Seq(S), NEW u \in Seq(S)
    PROVE  Associates(s, t, u)
BY ConcatAssociative DEF Associates

\* An element between two sequences belongs to either.
LEMMA ConcatBetween ==
    ASSUME NEW S, NEW a \in Seq(S), NEW m \in Seq(S), NEW b \in Seq(S), NEW x \in S
    PROVE  /\ (a \o Append(m, x)) \o b = (a \o m) \o (<<x>> \o b)
           /\ (Append(a, x) \o m) \o b = (a \o (<<x>> \o m)) \o b
           /\ (a \o (<<x>> \o m)) \o b = a \o (<<x>> \o (m \o b))
<1>1. <<x>> \in Seq(S) /\ Append(m, x) = m \o <<x>> /\ Append(a, x) = a \o <<x>>
    BY AppendIsConcat
<1>2. (a \o (m \o <<x>>)) \o b = (a \o m) \o (<<x>> \o b)
    <2>1. a \o (m \o <<x>>) = (a \o m) \o <<x>>
        <3>1. Associates(a, m, <<x>>)
            BY <1>1, Associate
        <3>2. QED
            BY <3>1 DEF Associates
    <2>2. a \o m \in Seq(S)
        BY ConcatProperties
    <2>3. ((a \o m) \o <<x>>) \o b = (a \o m) \o (<<x>> \o b)
        <3>1. Associates(a \o m, <<x>>, b)
            BY <1>1, <2>2, Associate
        <3>2. QED
            BY <3>1 DEF Associates
    <2>4. QED
        BY <2>1, <2>3
<1>3. (a \o <<x>>) \o m = a \o (<<x>> \o m)
    <2>1. Associates(a, <<x>>, m)
        BY <1>1, Associate
    <2>2. QED
        BY <2>1 DEF Associates
<1>4. (a \o (<<x>> \o m)) \o b = a \o (<<x>> \o (m \o b))
    <2>1. <<x>> \o m \in Seq(S)
        BY <1>1, ConcatProperties
    <2>2. (a \o (<<x>> \o m)) \o b = a \o ((<<x>> \o m) \o b)
        <3>1. Associates(a, <<x>> \o m, b)
            BY <2>1, Associate
        <3>2. QED
            BY <3>1 DEF Associates
    <2>3. (<<x>> \o m) \o b = <<x>> \o (m \o b)
        <3>1. Associates(<<x>>, m, b)
            BY <1>1, Associate
        <3>2. QED
            BY <3>1 DEF Associates
    <2>4. QED
        BY <2>2, <2>3
<1>5. QED
    BY <1>1, <1>2, <1>3, <1>4
-----------------------------------------------------------------------------
(* The way through the gate.                                               *)

\* The queue, with at most one element in front and one behind.
WayTypes ==
    /\ Way \in Seq(Element)
    /\ \A i \in 1 .. Len(Way) : \/ sender.pc = "send" /\ Way[i] = sender.element
                                \/ Queued(Way[i])
                                \/ worker.pc = "push" /\ Way[i] = worker.element

LEMMA WayTyped == TypeOK /\ ThreadsInv => WayTypes
<1> SUFFICES ASSUME TypeOK, ThreadsInv PROVE WayTypes
    OBVIOUS
<1> DEFINE f == IF sender.pc = "send" THEN <<sender.element>> ELSE <<>>
           l == IF worker.pc = "push" THEN <<worker.element>> ELSE <<>>
           q == f \o queue
           w == q \o l
<1>1. /\ f \in Seq(Element) /\ Len(f) \in Nat
      /\ \A i \in 1 .. Len(f) : sender.pc = "send" /\ f[i] = sender.element
    <2>1. sender.element \in Element
        BY DEF TypeOK
    <2>2. QED
        BY <2>1
<1>2. /\ l \in Seq(Element) /\ Len(l) \in Nat
      /\ \A i \in 1 .. Len(l) : worker.pc = "push" /\ l[i] = worker.element
    <2>1. worker.pc = "push" => worker.element \in Element
        BY DEF ThreadsInv
    <2>2. QED
        BY <2>1
<1>3. queue \in Seq(Element) /\ Len(queue) \in Nat /\ \A i \in 1 .. Len(queue) : Queued(queue[i])
    BY LenProperties DEF TypeOK, Queued, Contains
<1> HIDE DEF f, l
<1>4. /\ q \in Seq(Element) /\ Len(q) = Len(f) + Len(queue)
      /\ \A i \in 1 .. Len(f) + Len(queue) :
            q[i] = IF i <= Len(f) THEN f[i] ELSE queue[i - Len(f)]
    BY <1>1, <1>3, ConcatProperties
<1> HIDE DEF q
<1>5. ASSUME NEW i \in 1 .. Len(q)
      PROVE  (sender.pc = "send" /\ q[i] = sender.element) \/ Queued(q[i])
    <2>1. CASE i <= Len(f)
        BY <1>1, <1>4, <2>1
    <2>2. CASE ~(i <= Len(f))
        <3>1. i - Len(f) \in 1 .. Len(queue) /\ q[i] = queue[i - Len(f)]
            BY <1>1, <1>3, <1>4, <2>2
        <3>2. QED
            BY <1>3, <3>1
    <2>3. QED
        BY <2>1, <2>2
<1>6. /\ w \in Seq(Element) /\ Len(w) = Len(q) + Len(l)
      /\ \A i \in 1 .. Len(q) + Len(l) : w[i] = IF i <= Len(q) THEN q[i] ELSE l[i - Len(q)]
    <2>1. q \in Seq(Element) /\ l \in Seq(Element)
        BY <1>2, <1>4
    <2>2. QED
        BY <2>1, ConcatProperties
<1>7. w = Way
    BY DEF Way, f, l, q
<1> HIDE DEF w
<1>8. ASSUME NEW i \in 1 .. Len(w)
      PROVE  \/ sender.pc = "send" /\ w[i] = sender.element
             \/ Queued(w[i])
             \/ worker.pc = "push" /\ w[i] = worker.element
    <2>1. CASE i <= Len(q)
        <3>1. i \in 1 .. Len(q) /\ w[i] = q[i]
            BY <1>1, <1>3, <1>4, <1>6, <2>1
        <3>2. QED
            BY <1>5, <3>1
    <2>2. CASE ~(i <= Len(q))
        <3>1. i - Len(q) \in 1 .. Len(l) /\ w[i] = l[i - Len(q)]
            BY <1>1, <1>2, <1>3, <1>4, <1>6, <2>2
        <3>2. QED
            BY <1>2, <3>1
    <2>3. QED
        BY <2>1, <2>2
<1>9. QED
    BY <1>6, <1>7, <1>8 DEF WayTypes

\* What there is of each client, from the server back to the client.
StreamTypes ==
    /\ data \in Contents
    /\ open \in SUBSET Session
    /\ \A s : Mine(s) = Part(Way, data, s)
    /\ \A s \in Session :
          /\ delivered[s] \in Seq(Packet) /\ Mine(s) \in Seq(Packet)
          /\ inbuf[s] \in Seq(Packet) /\ flight[s] \in Seq(Packet)
          /\ delivered[s] \o Mine(s) \in Seq(Packet)
          /\ Taken(s) \in Seq(Packet) /\ Stream(s) \in Seq(Packet)
          /\ sent[s] \in Nat

LEMMA StreamTyped == TypeOK /\ ThreadsInv => StreamTypes
<1> SUFFICES ASSUME TypeOK, ThreadsInv PROVE StreamTypes
    OBVIOUS
<1>1. data \in Contents /\ open \in SUBSET Session
    BY DEF TypeOK, Contents
<1>2. \A s : Mine(s) = Part(Way, data, s)
    BY DEF Mine, Part
<1>3. ASSUME NEW s \in Session
      PROVE  /\ delivered[s] \in Seq(Packet) /\ Mine(s) \in Seq(Packet)
             /\ inbuf[s] \in Seq(Packet) /\ flight[s] \in Seq(Packet)
             /\ delivered[s] \o Mine(s) \in Seq(Packet)
             /\ Taken(s) \in Seq(Packet) /\ Stream(s) \in Seq(Packet)
             /\ sent[s] \in Nat
    <2>1. delivered[s] \in Seq(Packet) /\ inbuf[s] \in Seq(Packet) /\ flight[s] \in Seq(Packet)
        BY DEF TypeOK
    <2>2. sent[s] \in Nat
        BY DEF TypeOK
    <2>3. Mine(s) \in Seq(Packet)
        <3>1. Way \in Seq(Element)
            BY WayTyped DEF WayTypes
        <3>2. Part(Way, data, s) \in Seq(Packet)
            BY <1>1, <3>1, PartType
        <3>3. QED
            BY <1>2, <3>2
    <2>4. delivered[s] \o Mine(s) \in Seq(Packet)
        BY <2>1, <2>3, ConcatProperties
    <2>5. Taken(s) \in Seq(Packet)
        BY <2>1, <2>4, ConcatProperties DEF Taken
    <2>6. Stream(s) \in Seq(Packet)
        BY <2>1, <2>5, ConcatProperties DEF Stream
    <2>7. QED
        BY <2>1, <2>2, <2>3, <2>4, <2>5, <2>6
<1>4. QED
    BY <1>1, <1>2, <1>3 DEF StreamTypes

\* The same after a step.
LEMMA TypedNext == IInv' => WayTypes' /\ StreamTypes'
<1>1. IInv => WayTypes /\ StreamTypes
    BY WayTyped, StreamTyped DEF IInv
<1>2. QED
    BY <1>1, PTL

\* What a step has to keep of one client's packets.
ClientInv(s) ==
    /\ s \in open => InOrder(Stream(s), sent[s])
    /\ s \notin open => \E n \in 0 .. sent[s] : InOrder(Taken(s), n)

LEMMA StreamParts ==
    IInv => (StreamInv <=> OnlyGood /\ FirstDelivered /\ \A s \in Session : ClientInv(s))
BY DEF IInv, TypeOK, StreamInv, NothingLost, OnlyLastLost, ClientInv

LEMMA StreamPartsNext ==
    IInv' => (StreamInv' <=> OnlyGood' /\ FirstDelivered' /\ (\A s \in Session : ClientInv(s))')
BY StreamParts, PTL

\* The server has taken the first packets of every client, in order.
LEMMA TakenInOrder ==
    IInv /\ StreamInv => \A s \in Session : \E n \in 0 .. sent[s] : InOrder(Taken(s), n)
<1> SUFFICES ASSUME IInv, StreamInv, NEW s \in Session
             PROVE  \E n \in 0 .. sent[s] : InOrder(Taken(s), n)
    OBVIOUS
<1>1. ClientInv(s)
    BY StreamParts
<1>2. CASE s \in open
    <2>1. Taken(s) \in Seq(Packet) /\ flight[s] \in Seq(Packet) /\ sent[s] \in Nat
        BY StreamTyped DEF IInv, StreamTypes
    <2>2. InOrder(Taken(s) \o flight[s], sent[s])
        BY <1>1, <1>2 DEF ClientInv, Stream
    <2>3. QED
        BY <2>1, <2>2, InOrderPrefix
<1>3. CASE s \notin open
    BY <1>1, <1>3 DEF ClientInv
<1>4. QED
    BY <1>2, <1>3

\* All steps but two leave what is on its way to the server as it is.
Quiet ==
    \/ \E s \in Session : SendGood(s) \/ SendBad(s) \/ HangUp(s) \/ Receive(s)
    \/ Look \/ NoElement \/ Reject \/ Push
    \/ Drain \/ Pop \/ Free
    \/ UNCHANGED vars

LEMMA WayKept ==
    ASSUME queue' = queue,
           worker'.pc = "push" <=> worker.pc = "push",
           worker.pc = "push" => worker'.element = worker.element,
           sender'.pc = "send" <=> sender.pc = "send",
           sender.pc = "send" => sender'.element = sender.element
    PROVE  Way' = Way
BY DEF Way

LEMMA QuietStep ==
    IInv /\ Quiet => /\ Way' = Way /\ delivered' = delivered
                     /\ \A i \in 1 .. Len(Way) : data'[Way[i]] = data[Way[i]]
<1> SUFFICES ASSUME IInv, Quiet
             PROVE  /\ Way' = Way /\ delivered' = delivered
                    /\ \A i \in 1 .. Len(Way) : data'[Way[i]] = data[Way[i]]
    OBVIOUS
<1> DEFINE Goal == /\ Way' = Way /\ delivered' = delivered
                   /\ \A i \in 1 .. Len(Way) : data'[Way[i]] = data[Way[i]]
<1>0. /\ worker \in [pc : {"idle", "look", "extract", "push"},
                      session : Session \cup {NoSession}, element : 0 .. PoolSize]
      /\ sender \in [pc : {"idle", "pop", "send", "free"}, element : Element, left : Nat]
    BY DEF IInv, TypeOK
<1>1. \A s, left : NextPacket(s, left) => worker'.pc # "push"
    BY DEF NextPacket, Idle
<1>2. ASSUME NEW s \in Session, SendGood(s) \/ SendBad(s) PROVE Goal
    BY <1>2, WayKept DEF SendGood, SendBad, sessionVars, poolVars
<1>3. ASSUME NEW s \in Session, HangUp(s) PROVE Goal
    BY <1>3, WayKept DEF HangUp, poolVars
<1>4. ASSUME NEW s \in Session, Receive(s) PROVE Goal
    BY <1>1, <1>4, WayKept DEF Receive, poolVars
<1>5. CASE Look
    <2>1. worker'.pc # "push" /\ worker.pc # "push"
        BY <1>0, <1>5 DEF Look
    <2>2. QED
        BY <1>5, <2>1, WayKept DEF Look
<1>6. CASE NoElement
    BY <1>6, WayKept DEF NoElement, poolVars, Idle
<1>7. CASE Reject
    <2>1. worker'.pc # "push" /\ worker.pc = "extract"
        BY <1>1, <1>7 DEF Reject
    <2>2. Way' = Way /\ delivered' = delivered
        BY <1>7, <2>1, WayKept DEF Reject
    <2>3. ASSUME NEW i \in 1 .. Len(Way) PROVE data'[Way[i]] = data[Way[i]]
        <3>1. InHand(worker.element)
            BY <2>1 DEF InHand
        <3>2. /\ Way[i] \in Element
              /\ (sender.pc = "send" /\ Way[i] = sender.element) \/ Queued(Way[i])
            BY <2>1, WayTyped, ElementOfSeq DEF WayTypes, IInv
        <3>3. Way[i] # worker.element
            BY <3>1, <3>2 DEF IInv, OneOwner, Leaving
        <3>4. QED
            BY <1>7, <3>2, <3>3 DEF Reject, IInv, TypeOK
    <2>4. QED
        BY <2>2, <2>3
<1>8. CASE Push
    <2>1. worker.element \in Element /\ queue \in Seq(Element)
        BY <1>8 DEF Push, IInv, ThreadsInv, TypeOK
    <2>2. worker'.pc # "push" /\ sender' = sender /\ sender.pc = "idle"
        BY <1>1, <1>8 DEF Push
    <2>3. queue' = queue \o <<worker.element>> /\ queue' \in Seq(Element)
        BY <1>8, <2>1, AppendIsConcat DEF Push
    <2>4. Way = (<<>> \o queue) \o <<worker.element>> /\ Way' = (<<>> \o queue') \o <<>>
        BY <1>8, <2>2 DEF Way, Push
    <2>5. Way' = Way
        BY <2>1, <2>3, <2>4, ConcatEmptySeq
    <2>6. QED
        BY <1>8, <2>5 DEF Push, poolVars
<1>9. CASE Drain
    <2>1. sender'.pc = "pop" /\ sender.pc = "idle"
        BY <1>0, <1>9 DEF Drain
    <2>2. QED
        BY <1>9, <2>1, WayKept DEF Drain, poolVars
<1>10. CASE Pop
    <2> DEFINE e == Head(queue)
               l == IF worker.pc = "push" THEN <<worker.element>> ELSE <<>>
    <2>1. sender'.pc = "send" /\ sender'.element = e /\ sender.pc = "pop" /\ worker' = worker
        BY <1>0, <1>10 DEF Pop
    <2>2. queue \in Seq(Element) /\ queue # <<>> /\ queue' = Tail(queue)
        BY <1>10 DEF Pop, IInv, ThreadsInv, TypeOK
    <2>3. queue = <<e>> \o Tail(queue)
        BY <2>2, HeadThenTail
    <2>4. Way' = (<<e>> \o Tail(queue)) \o l /\ Way = (<<>> \o queue) \o l
        BY <2>1, <2>2 DEF Way
    <2>5. Way' = Way
        BY <2>2, <2>3, <2>4, ConcatEmptySeq
    <2>6. QED
        BY <1>10, <2>5 DEF Pop, poolVars
<1>11. CASE Free
    <2>1. sender'.pc # "send" /\ sender.pc = "free"
        BY <1>0, <1>11 DEF Free
    <2>2. QED
        BY <1>11, <2>1, WayKept DEF Free
<1>12. CASE UNCHANGED vars
    BY <1>12, WayKept DEF vars, poolVars
<1>13. QED
    BY <1>2, <1>3, <1>4, <1>5, <1>6, <1>7, <1>8, <1>9, <1>10, <1>11, <1>12 DEF Quiet

Cat(s, t) == s \o t

LEMMA CatProperties ==
    ASSUME NEW S, NEW s \in Seq(S), NEW t \in Seq(S), NEW u \in Seq(S)
    PROVE  Cat(s, t) \in Seq(S) /\ Cat(Cat(s, t), u) = Cat(s, Cat(t, u))
<1>1. s \o t \in Seq(S)
    BY ConcatProperties
<1>2. (s \o t) \o u = s \o (t \o u)
    BY ConcatAssociative
<1>3. QED
    BY <1>1, <1>2 DEF Cat

\* The first elements of one sequence move to the end of the one before.
LEMMA MoveFirst ==
    ASSUME NEW S, NEW a \in Seq(S), NEW b \in Seq(S), NEW f \in Seq(S), NEW n \in 1 .. Len(f)
    PROVE  Cat(Cat(a, Cat(b, SubSeq(f, 1, n))), SubSeq(f, n + 1, Len(f))) = Cat(Cat(a, b), f)
<1> DEFINE m == Len(f)
           x == SubSeq(f, 1, n)
           y == SubSeq(f, n + 1, m)
<1>1. m \in Nat /\ \A i \in 1 .. m : f[i] \in S
    BY LenProperties, ElementOfSeq
<1>2. x \in Seq(S)
    <2>1. \A i \in 1 .. n : f[i] \in S
        BY <1>1
    <2>2. QED
        BY <1>1, <2>1, SubSeqProperties
<1>3. y \in Seq(S)
    <2>1. \A i \in n + 1 .. m : f[i] \in S
        BY <1>1
    <2>2. QED
        BY <1>1, <2>1, SubSeqProperties
<1>4. Cat(x, y) = f
    <2>1. 1 \in 1 .. m + 1 /\ n \in 1 - 1 .. m /\ m \in n .. m
        BY <1>1
    <2>2. SubSeq(f, 1, n) \o SubSeq(f, n + 1, m) = SubSeq(f, 1, m)
        BY <2>1, ConcatAdjacentSubSeq
    <2>3. QED
        BY <2>2, SubSeqFull DEF Cat
<1> HIDE DEF x, y
<1>5. Cat(a, Cat(b, x)) = Cat(Cat(a, b), x) /\ Cat(a, b) \in Seq(S)
    BY <1>2, CatProperties
<1>6. Cat(Cat(Cat(a, b), x), y) = Cat(Cat(a, b), Cat(x, y))
    BY <1>2, <1>3, <1>5, CatProperties
<1>7. QED
    BY <1>4, <1>5, <1>6 DEF x, y

\* A session that ends loses what is left in its buffer, and no more.
LEMMA Closing ==
    ASSUME IInv, StreamInv, IInv', NEW s \in Session,
           delivered'[s] = delivered[s], Mine(s)' = Mine(s),
           inbuf'[s] = <<>>, sent' = sent, s \notin open'
    PROVE  ClientInv(s)'
<1> DEFINE h == delivered[s] \o Mine(s)
<1>1. PICK n \in 0 .. sent[s] : InOrder(Taken(s), n)
    BY TakenInOrder
<1>2. /\ h \in Seq(Packet) /\ inbuf[s] \in Seq(Packet) /\ n \in Nat
      /\ Taken(s) = h \o inbuf[s] /\ Taken(s)' = h \o <<>>
    BY StreamTyped DEF IInv, StreamTypes, Taken
<1> HIDE DEF h
<1>3. Taken(s)' = h /\ InOrder(h \o inbuf[s], n)
    BY <1>1, <1>2, ConcatEmptySeq
<1>4. \E m \in 0 .. n : InOrder(h, m)
    BY <1>2, <1>3, InOrderPrefix
<1>5. PICK m \in 0 .. n : InOrder(h, m)
    BY <1>4
<1>6. m \in 0 .. sent'[s] /\ InOrder(Taken(s)', m)
    <2>1. sent[s] \in Nat
        BY StreamTyped DEF IInv, StreamTypes
    <2>2. QED
        BY <1>2, <1>3, <1>5, <2>1
<1>7. QED
    BY <1>6 DEF ClientInv

\* A client of which the step changes nothing.
LEMMA Untouched ==
    ASSUME NEW s, ClientInv(s),
           delivered'[s] = delivered[s], Mine(s)' = Mine(s),
           inbuf'[s] = inbuf[s], flight'[s] = flight[s], sent'[s] = sent[s],
           s \in open' <=> s \in open
    PROVE  ClientInv(s)'
<1>1. Taken(s)' = Taken(s) /\ Stream(s)' = Stream(s)
    BY DEF Taken, Stream
<1>2. QED
    BY <1>1 DEF ClientInv

\* The client sends: one more at the end of its stream.
LEMMA SendStep ==
    ASSUME IInv, StreamInv, IInv', NEW r \in Session, SendGood(r) \/ SendBad(r),
           NEW s \in Session, Mine(s)' = Mine(s)
    PROVE  ClientInv(s)'
<1>1. ClientInv(s) /\ StreamTypes
    BY StreamParts, StreamTyped DEF IInv
<1>2. inbuf' = inbuf /\ open' = open /\ delivered' = delivered
    BY DEF SendGood, SendBad, sessionVars
<1>3. Taken(s)' = Taken(s)
    BY <1>2 DEF Taken
<1>4. CASE s # r
    <2>1. flight'[s] = flight[s] /\ sent'[s] = sent[s]
        BY <1>4 DEF SendGood, SendBad, IInv, TypeOK
    <2>2. QED
        BY <1>1, <1>2, <2>1, Untouched
<1>5. CASE s = r
    <2> DEFINE x == IF SendGood(r) THEN sent[s] + 1 ELSE Bad
               k == IF SendGood(r) THEN sent[s] + 1 ELSE sent[s]
    <2>1. flight'[s] = Append(flight[s], x) /\ sent'[s] = k
        <3>1. CASE SendGood(r)
            BY <1>5, <3>1 DEF SendGood, IInv, TypeOK
        <3>2. CASE ~SendGood(r)
            BY <1>5, <3>2 DEF SendBad, IInv, TypeOK
        <3>3. QED
            BY <3>1, <3>2
    <2>2. sent[s] \in Nat /\ k \in Nat /\ sent[s] <= k /\ x \in Packet
        BY <1>1 DEF StreamTypes, Packet, Bad
    <2>3. Stream(s)' = Append(Stream(s), x)
        <3>1. Taken(s) \in Seq(Packet) /\ flight[s] \in Seq(Packet) /\ <<x>> \in Seq(Packet)
            BY <1>1, <2>2 DEF StreamTypes
        <3>2. Stream(s)' = Taken(s) \o Append(flight[s], x) /\ Stream(s) = Taken(s) \o flight[s]
            BY <1>3, <2>1 DEF Stream
        <3> HIDE DEF x
        <3>3. /\ Append(flight[s], x) = flight[s] \o <<x>>
              /\ Taken(s) \o (flight[s] \o <<x>>) = (Taken(s) \o flight[s]) \o <<x>>
            <4>1. Append(flight[s], x) = flight[s] \o <<x>>
                BY <2>2, <3>1, AppendIsConcat
            <4>2. \A a, b, c \in Seq(Packet) : a \o (b \o c) = (a \o b) \o c
                BY ConcatAssociative
            <4>3. QED
                BY <3>1, <4>1, <4>2
        <3>4. Taken(s) \o flight[s] \in Seq(Packet)
            BY <3>1, ConcatProperties
        <3>5. Append(Taken(s) \o flight[s], x) = (Taken(s) \o flight[s]) \o <<x>>
            BY <2>2, <3>4, AppendIsConcat
        <3>6. QED
            BY <3>2, <3>3, <3>5
    <2>4. ASSUME s \in open PROVE InOrder(Stream(s)', k)
        <3>1. Stream(s) \in Seq(Packet) /\ InOrder(Stream(s), sent[s])
            BY <1>1, <2>4 DEF StreamTypes, ClientInv
        <3>2. /\ InOrder(Append(Stream(s), sent[s] + 1), sent[s] + 1)
              /\ InOrder(Append(Stream(s), Bad), sent[s])
            BY <2>2, <3>1, InOrderAppend
        <3>3. QED
            BY <2>3, <3>2
    <2>5. ASSUME s \notin open PROVE \E n \in 0 .. k : InOrder(Taken(s), n)
        <3>1. PICK n \in 0 .. sent[s] : InOrder(Taken(s), n)
            BY <1>1, <2>5 DEF ClientInv
        <3>2. n \in 0 .. k
            BY <2>2
        <3>3. QED
            BY <3>1, <3>2
    <2> HIDE DEF k, x
    <2>6. QED
        BY <1>2, <1>3, <2>1, <2>4, <2>5 DEF ClientInv
<1>6. QED
    BY <1>4, <1>5

\* A receive moves the first packets of what is under way into the buffer.
LEMMA ReceiveStep ==
    ASSUME IInv, StreamInv, IInv', NEW r \in Session, Receive(r),
           NEW s \in Session, Mine(s)' = Mine(s)
    PROVE  ClientInv(s)'
<1>1. ClientInv(s) /\ StreamTypes
    BY StreamParts, StreamTyped DEF IInv
<1>2. sent' = sent /\ open' = open /\ delivered' = delivered /\ r \in open
    BY DEF Receive
<1>3. CASE s # r
    <2>1. flight'[s] = flight[s] /\ inbuf'[s] = inbuf[s]
        BY <1>3 DEF Receive, IInv, TypeOK
    <2>2. QED
        BY <1>1, <1>2, <2>1, Untouched
<1>4. CASE s = r
    <2> DEFINE h == delivered[s] \o Mine(s)
               f == flight[s]
               m == Len(f)
    <2>1. PICK n \in 1 .. m : /\ inbuf'[s] = inbuf[s] \o SubSeq(f, 1, n)
                              /\ flight'[s] = SubSeq(f, n + 1, m)
        BY <1>4 DEF Receive, IInv, TypeOK
    <2>2. h \in Seq(Packet) /\ inbuf[s] \in Seq(Packet) /\ f \in Seq(Packet) /\ m \in Nat
        BY <1>1, LenProperties DEF StreamTypes
    <2> HIDE DEF h, f
    <2>3. Cat(Cat(h, Cat(inbuf[s], SubSeq(f, 1, n))), SubSeq(f, n + 1, m)) = Cat(Cat(h, inbuf[s]), f)
        BY <2>2, MoveFirst DEF m
    <2>4. /\ Stream(s)' = Cat(Cat(h, Cat(inbuf[s], SubSeq(f, 1, n))), SubSeq(f, n + 1, m))
          /\ Stream(s) = Cat(Cat(h, inbuf[s]), f)
        BY <1>2, <2>1 DEF Stream, Taken, Cat, h, f
    <2>6. Stream(s)' = Stream(s) /\ s \in open /\ s \in open'
        BY <1>2, <1>4, <2>3, <2>4
    <2>7. QED
        BY <1>1, <1>2, <2>6 DEF ClientInv
<1>5. QED
    BY <1>3, <1>4

\* Whatever a step does that leaves the elements under way as they are, the
\* clients' packets stay in order.
LEMMA QuietKeeps == IInv /\ StreamInv /\ IInv' /\ Quiet => StreamInv'
<1> SUFFICES ASSUME IInv, StreamInv, IInv', Quiet PROVE StreamInv'
    OBVIOUS
<1>1. /\ Way' = Way /\ delivered' = delivered
      /\ \A i \in 1 .. Len(Way) : data'[Way[i]] = data[Way[i]]
    BY QuietStep
<1>2. OnlyGood' /\ FirstDelivered'
    BY <1>1 DEF StreamInv, OnlyGood, FirstDelivered
<1>3. ASSUME NEW s PROVE Mine(s)' = Mine(s)
    BY <1>1 DEF Mine
<1>4. ASSUME NEW s \in Session PROVE ClientInv(s)'
    <2>0. ClientInv(s) /\ Mine(s)' = Mine(s) /\ delivered'[s] = delivered[s]
        BY <1>1, <1>3, StreamParts
    <2>1. ASSUME NEW r \in Session, SendGood(r) \/ SendBad(r) PROVE ClientInv(s)'
        BY <2>0, <2>1, SendStep
    <2>2. ASSUME NEW r \in Session, HangUp(r) PROVE ClientInv(s)'
        <3>1. sent' = sent /\ flight' = flight /\ open' = open \ {r}
            BY <2>2 DEF HangUp, clientVars
        <3>2. CASE s = r
            <4>1. inbuf'[s] = <<>> /\ s \notin open'
                BY <2>2, <3>1, <3>2 DEF HangUp, IInv, TypeOK
            <4>2. QED
                BY <2>0, <3>1, <4>1, Closing
        <3>3. CASE s # r
            <4>1. inbuf'[s] = inbuf[s] /\ (s \in open' <=> s \in open)
                BY <2>2, <3>1, <3>3 DEF HangUp, IInv, TypeOK
            <4>2. QED
                BY <2>0, <3>1, <4>1, Untouched
        <3>4. QED
            BY <3>2, <3>3
    <2>3. ASSUME NEW r \in Session, Receive(r) PROVE ClientInv(s)'
        BY <2>0, <2>3, ReceiveStep
    <2>4. CASE Look \/ NoElement \/ Push \/ Drain \/ Pop \/ Free \/ UNCHANGED vars
        <3>1. inbuf' = inbuf /\ open' = open /\ sent' = sent /\ flight' = flight
            BY <2>4 DEF Look, NoElement, Push, Drain, Pop, Free, vars, clientVars, sessionVars
        <3>2. QED
            BY <2>0, <3>1, Untouched
    <2>5. CASE Reject
        <3> DEFINE r == worker.session
        <3>1. sent' = sent /\ flight' = flight /\ open' = open \ {r} /\ r \in Session
            BY <2>5 DEF Reject, clientVars, IInv, ThreadsInv
        <3>2. inbuf' = [inbuf EXCEPT ![r] = <<>>]
            BY <2>5 DEF Reject
        <3> HIDE DEF r
        <3>3. CASE s = r
            <4>1. inbuf'[s] = <<>> /\ s \notin open'
                BY <3>1, <3>2, <3>3 DEF IInv, TypeOK
            <4>2. QED
                BY <2>0, <3>1, <4>1, Closing
        <3>4. CASE s # r
            <4>1. inbuf'[s] = inbuf[s] /\ (s \in open' <=> s \in open)
                BY <3>1, <3>2, <3>4 DEF IInv, TypeOK
            <4>2. QED
                BY <2>0, <3>1, <4>1, Untouched
        <3>5. QED
            BY <3>3, <3>4
    <2>6. QED
        BY <2>1, <2>2, <2>3, <2>4, <2>5 DEF Quiet
<1>5. QED
    BY <1>2, <1>4, StreamPartsNext

\* What the server, the way and the buffer hold of a client, and with that what
\* is in flight.
Whole(a, m, b) == Cat(Cat(a, m), b)
Through(a, m, b, f) == Cat(Whole(a, m, b), f)

LEMMA WholeIs ==
    ASSUME NEW s
    PROVE  /\ Taken(s) = Whole(delivered[s], Mine(s), inbuf[s])
           /\ Stream(s) = Through(delivered[s], Mine(s), inbuf[s], flight[s])
BY DEF Taken, Stream, Whole, Through, Cat

LEMMA WholeIsNext ==
    ASSUME NEW s
    PROVE  /\ Taken(s)' = Whole(delivered'[s], Mine(s)', inbuf'[s])
           /\ Stream(s)' = Through(delivered'[s], Mine(s)', inbuf'[s], flight'[s])
BY DEF Taken, Stream, Whole, Through, Cat

LEMMA CatType ==
    ASSUME NEW S, NEW s \in Seq(S), NEW t \in Seq(S)
    PROVE  Cat(s, t) \in Seq(S)
BY ConcatProperties DEF Cat

LEMMA CatOne ==
    ASSUME NEW S, NEW s \in Seq(S), NEW x \in S
    PROVE  <<x>> \in Seq(S) /\ Append(s, x) = Cat(s, <<x>>)
<1>1. <<x>> \in Seq(S)
    OBVIOUS
<1>2. Append(s, x) = s \o <<x>>
    BY AppendIsConcat
<1>3. QED
    BY <1>1, <1>2 DEF Cat

LEMMA SkipBad ==
    ASSUME NEW a \in Seq(Packet), NEW b \in Seq(Packet), NEW n \in Nat
    PROVE  InOrder(Cat(a, Cat(<<Bad>>, b)), n) <=> InOrder(Cat(a, b), n)
BY InOrderSkip DEF Cat

\* An element that goes from one to the next changes neither.
LEMMA Moves ==
    ASSUME NEW S, NEW a \in Seq(S), NEW m \in Seq(S), NEW b \in Seq(S), NEW x \in S
    PROVE  /\ Whole(a, Append(m, x), b) = Whole(a, m, Cat(<<x>>, b))
           /\ Whole(Append(a, x), m, b) = Whole(a, Cat(<<x>>, m), b)
           /\ Whole(a, Cat(<<x>>, m), b) = Cat(a, Cat(<<x>>, Cat(m, b)))
<1> DEFINE o == <<x>>
<1>1. o \in Seq(S) /\ Append(m, x) = Cat(m, o) /\ Append(a, x) = Cat(a, o)
    BY CatOne
<1> HIDE DEF o
<1>2. Cat(a, Cat(m, o)) = Cat(Cat(a, m), o) /\ Cat(a, m) \in Seq(S)
    BY <1>1, CatProperties
<1>3. Cat(Cat(Cat(a, m), o), b) = Cat(Cat(a, m), Cat(o, b))
    BY <1>1, <1>2, CatProperties
<1>4. Cat(Cat(a, o), m) = Cat(a, Cat(o, m)) /\ Cat(o, m) \in Seq(S)
    BY <1>1, CatProperties
<1>5. Cat(Cat(a, Cat(o, m)), b) = Cat(a, Cat(Cat(o, m), b))
    BY <1>4, CatProperties
<1>6. Cat(Cat(o, m), b) = Cat(o, Cat(m, b))
    BY <1>1, CatProperties
<1>7. QED
    BY <1>1, <1>2, <1>3, <1>4, <1>5, <1>6 DEF Whole, o

\* A bad packet behind or before what is on the way changes no order.
LEMMA BadOnTheWay ==
    ASSUME NEW a \in Seq(Packet), NEW m \in Seq(Packet), NEW b \in Seq(Packet),
           NEW f \in Seq(Packet), NEW n \in Nat
    PROVE  /\ InOrder(Whole(a, Append(m, Bad), b), n) <=> InOrder(Whole(a, m, b), n)
           /\ InOrder(Through(a, Append(m, Bad), b, f), n) <=> InOrder(Through(a, m, b, f), n)
           /\ InOrder(Whole(a, Cat(<<Bad>>, m), b), n) <=> InOrder(Whole(a, m, b), n)
           /\ InOrder(Through(a, Cat(<<Bad>>, m), b, f), n) <=> InOrder(Through(a, m, b, f), n)
<1> DEFINE o == <<Bad>>
           c == Cat(a, m)
<1>1. Bad \in Packet /\ o \in Seq(Packet)
    BY CatOne DEF Bad, Packet
<1>2. /\ Whole(a, Append(m, Bad), b) = Cat(c, Cat(o, b))
      /\ Whole(a, Cat(o, m), b) = Cat(a, Cat(o, Cat(m, b)))
    BY <1>1, Moves DEF Whole
<1> HIDE DEF o
<1>3. /\ c \in Seq(Packet) /\ Cat(b, f) \in Seq(Packet) /\ Cat(m, b) \in Seq(Packet)
      /\ Cat(o, b) \in Seq(Packet)
    BY <1>1, CatType
<1>4. Cat(Cat(m, b), f) \in Seq(Packet) /\ Cat(o, Cat(m, b)) \in Seq(Packet)
    BY <1>1, <1>3, CatType
<1>5. Whole(a, m, b) = Cat(c, b) /\ Whole(a, m, b) = Cat(a, Cat(m, b))
    BY CatProperties DEF Whole
<1> HIDE DEF c
<1>6. /\ InOrder(Cat(c, Cat(o, b)), n) <=> InOrder(Cat(c, b), n)
      /\ InOrder(Cat(c, Cat(o, Cat(b, f))), n) <=> InOrder(Cat(c, Cat(b, f)), n)
      /\ InOrder(Cat(a, Cat(o, Cat(m, b))), n) <=> InOrder(Cat(a, Cat(m, b)), n)
      /\ InOrder(Cat(a, Cat(o, Cat(Cat(m, b), f))), n) <=> InOrder(Cat(a, Cat(Cat(m, b), f)), n)
    BY <1>3, <1>4, SkipBad DEF o
<1>7. Cat(Cat(c, Cat(o, b)), f) = Cat(c, Cat(o, Cat(b, f)))
    <2>1. Cat(Cat(c, Cat(o, b)), f) = Cat(c, Cat(Cat(o, b), f))
        BY <1>3, CatProperties
    <2>2. Cat(Cat(o, b), f) = Cat(o, Cat(b, f))
        BY <1>1, CatProperties
    <2>3. QED
        BY <2>1, <2>2
<1>8. Cat(Cat(c, b), f) = Cat(c, Cat(b, f))
    BY <1>3, CatProperties
<1>9. Cat(Cat(a, Cat(o, Cat(m, b))), f) = Cat(a, Cat(o, Cat(Cat(m, b), f)))
    <2>1. Cat(Cat(a, Cat(o, Cat(m, b))), f) = Cat(a, Cat(Cat(o, Cat(m, b)), f))
        BY <1>4, CatProperties
    <2>2. Cat(Cat(o, Cat(m, b)), f) = Cat(o, Cat(Cat(m, b), f))
        BY <1>1, <1>3, CatProperties
    <2>3. QED
        BY <2>1, <2>2
<1>10. Cat(Cat(a, Cat(m, b)), f) = Cat(a, Cat(Cat(m, b), f))
    BY <1>3, CatProperties
<1>11. /\ InOrder(Whole(a, Append(m, Bad), b), n) <=> InOrder(Whole(a, m, b), n)
       /\ InOrder(Whole(a, Cat(o, m), b), n) <=> InOrder(Whole(a, m, b), n)
    BY <1>2, <1>5, <1>6
<1>12. InOrder(Through(a, Append(m, Bad), b, f), n) <=> InOrder(Through(a, m, b, f), n)
    BY <1>2, <1>5, <1>6, <1>7, <1>8 DEF Through
<1>13. InOrder(Through(a, Cat(o, m), b, f), n) <=> InOrder(Through(a, m, b, f), n)
    BY <1>2, <1>5, <1>6, <1>9, <1>10 DEF Through
<1>14. QED
    BY <1>11, <1>12, <1>13 DEF o

\* Equal parts make an equal whole.
LEMMA SameClient ==
    ASSUME IInv, NEW s \in Session, ClientInv(s), sent' = sent, open' = open,
           \A n \in Nat : /\ InOrder(Taken(s)', n) <=> InOrder(Taken(s), n)
                          /\ InOrder(Stream(s)', n) <=> InOrder(Stream(s), n)
    PROVE  ClientInv(s)'
<1>1. sent[s] \in Nat
    BY StreamTyped DEF IInv, StreamTypes
<1>2. \A n \in 0 .. sent[s] : n \in Nat
    BY <1>1
<1>3. QED
    BY <1>1, <1>2 DEF ClientInv

\* ExtractPacket moves a packet from the buffer to the end of the way; to all
\* other clients it is as good as bad.
LEMMA ExtractKeeps == IInv /\ StreamInv /\ IInv' /\ Extract => StreamInv'
<1> SUFFICES ASSUME IInv, StreamInv, IInv', Extract PROVE StreamInv'
    OBVIOUS
<1> DEFINE c == worker.session
           e == worker.element
           p == Head(inbuf[c])
<1>1. /\ c \in Session /\ e \in Element /\ inbuf[c] # <<>> /\ p # Bad
      /\ worker.pc = "extract" /\ worker'.pc = "push" /\ worker'.element = e
    BY DEF Extract, IInv, ThreadsInv, TypeOK
<1>2. /\ sent' = sent /\ flight' = flight /\ open' = open /\ delivered' = delivered
      /\ queue' = queue /\ sender' = sender
    BY DEF Extract, clientVars
<1>3. StreamTypes /\ StreamTypes' /\ WayTypes /\ WayTypes'
    BY StreamTyped, WayTyped, TypedNext DEF IInv
<1>4. p \in Packet /\ Tail(inbuf[c]) \in Seq(Packet) /\ inbuf[c] = Cat(<<p>>, Tail(inbuf[c]))
    BY <1>1, <1>3, HeadThenTail DEF StreamTypes, Cat
<1>5. /\ inbuf'[c] = Tail(inbuf[c])
      /\ \A s \in Session : s # c => inbuf'[s] = inbuf[s]
    BY <1>1 DEF Extract, IInv, TypeOK
<1>6. /\ data'[e].session = c /\ data'[e].packet = p
      /\ \A d \in Element : d # e => data'[d] = data[d]
    BY <1>1 DEF Extract, IInv, TypeOK
<1> HIDE DEF c, e, p
<1>7. Way' = Append(Way, e)
    <2> DEFINE q == (IF sender.pc = "send" THEN <<sender.element>> ELSE <<>>) \o queue
    <2>1. Way = q \o <<>> /\ Way' = q \o <<e>>
        BY <1>1, <1>2 DEF Way
    <2>2. q \in Seq(Element)
        BY ConcatProperties DEF IInv, TypeOK
    <2> HIDE DEF q
    <2>3. Way = q /\ Append(q, e) = q \o <<e>>
        BY <1>1, <2>1, <2>2, ConcatEmptySeq, AppendIsConcat
    <2>4. QED
        BY <2>1, <2>3
<1>8. /\ Way \in Seq(Element) /\ Len(Way) \in Nat
      /\ Way' \in Seq(Element) /\ Len(Way') = Len(Way) + 1 /\ Way'[Len(Way) + 1] = e
      /\ \A i \in 1 .. Len(Way) : Way'[i] = Way[i]
    <2>1. Way \in Seq(Element)
        BY <1>3 DEF WayTypes
    <2>2. QED
        BY <1>1, <1>7, <2>1, AppendProperties, LenProperties
<1>9. ASSUME NEW i \in 1 .. Len(Way) PROVE Way[i] \in Element /\ Way[i] # e
    <2>1. InHand(e)
        BY <1>1 DEF InHand, e
    <2>2. Way[i] \in Element /\ (Queued(Way[i]) \/ Leaving(Way[i]))
        BY <1>1, <1>3, <1>8, ElementOfSeq DEF WayTypes, Leaving
    <2>3. QED
        BY <2>1, <2>2 DEF IInv, OneOwner
<1>10. OnlyGood'
    <2>1. ASSUME NEW i \in 1 .. Len(Way')
          PROVE  data'[Way'[i]].session \in Session /\ data'[Way'[i]].packet # Bad
        <3>1. CASE i = Len(Way) + 1
            BY <1>1, <1>6, <1>8, <3>1 DEF p
        <3>2. CASE i \in 1 .. Len(Way)
            BY <1>6, <1>8, <1>9, <3>2 DEF StreamInv, OnlyGood
        <3>3. QED
            BY <1>8, <3>1, <3>2
    <2>2. QED
        BY <2>1 DEF OnlyGood
<1>11. FirstDelivered'
    BY <1>2 DEF StreamInv, FirstDelivered
<1>12. ASSUME NEW s \in Session
       PROVE  Mine(s)' = Append(Mine(s), IF s = c THEN p ELSE Bad)
    <2>1. data' \in Contents /\ Mine(s)' = Part(Way', data', s) /\ Mine(s) = Part(Way, data, s)
        BY <1>3 DEF StreamTypes
    <2>2. Part(Append(Way, e), data', s) = Append(Part(Way, data', s), PartOf(data', e, s))
        BY <1>1, <1>8, <2>1, PartAppend
    <2>3. \A i \in 1 .. Len(Way) : data'[Way[i]] = data[Way[i]]
        BY <1>6, <1>9
    <2>4. Part(Way, data', s) = Part(Way, data, s)
        BY <1>8, <2>3, PartOther
    <2>5. PartOf(data', e, s) = IF s = c THEN p ELSE Bad
        BY <1>6 DEF PartOf
    <2>6. QED
        BY <1>7, <2>1, <2>2, <2>4, <2>5
<1>13. ASSUME NEW s \in Session PROVE ClientInv(s)'
    <2> DEFINE a == delivered[s]
               m == Mine(s)
               b == inbuf[s]
               f == flight[s]
    <2>1. /\ a \in Seq(Packet) /\ m \in Seq(Packet) /\ b \in Seq(Packet) /\ f \in Seq(Packet)
          /\ ClientInv(s)
        BY <1>3, StreamParts DEF StreamTypes
    <2>2. Taken(s) = Whole(a, m, b) /\ Stream(s) = Through(a, m, b, f)
        BY WholeIs
    <2>3. CASE s = c
        <3> DEFINE t == Tail(b)
        <3>1. /\ Mine(s)' = Append(m, p) /\ inbuf'[s] = t
              /\ b = Cat(<<p>>, t) /\ t \in Seq(Packet)
            BY <1>4, <1>5, <1>12, <2>3
        <3>2. /\ Taken(s)' = Whole(a, Append(m, p), t)
              /\ Stream(s)' = Through(a, Append(m, p), t, f)
            BY <1>2, <3>1, WholeIsNext
        <3> HIDE DEF a, m, b, f, t
        <3>3. Whole(a, Append(m, p), t) = Whole(a, m, b)
            BY <1>4, <2>1, <3>1, Moves
        <3>4. Taken(s)' = Taken(s) /\ Stream(s)' = Stream(s)
            BY <2>2, <3>2, <3>3 DEF Through
        <3>5. QED
            BY <1>2, <2>1, <3>4, SameClient
    <2>4. CASE s # c
        <3>1. Mine(s)' = Append(m, Bad) /\ inbuf'[s] = b
            BY <1>5, <1>12, <2>4
        <3>2. /\ Taken(s)' = Whole(a, Append(m, Bad), b)
              /\ Stream(s)' = Through(a, Append(m, Bad), b, f)
            BY <1>2, <3>1, WholeIsNext
        <3> HIDE DEF a, m, b, f
        <3>3. \A n \in Nat :
                  /\ InOrder(Whole(a, Append(m, Bad), b), n) <=> InOrder(Whole(a, m, b), n)
                  /\ InOrder(Through(a, Append(m, Bad), b, f), n) <=> InOrder(Through(a, m, b, f), n)
            BY <2>1, BadOnTheWay
        <3>4. \A n \in Nat : /\ InOrder(Taken(s)', n) <=> InOrder(Taken(s), n)
                             /\ InOrder(Stream(s)', n) <=> InOrder(Stream(s), n)
            BY <2>2, <3>2, <3>3
        <3>5. QED
            BY <1>2, <2>1, <3>4, SameClient
    <2>5. QED
        BY <2>3, <2>4
<1>14. QED
    BY <1>10, <1>11, <1>13, StreamPartsNext

\* What SendSocketMsgS sends is the next packet of its client.
LEMMA DeliverNext ==
    IInv /\ StreamInv /\ IInv' /\ Deliver =>
        LET c == data[sender.element].session
            p == data[sender.element].packet
        IN  /\ c \in Session
            /\ p = Len(delivered[c]) + 1 /\ p <= sent[c]
            /\ delivered' = [delivered EXCEPT ![c] = Append(@, p)]
            /\ Way = <<sender.element>> \o Way' /\ data' = data
            /\ \A s \in Session :
                  Mine(s) = Cat(<<IF s = c THEN p ELSE Bad>>, Mine(s)')
<1> SUFFICES ASSUME IInv, StreamInv, IInv', Deliver
             PROVE  LET c == data[sender.element].session
                        p == data[sender.element].packet
                    IN  /\ c \in Session
                        /\ p = Len(delivered[c]) + 1 /\ p <= sent[c]
                        /\ delivered' = [delivered EXCEPT ![c] = Append(@, p)]
                        /\ Way = <<sender.element>> \o Way' /\ data' = data
                        /\ \A s \in Session :
                              Mine(s) = Cat(<<IF s = c THEN p ELSE Bad>>, Mine(s)')
    OBVIOUS
<1> DEFINE e == sender.element
           c == data[e].session
           p == data[e].packet
<1>1. /\ e \in Element /\ p \in Packet /\ sender.pc = "send" /\ sender'.pc = "free"
      /\ queue' = queue /\ worker' = worker /\ data' = data
      /\ delivered' = [delivered EXCEPT ![c] = Append(@, p)]
    BY DEF Deliver, poolVars, IInv, TypeOK
<1>2. StreamTypes /\ StreamTypes' /\ WayTypes /\ WayTypes'
    BY StreamTyped, WayTyped, TypedNext DEF IInv
<1> HIDE DEF e, c, p
<1>3. Way = <<e>> \o Way'
    <2> DEFINE l == IF worker.pc = "push" THEN <<worker.element>> ELSE <<>>
    <2>1. Way = (<<e>> \o queue) \o l /\ Way' = (<<>> \o queue) \o l
        BY <1>1 DEF Way, e
    <2>2. queue \in Seq(Element) /\ <<e>> \in Seq(Element) /\ l \in Seq(Element)
        BY <1>1 DEF IInv, TypeOK, ThreadsInv
    <2> HIDE DEF l
    <2>3. <<>> \o queue = queue /\ (<<e>> \o queue) \o l = <<e>> \o (queue \o l)
        BY <2>2, ConcatEmptySeq, ConcatAssociative
    <2>4. QED
        BY <2>1, <2>3
<1>4. Way' \in Seq(Element) /\ Way \in Seq(Element) /\ Way[1] = e /\ 1 \in 1 .. Len(Way)
    <2> DEFINE w == Way'
    <2>1. w \in Seq(Element) /\ Way \in Seq(Element) /\ Way = <<e>> \o w
        BY <1>2, <1>3 DEF WayTypes
    <2> HIDE DEF w
    <2>2. <<e>> \in Seq(Element) /\ Len(<<e>>) = 1 /\ <<e>>[1] = e
        BY <1>1
    <2>3. (<<e>> \o w)[1] = e /\ Len(<<e>> \o w) = 1 + Len(w) /\ Len(w) \in Nat
        BY <2>1, <2>2, ConcatProperties, LenProperties
    <2>4. QED
        BY <2>1, <2>3 DEF w
<1>5. c \in Session /\ p # Bad
    BY <1>4 DEF StreamInv, OnlyGood, c, p
<1>6. ASSUME NEW s \in Session
      PROVE  Mine(s) = Cat(<<IF s = c THEN p ELSE Bad>>, Mine(s)')
    <2>1. data \in Contents /\ Mine(s)' = Part(Way', data, s) /\ Mine(s) = Part(Way, data, s)
        BY <1>1, <1>2 DEF StreamTypes
    <2> DEFINE w == Way'
    <2>2. w \in Seq(Element) /\ Way = <<e>> \o w
        BY <1>3, <1>4
    <2> HIDE DEF w
    <2>3. Part(<<e>> \o w, data, s) = <<PartOf(data, e, s)>> \o Part(w, data, s)
        BY <1>1, <2>1, <2>2, PartFirst
    <2>4. PartOf(data, e, s) = IF s = c THEN p ELSE Bad
        BY DEF PartOf, c, p
    <2>5. QED
        BY <2>1, <2>2, <2>3, <2>4 DEF Cat, w
<1>7. p = Len(delivered[c]) + 1 /\ p <= sent[c]
    <2>0. SUFFICES ASSUME NEW s \in Session, s = c
                   PROVE  p = Len(delivered[s]) + 1 /\ p <= sent[s]
        BY <1>5
    <2> DEFINE a == delivered[s]
               m == Mine(s)'
               b == inbuf[s]
    <2>1. PICK n \in 0 .. sent[s] : InOrder(Taken(s), n)
        BY TakenInOrder
    <2>2. sent[s] \in Nat /\ a \in Seq(Packet) /\ m \in Seq(Packet) /\ b \in Seq(Packet)
        BY <1>2 DEF StreamTypes
    <2>3. Taken(s) = Whole(a, Cat(<<p>>, m), b)
        BY <1>6, <2>0, WholeIs
    <2>4. \A i \in 1 .. Len(a) : a[i] = i
        BY DEF StreamInv, FirstDelivered
    <2> HIDE DEF a, m, b
    <2>5. Taken(s) = Cat(a, Cat(<<p>>, Cat(m, b))) /\ Cat(m, b) \in Seq(Packet)
        BY <1>1, <2>2, <2>3, Moves, CatType
    <2>6. n \in Nat /\ InOrder(a \o (<<p>> \o Cat(m, b)), n)
        BY <2>1, <2>2, <2>5 DEF Cat
    <2>7. p = Len(a) + 1 /\ p \in 1 .. n
        BY <1>1, <1>5, <2>2, <2>4, <2>5, <2>6, InOrderNext
    <2>8. QED
        BY <2>2, <2>7 DEF a
<1>8. QED
    BY <1>1, <1>3, <1>5, <1>6, <1>7 DEF c, p, e

\* It moves from the way to the server; no other client has it.
LEMMA DeliverKeeps == IInv /\ StreamInv /\ IInv' /\ Deliver => StreamInv'
<1> SUFFICES ASSUME IInv, StreamInv, IInv', Deliver PROVE StreamInv'
    OBVIOUS
<1> DEFINE e == sender.element
           c == data[e].session
           p == data[e].packet
<1>1. /\ c \in Session
      /\ p = Len(delivered[c]) + 1 /\ p <= sent[c]
      /\ delivered' = [delivered EXCEPT ![c] = Append(@, p)]
      /\ Way = <<e>> \o Way' /\ data' = data
      /\ \A s \in Session : Mine(s) = Cat(<<IF s = c THEN p ELSE Bad>>, Mine(s)')
    BY DeliverNext
<1>2. /\ sent' = sent /\ flight' = flight /\ open' = open /\ inbuf' = inbuf
      /\ e \in Element /\ p \in Packet
    BY DEF Deliver, clientVars, sessionVars, IInv, TypeOK
<1>3. StreamTypes /\ StreamTypes' /\ WayTypes /\ WayTypes'
    BY StreamTyped, WayTyped, TypedNext DEF IInv
<1> HIDE DEF e, c, p
<1>4. /\ delivered'[c] = Append(delivered[c], p)
      /\ \A s \in Session : s # c => delivered'[s] = delivered[s]
    BY <1>1 DEF IInv, TypeOK
<1>5. OnlyGood'
    <2> DEFINE w == Way'
    <2>1. w \in Seq(Element) /\ Way = <<e>> \o w
        BY <1>1, <1>3 DEF WayTypes
    <2> HIDE DEF w
    <2>2. <<e>> \in Seq(Element) /\ Len(<<e>>) = 1
        BY <1>2
    <2>3. /\ Len(w) \in Nat /\ Len(<<e>> \o w) = 1 + Len(w)
          /\ \A i \in 1 .. 1 + Len(w) : (<<e>> \o w)[i] = IF i <= 1 THEN <<e>>[i] ELSE w[i - 1]
        BY <2>1, <2>2, ConcatProperties, LenProperties
    <2>4. ASSUME NEW i \in 1 .. Len(w) PROVE w[i] = Way[i + 1] /\ i + 1 \in 1 .. Len(Way)
        <3>1. i + 1 \in 1 .. 1 + Len(w) /\ ~(i + 1 <= 1) /\ (i + 1) - 1 = i
            BY <2>3
        <3>2. QED
            BY <2>1, <2>3, <3>1
    <2>5. \A i \in 1 .. Len(w) : data'[w[i]].session \in Session /\ data'[w[i]].packet # Bad
        BY <1>1, <2>4 DEF StreamInv, OnlyGood
    <2>6. QED
        BY <2>5 DEF OnlyGood, w
<1>6. FirstDelivered'
    <2>1. ASSUME NEW s \in Session, NEW i \in 1 .. Len(delivered'[s])
          PROVE  delivered'[s][i] = i
        <3>1. delivered[s] \in Seq(Packet) /\ \A j \in 1 .. Len(delivered[s]) : delivered[s][j] = j
            BY <1>3 DEF StreamTypes, StreamInv, FirstDelivered
        <3>2. CASE s = c
            <4> DEFINE a == delivered[s]
            <4>1. delivered'[s] = Append(a, p) /\ p = Len(a) + 1
                BY <1>1, <1>4, <3>2
            <4>2. a \in Seq(Packet) /\ \A j \in 1 .. Len(a) : a[j] = j
                BY <3>1
            <4> HIDE DEF a
            <4>3. /\ Len(a) \in Nat /\ Len(Append(a, p)) = Len(a) + 1
                  /\ Append(a, p)[Len(a) + 1] = p
                  /\ \A j \in 1 .. Len(a) : Append(a, p)[j] = a[j]
                BY <1>2, <4>2, AppendProperties, LenProperties
            <4>4. i = Len(a) + 1 \/ i \in 1 .. Len(a)
                BY <2>1, <4>1, <4>3
            <4>5. QED
                BY <4>1, <4>2, <4>3, <4>4
        <3>3. CASE s # c
            BY <1>4, <2>1, <3>1, <3>3
        <3>4. QED
            BY <3>2, <3>3
    <2>2. QED
        BY <2>1 DEF FirstDelivered
<1>7. ASSUME NEW s \in Session PROVE ClientInv(s)'
    <2> DEFINE a == delivered[s]
               m == Mine(s)'
               b == inbuf[s]
               f == flight[s]
    <2>1. /\ a \in Seq(Packet) /\ m \in Seq(Packet) /\ b \in Seq(Packet) /\ f \in Seq(Packet)
          /\ ClientInv(s)
        BY <1>3, StreamParts DEF StreamTypes
    <2>2. CASE s = c
        <3>1. Mine(s) = Cat(<<p>>, m) /\ delivered'[s] = Append(a, p)
            BY <1>1, <1>4, <2>2
        <3>2. /\ Taken(s) = Whole(a, Cat(<<p>>, m), b)
              /\ Stream(s) = Through(a, Cat(<<p>>, m), b, f)
            BY <3>1, WholeIs
        <3>3. Taken(s)' = Whole(Append(a, p), m, b) /\ Stream(s)' = Through(Append(a, p), m, b, f)
            BY <1>2, <3>1, WholeIsNext
        <3> HIDE DEF a, m, b, f
        <3>4. Whole(Append(a, p), m, b) = Whole(a, Cat(<<p>>, m), b)
            BY <1>2, <2>1, Moves
        <3>5. Taken(s)' = Taken(s) /\ Stream(s)' = Stream(s)
            BY <3>2, <3>3, <3>4 DEF Through
        <3>6. QED
            BY <1>2, <2>1, <3>5, SameClient
    <2>3. CASE s # c
        <3>1. Mine(s) = Cat(<<Bad>>, m) /\ delivered'[s] = a
            BY <1>1, <1>4, <2>3
        <3>2. /\ Taken(s) = Whole(a, Cat(<<Bad>>, m), b)
              /\ Stream(s) = Through(a, Cat(<<Bad>>, m), b, f)
            BY <3>1, WholeIs
        <3>3. Taken(s)' = Whole(a, m, b) /\ Stream(s)' = Through(a, m, b, f)
            BY <1>2, <3>1, WholeIsNext
        <3> HIDE DEF a, m, b, f
        <3>4. \A n \in Nat :
                  /\ InOrder(Whole(a, Cat(<<Bad>>, m), b), n) <=> InOrder(Whole(a, m, b), n)
                  /\ InOrder(Through(a, Cat(<<Bad>>, m), b, f), n) <=> InOrder(Through(a, m, b, f), n)
            BY <2>1, BadOnTheWay
        <3>5. \A n \in Nat : /\ InOrder(Taken(s)', n) <=> InOrder(Taken(s), n)
                             /\ InOrder(Stream(s)', n) <=> InOrder(Stream(s), n)
            BY <3>2, <3>3, <3>4
        <3>6. QED
            BY <1>2, <2>1, <3>5, SameClient
    <2>4. QED
        BY <2>2, <2>3
<1>8. QED
    BY <1>5, <1>6, <1>7, StreamPartsNext

-----------------------------------------------------------------------------
(* The order of the packets, and the channel the gate is.                  *)

\* At first nothing has been sent and nothing is there.
LEMMA InitStreamInv == Init => StreamInv
<1> SUFFICES ASSUME Init PROVE StreamInv
    OBVIOUS
<1>1. Way = (<<>> \o <<>>) \o <<>>
    BY DEF Init, Way, Idle
<1>2. <<>> \in Seq(Element) /\ Len(<<>>) = 0
    OBVIOUS
<1>3. Way = <<>>
    BY <1>1, <1>2, ConcatEmptySeq
<1>4. OnlyGood
    BY <1>2, <1>3 DEF OnlyGood
<1>5. FirstDelivered
    BY <1>2 DEF Init, FirstDelivered
<1>6. ASSUME NEW s \in Session PROVE ClientInv(s)
    <2>1. Mine(s) = <<>>
        <3>1. Mine(s) = Part(Way, data, s) /\ Mine(s) \in Seq(Packet)
            BY InitIInv, StreamTyped DEF IInv, StreamTypes
        <3>2. Len(Mine(s)) = 0
            BY <1>2, <1>3 DEF Mine
        <3>3. QED
            BY <3>1, <3>2, EmptySeq
    <2>2. Stream(s) = ((<<>> \o <<>>) \o <<>>) \o <<>> /\ sent[s] = 0 /\ s \in open
        BY <2>1 DEF Init, Stream, Taken
    <2>3. Stream(s) = <<>>
        BY <1>2, <2>2, ConcatEmptySeq
    <2>4. InOrder(<<>>, 0)
        BY DEF InOrder
    <2>5. QED
        BY <2>2, <2>3, <2>4 DEF ClientInv
<1>7. QED
    BY <1>4, <1>5, <1>6, InitIInv, StreamParts

\* Every step keeps the clients' packets in order.
LEMMA StreamStep == IInv /\ StreamInv /\ [Next]_vars => StreamInv'
<1> SUFFICES ASSUME IInv, StreamInv, [Next]_vars PROVE StreamInv'
    OBVIOUS
<1>1. IInv'
    BY TypeStep, ThreadsStep, OwnersStep DEF IInv
<1>2. CASE Quiet
    BY <1>1, <1>2, QuietKeeps
<1>3. CASE Extract
    BY <1>1, <1>3, ExtractKeeps
<1>4. CASE Deliver
    BY <1>1, <1>4, DeliverKeeps
<1>5. Quiet \/ Extract \/ Deliver
    BY DEF Next, Work, Forward, Quiet
<1>6. QED
    BY <1>2, <1>3, <1>4, <1>5

\* What is where on the way of a client's packets, whatever the worker and
\* ThreadFuncForMsg do: the invariant the order rests on.
THEOREM StreamInvariance == Spec => [](IInv /\ StreamInv)
<1>1. IInv /\ [Next]_vars => IInv'
    BY TypeStep, ThreadsStep, OwnersStep DEF IInv
<1>2. QED
    BY <1>1, StreamStep, InitIInv, InitStreamInv, PTL DEF Spec

\* From buffer to pool to queue to the game server no packet of an open session
\* is lost, doubled or overtaken (ExtractPacket, PushQ, SendSocketMsgS).
THEOREM NothingLostHolds == Spec => []NothingLost
<1>1. StreamInv => NothingLost
    BY DEF StreamInv
<1>2. QED
    BY <1>1, StreamInvariance, PTL

\* A step sends a packet, hands the server the next one, or is not seen.
LEMMA ChannelStep ==
    IInv /\ StreamInv /\ [Next]_vars => [Uplink!Next]_<<sent, delivered>>
<1> SUFFICES ASSUME IInv, StreamInv, [Next]_vars
             PROVE  Uplink!Next \/ UNCHANGED <<sent, delivered>>
    OBVIOUS
<1>1. IInv'
    BY TypeStep, ThreadsStep, OwnersStep DEF IInv
<1>2. ASSUME NEW s \in Session, SendGood(s) PROVE Uplink!Next
    <2>1. Uplink!Send(s)
        BY <1>2 DEF SendGood, Uplink!Send
    <2>2. QED
        BY <2>1 DEF Uplink!Next
<1>3. CASE Deliver
    <2> DEFINE c == data[sender.element].session
               p == data[sender.element].packet
    <2>1. /\ c \in Session
          /\ p = Len(delivered[c]) + 1 /\ p <= sent[c]
          /\ delivered' = [delivered EXCEPT ![c] = Append(@, p)]
        BY <1>1, <1>3, DeliverNext
    <2>2. sent' = sent /\ Len(delivered[c]) \in Nat /\ sent[c] \in Nat
        BY <1>3, <2>1, LenProperties DEF Deliver, clientVars, IInv, TypeOK
    <2> HIDE DEF c, p
    <2>3. delivered' = [delivered EXCEPT ![c] = Append(@, Len(@) + 1)]
        BY <2>1
    <2>4. Uplink!Deliver(c)
        BY <2>1, <2>2, <2>3 DEF Uplink!Deliver
    <2>5. QED
        BY <2>1, <2>4 DEF Uplink!Next
<1>4. ASSUME NEW s \in Session, SendBad(s) \/ HangUp(s) \/ Receive(s)
      PROVE  UNCHANGED <<sent, delivered>>
    BY <1>4 DEF SendBad, HangUp, Receive, clientVars
<1>5. CASE \/ Look \/ NoElement \/ Extract \/ Reject \/ Push
           \/ Drain \/ Pop \/ Free \/ UNCHANGED vars
    BY <1>5 DEF Look, NoElement, Extract, Reject, Push, Drain, Pop, Free, vars, clientVars
<1>6. QED
    BY <1>2, <1>3, <1>4, <1>5 DEF Next, Work, Forward

\* The gate, with its buffers, its pool without a lock and its queue, is to
\* every client a channel that delivers in order: what the server gets of a
\* client is always the next of the packets sent.
THEOREM UplinkRefines == Spec => UplinkSpec
<1>1. Init => Uplink!Init
    BY DEF Init, Uplink!Init
<1>2. QED
    BY <1>1, ChannelStep, StreamInvariance, PTL DEF Spec, UplinkSpec, Uplink!Spec

=============================================================================
