--------------------------- MODULE DownlinkProofs ---------------------------
(***************************************************************************)
(* The way of a packet to its client, for every number of packets and      *)
(* sessions and every size of the buffers: the gate stays in step with the *)
(* messages, a reply is always in one place, and packets arrive in order.  *)
(***************************************************************************)
EXTENDS Downlink, FiniteSetTheorems, SequenceTheorems, TLAPS

USE DownlinkAssumption
-----------------------------------------------------------------------------
(* The inductive invariant.                                                *)

\* The send buffer belongs to the main loop, or to the WSASend under way; what
\* it holds is as long as what the main loop has copied.
SendInv ==
    /\ doSending <=> wire # "none"
    /\ wire # "none" => main.pc = "scan"
    /\ main.pc = "scan" => main = Scan
    /\ main.pc = "fill" <=> main.packet # 0
    /\ bufLen <= Len(buf)
    /\ main.pc # "scan" => bufLen = main.dwSend
    /\ main.pc = "scan" /\ wire = "none" => bufLen = 0
    /\ wire = "cleared" => bufLen = 0

\* pszData is inside the receive buffer.
ReadInv ==
    /\ reader.at <= Len(recvBuf)
    /\ reader.pc = "receive" => reader = WSARecv

\* What the gate has put into a session's send buffer, in order.
Passed(s) == got[s] \o out[s]

\* Wherever a packet is, it has been pushed.
PushedInv ==
    /\ \A i \in 1 .. Len(Waiting) : Waiting[i] \in 1 .. Len(mail)
    /\ \A i \in 1 .. Len(Pipe) : Pipe[i].packet \in 1 .. Len(mail)
    /\ \A s \in Session :
          /\ \A i \in 1 .. Len(Passed(s)) : Passed(s)[i] \in 1 .. Len(mail)
          /\ \A i \in 1 .. Len(dropped[s]) : dropped[s][i] \in 1 .. Len(mail)

\* A cell comes before another in the stream.
Earlier(c, d) == c.packet < d.packet \/ (c.packet = d.packet /\ c.place < d.place)

\* Only a broadcast may come again.
NotAfter(posts, p, q) == p < q \/ (p = q /\ posts[p].broadcast)

\* The packets stand in line: the ones passed on, the pipe, the ones that wait.
QueueLine(queue) == \A i, j \in 1 .. Len(queue) : i < j => queue[i] < queue[j]
PipeLine(cells, queue) ==
    /\ \A i, j \in 1 .. Len(cells) : i < j => Earlier(cells[i], cells[j])
    /\ \A i \in 1 .. Len(cells), j \in 1 .. Len(queue) : cells[i].packet < queue[j]
PassedLine(posts, passed, cells, queue) ==
    /\ \A i, j \in 1 .. Len(passed) : i < j => NotAfter(posts, passed[i], passed[j])
    /\ \A i \in 1 .. Len(passed), j \in 1 .. Len(cells) :
            NotAfter(posts, passed[i], cells[j].packet)
    /\ \A i \in 1 .. Len(passed), j \in 1 .. Len(queue) : passed[i] < queue[j]
LineInv ==
    ~requeued =>
        /\ QueueLine(Waiting)
        /\ PipeLine(Pipe, Waiting)
        /\ \A s \in Session : PassedLine(mail, Passed(s), Pipe, Waiting)

IInv ==
    /\ TypeOK /\ SendInv /\ ReadInv
    /\ PushedInv /\ InStep /\ NothingLost /\ LineInv
-----------------------------------------------------------------------------
(* Sequences of packets and of cells.                                      *)

\* A range of indices, and the same range further on.
LEMMA Shifted ==
    ASSUME NEW n \in Nat, NEW S \in SUBSET (1 .. n), NEW d \in Nat
    PROVE  LET T == {i + d : i \in S}
           IN  IsFiniteSet(T) /\ Cardinality(T) = Cardinality(S)
<1> DEFINE T == {i + d : i \in S}
           f == [i \in S |-> i + d]
<1>1. IsFiniteSet(S)
    <2>1. IsFiniteSet(1 .. n)
        BY FS_Interval
    <2>2. QED
        BY <2>1, FS_Subset
<1>2. f \in Bijection(S, T)
    <2>1. f \in [S -> T]
        OBVIOUS
    <2>2. \A i, j \in S : f[i] = f[j] => i = j
        OBVIOUS
    <2>3. \A t \in T : \E i \in S : f[i] = t
        OBVIOUS
    <2>4. QED
        BY <2>1, <2>2, <2>3, Zenon DEF Bijection, Injection, Surjection, IsInjective
<1>3. ExistsBijection(S, T)
    BY <1>2 DEF ExistsBijection
<1>4. QED
    BY <1>1, <1>3, FS_Bijection

\* How often something comes is a number.
LEMMA TimesNat ==
    ASSUME NEW S, NEW s \in Seq(S), NEW x
    PROVE  Times(x, s) \in Nat
<1>1. DOMAIN s = 1 .. Len(s) /\ Len(s) \in Nat
    BY LenProperties
<1>2. IsFiniteSet({i \in DOMAIN s : s[i] = x})
    <2>1. IsFiniteSet(1 .. Len(s))
        BY <1>1, FS_Interval
    <2>2. QED
        BY <1>1, <2>1, FS_Subset
<1>3. QED
    BY <1>2, FS_CardinalityType DEF Times

\* In two sequences one after the other, it comes as often as in both.
LEMMA TimesConcat ==
    ASSUME NEW S, NEW s \in Seq(S), NEW t \in Seq(S), NEW x
    PROVE  Times(x, s \o t) = Times(x, s) + Times(x, t)
<1> DEFINE A == {i \in 1 .. Len(s) : s[i] = x}
           B == {i \in 1 .. Len(t) : t[i] = x}
           C == {i + Len(s) : i \in B}
<1>1. Len(s) \in Nat /\ Len(t) \in Nat /\ DOMAIN s = 1 .. Len(s) /\ DOMAIN t = 1 .. Len(t)
    BY LenProperties
<1>2. /\ s \o t \in Seq(S) /\ Len(s \o t) = Len(s) + Len(t)
      /\ \A i \in 1 .. Len(s) + Len(t) :
            (s \o t)[i] = IF i <= Len(s) THEN s[i] ELSE t[i - Len(s)]
    BY ConcatProperties
<1>3. DOMAIN (s \o t) = 1 .. Len(s) + Len(t)
    BY <1>2, LenProperties
<1>4. {i \in DOMAIN (s \o t) : (s \o t)[i] = x} = A \cup C
    <2>1. ASSUME NEW i \in 1 .. Len(s) + Len(t)
          PROVE  (s \o t)[i] = x <=> i \in A \cup C
        <3>1. CASE i <= Len(s)
            <4>1. i \in 1 .. Len(s) /\ i \notin C
                BY <1>1, <3>1
            <4>2. (s \o t)[i] = s[i]
                BY <1>2, <3>1
            <4>3. QED
                BY <4>1, <4>2
        <3>2. CASE ~(i <= Len(s))
            <4>1. i \notin 1 .. Len(s) /\ i - Len(s) \in 1 .. Len(t) /\ i = (i - Len(s)) + Len(s)
                BY <1>1, <3>2
            <4>2. (s \o t)[i] = t[i - Len(s)]
                BY <1>2, <3>2
            <4>3. \A j \in B : j + Len(s) = i => j = i - Len(s)
                BY <1>1
            <4>4. i \in C <=> i - Len(s) \in B
                BY <4>1, <4>3
            <4>5. QED
                BY <4>1, <4>2, <4>4
        <3>3. QED
            BY <3>1, <3>2
    <2>2. A \cup C \subseteq 1 .. Len(s) + Len(t)
        BY <1>1
    <2>3. QED
        BY <1>3, <2>1, <2>2
<1>5. IsFiniteSet(A) /\ IsFiniteSet(B)
    <2>1. IsFiniteSet(1 .. Len(s)) /\ IsFiniteSet(1 .. Len(t))
        BY <1>1, FS_Interval
    <2>2. QED
        BY <2>1, FS_Subset
<1>6. IsFiniteSet(C) /\ Cardinality(C) = Cardinality(B)
    BY <1>1, Shifted
<1>7. A \cap C = {}
    BY <1>1
<1>8. Cardinality(A \cup C) = Cardinality(A) + Cardinality(C) - Cardinality(A \cap C)
    BY <1>5, <1>6, FS_Union
<1>9. Cardinality(A) \in Nat /\ Cardinality(B) \in Nat
    BY <1>5, FS_CardinalityType
<1>10. Cardinality(A \cup C) = Cardinality(A) + Cardinality(B)
    <2>1. Cardinality(A \cap C) = 0
        BY <1>7, FS_EmptySet
    <2> HIDE DEF A, B, C
    <2>2. QED
        BY <1>6, <1>8, <1>9, <2>1
<1>11. QED
    BY <1>1, <1>4, <1>10 DEF Times

\* Nothing comes in an empty sequence.
LEMMA TimesEmpty == \A x : Times(x, <<>>) = 0
<1>1. \A x : {i \in DOMAIN <<>> : <<>>[i] = x} = {}
    BY EmptySeq, LenProperties
<1>2. QED
    BY <1>1, FS_EmptySet DEF Times

\* One element.
LEMMA TimesOne == ASSUME NEW x, NEW y PROVE Times(x, <<y>>) = IF x = y THEN 1 ELSE 0
<1>1. DOMAIN <<y>> = {1} /\ <<y>>[1] = y
    OBVIOUS
<1>2. {i \in DOMAIN <<y>> : <<y>>[i] = x} = IF x = y THEN {1} ELSE {}
    BY <1>1
<1>3. QED
    BY <1>2, FS_Singleton, FS_EmptySet DEF Times

\* What comes nowhere comes no time.
LEMMA TimesNone ==
    ASSUME NEW S, NEW s \in Seq(S), NEW x, \A i \in 1 .. Len(s) : s[i] # x
    PROVE  Times(x, s) = 0
<1>1. {i \in DOMAIN s : s[i] = x} = {}
    BY LenProperties
<1>2. QED
    BY <1>1, FS_EmptySet DEF Times

\* One more element at the end.
LEMMA TimesAppend ==
    ASSUME NEW S, NEW s \in Seq(S), NEW x, NEW y \in S
    PROVE  Times(x, Append(s, y)) = Times(x, s) + (IF x = y THEN 1 ELSE 0)
<1>1. Append(s, y) = s \o <<y>> /\ <<y>> \in Seq(S)
    BY AppendIsConcat
<1>2. Times(x, s \o <<y>>) = Times(x, s) + Times(x, <<y>>)
    BY <1>1, TimesConcat
<1>3. Times(x, <<y>>) = IF x = y THEN 1 ELSE 0
    BY TimesOne
<1>4. QED
    BY <1>1, <1>2, <1>3

\* The size of a packet that has been pushed.
LEMMA SizeOf ==
    ASSUME mail \in Seq(Packet), NEW p \in 1 .. Len(mail)
    PROVE  /\ mail[p] \in Packet
           /\ Size(p) \in Nat /\ 1 <= Size(p) /\ Size(p) <= HeaderSize + MaxLength
<1>1. mail[p] \in Packet
    BY ElementOfSeq
<1>2. mail[p].length \in 0 .. MaxLength
    BY <1>1 DEF Packet
<1>3. QED
    BY <1>1, <1>2 DEF Size

\* The message that carries a packet.
LEMMA CellsOf ==
    ASSUME mail \in Seq(Packet), NEW p \in Number, p \in 1 .. Len(mail)
    PROVE  /\ Cells(p) \in Seq(Cell)
           /\ Len(Cells(p)) = Size(p)
           /\ \A i \in 1 .. Size(p) : Cells(p)[i] = [packet |-> p, place |-> i - 1]
<1>1. Size(p) \in Nat /\ Size(p) <= HeaderSize + MaxLength
    BY SizeOf
<1>2. \A i \in 1 .. Size(p) : [packet |-> p, place |-> i - 1] \in Cell
    BY <1>1 DEF Cell
<1>3. Cells(p) \in [1 .. Size(p) -> Cell]
    BY <1>2 DEF Cells
<1>4. Cells(p) \in Seq(Cell) /\ Len(Cells(p)) = Size(p)
    BY <1>1, <1>3
<1>5. QED
    BY <1>4 DEF Cells

\* It has one first cell.
LEMMA TimesCells ==
    ASSUME mail \in Seq(Packet), NEW p \in Number, p \in 1 .. Len(mail), NEW q
    PROVE  Times([packet |-> q, place |-> 0], Cells(p)) = IF q = p THEN 1 ELSE 0
<1>1. Size(p) \in Nat /\ 1 <= Size(p)
    BY SizeOf
<1>2. DOMAIN Cells(p) = 1 .. Size(p)
    BY DEF Cells
<1>3. \A i \in 1 .. Size(p) :
        Cells(p)[i] = [packet |-> q, place |-> 0] <=> i = 1 /\ q = p
    <2>1. \A i \in 1 .. Size(p) : Cells(p)[i] = [packet |-> p, place |-> i - 1]
        BY CellsOf
    <2>2. \A m, n \in Int :
            [packet |-> p, place |-> m] = [packet |-> q, place |-> n] <=> q = p /\ m = n
        OBVIOUS
    <2>3. ASSUME NEW i \in 1 .. Size(p)
          PROVE  Cells(p)[i] = [packet |-> q, place |-> 0] <=> i = 1 /\ q = p
        <3>1. i - 1 \in Int /\ 0 \in Int /\ (i - 1 = 0 <=> i = 1)
            BY <1>1
        <3>2. [packet |-> p, place |-> i - 1] = [packet |-> q, place |-> 0] <=> q = p /\ i - 1 = 0
            BY <2>2, <3>1
        <3>3. Cells(p)[i] = [packet |-> p, place |-> i - 1]
            BY <2>1
        <3>4. QED
            BY <3>1, <3>2, <3>3
    <2>4. QED
        BY <2>3
<1>4. {i \in DOMAIN Cells(p) : Cells(p)[i] = [packet |-> q, place |-> 0]}
        = IF q = p THEN {1} ELSE {}
    BY <1>1, <1>2, <1>3
<1>5. QED
    BY <1>4, FS_Singleton, FS_EmptySet DEF Times

\* Numbers in a cell.
LEMMA CellNumbers == \A c \in Cell : c.packet \in Nat /\ c.place \in Nat
BY DEF Cell, Number

\* Packets one after the other are whole if they are whole.
LEMMA WholeConcat ==
    ASSUME mail \in Seq(Packet), NEW s \in Seq(Cell), NEW t \in Seq(Cell),
           \A i \in 1 .. Len(s) : s[i].packet \in 1 .. Len(mail),
           \A i \in 1 .. Len(t) : t[i].packet \in 1 .. Len(mail),
           WholePackets(s), WholePackets(t)
    PROVE  WholePackets(s \o t)
<1>1. Len(s) \in Nat /\ Len(t) \in Nat
    BY LenProperties
<1>2. /\ s \o t \in Seq(Cell) /\ Len(s \o t) = Len(s) + Len(t)
      /\ \A i \in 1 .. Len(s) + Len(t) :
            (s \o t)[i] = IF i <= Len(s) THEN s[i] ELSE t[i - Len(s)]
    BY ConcatProperties
<1>3. ASSUME NEW i \in 1 .. Len(s) + Len(t)
      PROVE  LET first == i - (s \o t)[i].place
                 size == Size((s \o t)[i].packet)
             IN  /\ 1 <= first /\ i < first + size /\ first + size <= Len(s) + Len(t) + 1
                 /\ \A k \in 0 .. size - 1 :
                        (s \o t)[first + k] = [packet |-> (s \o t)[i].packet, place |-> k]
    <2>1. CASE i <= Len(s)
        <3> DEFINE first == i - s[i].place
                   size == Size(s[i].packet)
        <3>1. i \in 1 .. Len(s) /\ (s \o t)[i] = s[i]
            BY <1>1, <1>2, <2>1
        <3>2. /\ 1 <= first /\ i < first + size /\ first + size <= Len(s) + 1
              /\ \A k \in 0 .. size - 1 : s[first + k] = [packet |-> s[i].packet, place |-> k]
            BY <3>1 DEF WholePackets
        <3>3. first \in Int /\ size \in Nat
            <4>1. s[i] \in Cell
                BY <3>1, ElementOfSeq
            <4>2. s[i].place \in Nat /\ s[i].packet \in 1 .. Len(mail)
                BY <3>1, <4>1, CellNumbers
            <4>3. QED
                BY <1>1, <4>2, SizeOf
        <3> HIDE DEF first, size
        <3>4. first + size <= Len(s) + Len(t) + 1
            BY <1>1, <3>2, <3>3
        <3>5. ASSUME NEW k \in 0 .. size - 1
              PROVE  (s \o t)[first + k] = s[first + k]
            <4>1. first + k \in 1 .. Len(s) + Len(t) /\ first + k <= Len(s)
                BY <1>1, <3>2, <3>3
            <4>2. QED
                BY <1>2, <4>1
        <3>6. QED
            BY <3>1, <3>2, <3>4, <3>5 DEF first, size
    <2>2. CASE ~(i <= Len(s))
        <3> DEFINE j == i - Len(s)
                   first == j - t[j].place
                   size == Size(t[j].packet)
        <3>1. j \in 1 .. Len(t) /\ (s \o t)[i] = t[j]
            BY <1>1, <1>2, <2>2
        <3>2. /\ 1 <= first /\ j < first + size /\ first + size <= Len(t) + 1
              /\ \A k \in 0 .. size - 1 : t[first + k] = [packet |-> t[j].packet, place |-> k]
            BY <3>1 DEF WholePackets
        <3>3. t[j].place \in Nat /\ size \in Nat
            <4>1. t[j] \in Cell
                BY <3>1, ElementOfSeq
            <4>2. t[j].place \in Nat /\ t[j].packet \in 1 .. Len(mail)
                BY <3>1, <4>1, CellNumbers
            <4>3. QED
                BY <1>1, <4>2, SizeOf
        <3>4. i - t[j].place = Len(s) + first /\ first \in Int /\ i = Len(s) + j
            BY <1>1, <3>3
        <3> HIDE DEF first, size, j
        <3>5. /\ 1 <= Len(s) + first /\ i < Len(s) + first + size
              /\ Len(s) + first + size <= Len(s) + Len(t) + 1
            BY <1>1, <3>1, <3>2, <3>3, <3>4
        <3>6. ASSUME NEW k \in 0 .. size - 1
              PROVE  (s \o t)[Len(s) + first + k] = t[first + k]
            <4>1. /\ Len(s) + first + k \in 1 .. Len(s) + Len(t)
                  /\ ~(Len(s) + first + k <= Len(s))
                  /\ (Len(s) + first + k) - Len(s) = first + k
                <5> DEFINE a == Len(s)
                           b == Len(t)
                <5>1. a \in Nat /\ b \in Nat /\ first \in Int /\ size \in Nat
                      /\ 1 <= first /\ first + size <= b + 1
                    BY <1>1, <3>2, <3>3, <3>4
                <5> HIDE DEF a, b
                <5>2. a + first + k \in 1 .. a + b /\ ~(a + first + k <= a)
                      /\ (a + first + k) - a = first + k
                    BY <5>1
                <5>3. QED
                    BY <5>2 DEF a, b
            <4>2. QED
                BY <1>2, <4>1
        <3>7. /\ (s \o t)[i] = t[j] /\ i - t[j].place = Len(s) + first
              /\ \A k \in 0 .. size - 1 :
                    (s \o t)[Len(s) + first + k] = [packet |-> t[j].packet, place |-> k]
            BY <3>1, <3>2, <3>4, <3>6
        <3>8. QED
            BY <3>5, <3>7 DEF size
    <2>3. QED
        BY <2>1, <2>2
<1>4. QED
    BY <1>2, <1>3 DEF WholePackets

\* The message that carries a packet is a whole one.
LEMMA WholeCells ==
    ASSUME mail \in Seq(Packet), NEW p \in Number, p \in 1 .. Len(mail)
    PROVE  WholePackets(Cells(p))
<1>1. Size(p) \in Nat /\ 1 <= Size(p)
    BY SizeOf
<1>2. /\ Len(Cells(p)) = Size(p)
      /\ \A i \in 1 .. Size(p) : Cells(p)[i] = [packet |-> p, place |-> i - 1]
    BY CellsOf
<1>3. ASSUME NEW i \in 1 .. Size(p)
      PROVE  /\ Cells(p)[i].packet = p /\ i - Cells(p)[i].place = 1
             /\ i < 1 + Size(p)
             /\ \A k \in 0 .. Size(p) - 1 : Cells(p)[1 + k] = [packet |-> p, place |-> k]
    <2>1. Cells(p)[i].packet = p /\ Cells(p)[i].place = i - 1
        BY <1>2
    <2>2. ASSUME NEW k \in 0 .. Size(p) - 1
          PROVE  Cells(p)[1 + k] = [packet |-> p, place |-> k]
        <3>1. 1 + k \in 1 .. Size(p) /\ (1 + k) - 1 = k
            BY <1>1
        <3>2. QED
            BY <1>2, <3>1
    <2>3. QED
        BY <1>1, <2>1, <2>2
<1>4. QED
    BY <1>1, <1>2, <1>3 DEF WholePackets

\* Whole packets begin with a whole packet.
LEMMA WholeFirst ==
    ASSUME mail \in Seq(Packet), NEW s \in Seq(Cell), s # <<>>,
           \A i \in 1 .. Len(s) : s[i].packet \in 1 .. Len(mail),
           WholePackets(s)
    PROVE  /\ s[1].packet \in Number /\ s[1].packet \in 1 .. Len(mail)
           /\ s[1].place = 0
           /\ Size(s[1].packet) <= Len(s)
           /\ \A i \in 1 .. Size(s[1].packet) : s[i] = Cells(s[1].packet)[i]
<1> DEFINE p == s[1].packet
           n == Size(p)
<1>1. Len(s) \in Nat /\ Len(s) >= 1 /\ 1 \in 1 .. Len(s)
    BY EmptySeq, LenProperties
<1>2. s[1] \in Cell /\ p \in 1 .. Len(mail)
    BY <1>1, ElementOfSeq
<1>3. s[1].place \in Nat /\ p \in Number
    BY <1>2, CellNumbers DEF Cell
<1>4. n \in Nat /\ n >= 1
    BY <1>2, SizeOf
<1>5. /\ 1 <= 1 - s[1].place
      /\ (1 - s[1].place) + n <= Len(s) + 1
      /\ \A k \in 0 .. n - 1 : s[(1 - s[1].place) + k] = [packet |-> p, place |-> k]
    BY <1>1 DEF WholePackets
<1>6. s[1].place = 0
    BY <1>3, <1>5
<1>7. n <= Len(s)
    BY <1>1, <1>4, <1>5, <1>6
<1>8. \A i \in 1 .. n : Cells(p)[i] = [packet |-> p, place |-> i - 1]
    BY <1>2, <1>3, CellsOf
<1>9. ASSUME NEW i \in 1 .. n
      PROVE  s[i] = Cells(p)[i]
    <2>1. i - 1 \in 0 .. n - 1 /\ (1 - s[1].place) + (i - 1) = i
        BY <1>4, <1>6
    <2>2. QED
        BY <1>5, <1>8, <2>1
<1>10. QED
    BY <1>2, <1>3, <1>6, <1>7, <1>9

\* Behind a whole packet they are whole.
LEMMA WholeRest ==
    ASSUME mail \in Seq(Packet), NEW p \in Number, p \in 1 .. Len(mail), NEW t \in Seq(Cell),
           \A i \in 1 .. Len(t) : t[i].packet \in 1 .. Len(mail),
           WholePackets(Cells(p) \o t)
    PROVE  WholePackets(t)
<1> DEFINE n == Size(p)
           s == Cells(p) \o t
<1>1. n \in Nat /\ n >= 1
    BY SizeOf
<1>2. /\ Cells(p) \in Seq(Cell) /\ Len(Cells(p)) = n
      /\ \A i \in 1 .. n : Cells(p)[i] = [packet |-> p, place |-> i - 1]
    BY CellsOf
<1>3. Len(t) \in Nat
    BY LenProperties
<1>4. /\ Len(s) = n + Len(t)
      /\ \A i \in 1 .. n + Len(t) : s[i] = IF i <= n THEN Cells(p)[i] ELSE t[i - n]
    <2>1. /\ Len(s) = Len(Cells(p)) + Len(t)
          /\ \A i \in 1 .. Len(Cells(p)) + Len(t) :
                s[i] = IF i <= Len(Cells(p)) THEN Cells(p)[i] ELSE t[i - Len(Cells(p))]
        BY <1>2, ConcatProperties
    <2> HIDE DEF s, n
    <2>2. QED
        BY <1>2, <2>1
<1>5. WholePackets(s)
    OBVIOUS
<1> HIDE DEF s, n
<1>6. ASSUME NEW j \in 1 .. Len(t)
      PROVE  LET first == j - t[j].place
                 size == Size(t[j].packet)
             IN  /\ 1 <= first /\ j < first + size /\ first + size <= Len(t) + 1
                 /\ \A k \in 0 .. size - 1 :
                        t[first + k] = [packet |-> t[j].packet, place |-> k]
    <2> DEFINE i == j + n
               at == t[j].place
               q == t[j].packet
               size == Size(q)
               first == i - at
    <2>1. at \in Nat /\ q \in 1 .. Len(mail)
        BY ElementOfSeq, CellNumbers
    <2>2. size \in Nat /\ size >= 1
        BY <2>1, SizeOf
    <2>3. i \in 1 .. n + Len(t) /\ ~(i <= n) /\ i - n = j
        BY <1>1, <1>3
    <2>4. s[i] = t[j]
        BY <1>4, <2>3
    <2>5. /\ 1 <= first /\ i < first + size /\ first + size <= n + Len(t) + 1
          /\ \A k \in 0 .. size - 1 : s[first + k] = [packet |-> q, place |-> k]
        BY <1>4, <1>5, <2>3, <2>4 DEF WholePackets
    <2>6. first \in Int /\ first - n = j - at
        BY <1>1, <2>1
    <2> HIDE DEF first, size
    <2>7. first > n
        <3>1. SUFFICES ASSUME first <= n PROVE FALSE
            BY <1>1, <2>6
        <3>2. 0 \in 0 .. size - 1 /\ first + 0 = first /\ first \in 1 .. n /\ first \in 1 .. n + Len(t)
            BY <1>1, <1>3, <2>2, <2>5, <2>6, <3>1
        <3>3. s[first] = [packet |-> q, place |-> 0]
            BY <2>5, <3>2
        <3>4. s[first] = [packet |-> p, place |-> first - 1]
            BY <1>2, <1>4, <3>1, <3>2
        <3>5. q = p /\ first - 1 = 0
            <4>1. s[first].packet = q /\ s[first].place = 0
                BY <3>3
            <4>2. s[first].packet = p /\ s[first].place = first - 1
                BY <3>4
            <4>3. QED
                BY <4>1, <4>2
        <3>6. size = n
            BY <3>5 DEF size, n
        <3>7. i < first + size /\ first \in Int
            BY <2>5, <2>6
        <3>8. i > n /\ i \in Int
            BY <1>1, <1>3
        <3>9. first = 1
            BY <3>5, <3>7
        <3> HIDE DEF i
        <3>10. QED
            BY <1>1, <3>6, <3>7, <3>8, <3>9
    <2>8. /\ 1 <= first - n /\ j < (first - n) + size /\ (first - n) + size <= Len(t) + 1
        <3>1. j + n < first + size /\ first + size <= n + Len(t) + 1 /\ first > n
            BY <2>5, <2>7
        <3>2. n \in Nat /\ j \in Int /\ first \in Int /\ size \in Nat /\ Len(t) \in Nat
            BY <1>1, <1>3, <2>2, <2>6
        <3> HIDE DEF i
        <3>3. QED
            BY <3>1, <3>2
    <2>9. ASSUME NEW k \in 0 .. size - 1
          PROVE  t[(first - n) + k] = [packet |-> q, place |-> k]
        <3>1. first + k \in 1 .. n + Len(t) /\ ~(first + k <= n) /\ (first + k) - n = (first - n) + k
            BY <1>1, <1>3, <2>2, <2>5, <2>6, <2>7
        <3>2. s[first + k] = t[(first - n) + k]
            BY <1>4, <3>1
        <3>3. QED
            BY <2>5, <3>2
    <2>10. QED
        BY <2>6, <2>8, <2>9 DEF size
<1>7. QED
    BY <1>6 DEF WholePackets
-----------------------------------------------------------------------------
(* Types.                                                                  *)

\* The pipe and the queue are sequences.
LEMMA PipeTypes ==
    TypeOK /\ SendInv /\ ReadInv =>
        /\ Unread \in Seq(Cell) /\ Len(Unread) = BytesRECV
        /\ \A i \in 1 .. BytesRECV : Unread[i] = recvBuf[reader.at + i]
        /\ SubSeq(buf, 1, bufLen) \in Seq(Cell) /\ Len(SubSeq(buf, 1, bufLen)) = bufLen
        /\ Unsent \in Seq(Cell)
        /\ Pipe \in Seq(Cell)
        /\ Waiting \in Seq(Number)
<1> SUFFICES ASSUME TypeOK, SendInv, ReadInv
             PROVE  /\ Unread \in Seq(Cell) /\ Len(Unread) = BytesRECV
                    /\ \A i \in 1 .. BytesRECV : Unread[i] = recvBuf[reader.at + i]
                    /\ SubSeq(buf, 1, bufLen) \in Seq(Cell) /\ Len(SubSeq(buf, 1, bufLen)) = bufLen
                    /\ Unsent \in Seq(Cell)
                    /\ Pipe \in Seq(Cell)
                    /\ Waiting \in Seq(Number)
    OBVIOUS
<1>1. Unread \in Seq(Cell) /\ Len(Unread) = BytesRECV
      /\ \A i \in 1 .. BytesRECV : Unread[i] = recvBuf[reader.at + i]
    <2>1. reader.at \in Nat /\ Len(recvBuf) \in Nat /\ reader.at <= Len(recvBuf)
          /\ recvBuf \in Seq(Cell)
        BY LenProperties DEF TypeOK, ReadInv
    <2>2. \A i \in reader.at + 1 .. Len(recvBuf) : recvBuf[i] \in Cell
        BY <2>1, ElementOfSeq
    <2>3. reader.at + 1 \in Int /\ Len(recvBuf) \in Int
        BY <2>1
    <2>4. /\ Unread \in Seq(Cell)
          /\ Len(Unread) = IF reader.at + 1 <= Len(recvBuf)
                           THEN Len(recvBuf) - (reader.at + 1) + 1 ELSE 0
          /\ \A i \in 1 .. Len(recvBuf) - (reader.at + 1) + 1 :
                Unread[i] = recvBuf[reader.at + 1 + i - 1]
        BY <2>2, <2>3, SubSeqProperties DEF Unread
    <2>5. \A i \in 1 .. BytesRECV : reader.at + 1 + i - 1 = reader.at + i
        BY <2>1
    <2>6. Len(recvBuf) - (reader.at + 1) + 1 = BytesRECV
        BY <2>1 DEF BytesRECV
    <2>7. Len(Unread) = BytesRECV
        BY <2>1, <2>4, <2>6 DEF BytesRECV
    <2>8. QED
        BY <2>4, <2>5, <2>6, <2>7
<1>2. SubSeq(buf, 1, bufLen) \in Seq(Cell) /\ Len(SubSeq(buf, 1, bufLen)) = bufLen
    <2>1. bufLen \in Nat /\ bufLen <= Len(buf) /\ Len(buf) \in Nat /\ buf \in Seq(Cell)
        BY LenProperties DEF TypeOK, SendInv
    <2>2. \A i \in 1 .. bufLen : buf[i] \in Cell
        BY <2>1, ElementOfSeq
    <2>3. SubSeq(buf, 1, bufLen) \in Seq(Cell)
          /\ Len(SubSeq(buf, 1, bufLen)) = IF 1 <= bufLen THEN bufLen - 1 + 1 ELSE 0
        BY <2>1, <2>2, SubSeqProperties
    <2>4. QED
        BY <2>1, <2>3
<1>3. Unsent \in Seq(Cell)
    BY <1>2, EmptySeq DEF Unsent
<1>4. stream \in Seq(Cell)
    BY DEF TypeOK
<1>5. Unread \o stream \in Seq(Cell)
    BY <1>1, <1>4, ConcatProperties
<1>6. Pipe \in Seq(Cell)
    BY <1>3, <1>5, ConcatProperties DEF Pipe
<1>7. Waiting \in Seq(Number)
    <2>1. sendQ \in Seq(Number) /\ <<>> \in Seq(Number)
        BY EmptySeq DEF TypeOK
    <2>2. main.pc = "fill" => main.packet \in Number
        BY DEF TypeOK, SendInv
    <2>3. main.pc = "fill" => <<main.packet>> \in Seq(Number)
        BY <2>2
    <2>4. (IF main.pc = "fill" THEN <<main.packet>> ELSE <<>>) \in Seq(Number)
        BY <2>1, <2>3
    <2>5. QED
        BY <2>1, <2>4, ConcatProperties DEF Waiting
<1>8. QED
    BY <1>1, <1>2, <1>3, <1>6, <1>7

\* The queue and what is in the main loop's hand.
LEMMA WaitingIs ==
    TypeOK /\ SendInv =>
        /\ main.pc # "fill" => Waiting = sendQ
        /\ main.pc = "fill" => Waiting = <<main.packet>> \o sendQ /\ main.packet \in Number
<1> SUFFICES ASSUME TypeOK, SendInv
             PROVE  /\ main.pc # "fill" => Waiting = sendQ
                    /\ main.pc = "fill" => Waiting = <<main.packet>> \o sendQ /\ main.packet \in Number
    OBVIOUS
<1>1. sendQ \in Seq(Number)
    BY DEF TypeOK
<1>2. <<>> \o sendQ = sendQ
    BY <1>1, ConcatEmptySeq
<1>3. main.pc = "fill" => main.packet \in Number
    BY DEF TypeOK, SendInv
<1>4. QED
    BY <1>2, <1>3 DEF Waiting

\* A queue is its first element and the rest.
LEMMA HeadAndTail ==
    ASSUME NEW S, NEW s \in Seq(S), s # <<>>
    PROVE  /\ Head(s) \in S /\ Tail(s) \in Seq(S)
           /\ <<Head(s)>> \o Tail(s) = s
<1>1. /\ Head(s) \in S /\ Tail(s) \in Seq(S) /\ Len(s) \in Nat /\ Len(s) >= 1
      /\ Len(Tail(s)) = Len(s) - 1
      /\ \A i \in 1 .. Len(Tail(s)) : Tail(s)[i] = s[i + 1]
    BY EmptySeq, HeadTailProperties, LenProperties
<1>2. <<Head(s)>> \in Seq(S) /\ Len(<<Head(s)>>) = 1 /\ <<Head(s)>>[1] = s[1]
    BY <1>1
<1>3. /\ <<Head(s)>> \o Tail(s) \in Seq(S)
      /\ Len(<<Head(s)>> \o Tail(s)) = Len(<<Head(s)>>) + Len(Tail(s))
      /\ \A i \in 1 .. Len(<<Head(s)>>) + Len(Tail(s)) :
            (<<Head(s)>> \o Tail(s))[i] = IF i <= Len(<<Head(s)>>) THEN <<Head(s)>>[i]
                                          ELSE Tail(s)[i - Len(<<Head(s)>>)]
    BY <1>1, <1>2, ConcatProperties
<1>4. Len(<<Head(s)>> \o Tail(s)) = Len(s)
    BY <1>1, <1>2, <1>3
<1>5. ASSUME NEW i \in 1 .. Len(s)
      PROVE  (<<Head(s)>> \o Tail(s))[i] = s[i]
    <2>1. CASE i = 1
        BY <1>1, <1>2, <1>3, <2>1
    <2>2. CASE i # 1
        <3>1. i - 1 \in 1 .. Len(Tail(s)) /\ ~(i <= 1) /\ (i - 1) + 1 = i /\ i \in 1 .. 1 + Len(Tail(s))
            BY <1>1, <2>2
        <3>2. QED
            BY <1>1, <1>2, <1>3, <3>1
    <2>3. QED
        BY <2>1, <2>2
<1>6. QED
    BY <1>1, <1>3, <1>4, <1>5, SeqEqual

\* The message the gate handles next is the first of the pipe.
LEMMA AtHandIs ==
    TypeOK /\ SendInv /\ ReadInv /\ PushedInv /\ HasMessage =>
        /\ AtHand \in Number /\ AtHand \in 1 .. Len(mail)
        /\ Size(AtHand) \in Nat /\ 1 <= Size(AtHand) /\ Size(AtHand) <= BytesRECV
        /\ Pipe # <<>> /\ AtHand = Pipe[1].packet
        /\ \A i \in 1 .. BytesRECV : i \in 1 .. Len(Pipe) /\ Pipe[i] = Unread[i]
<1> SUFFICES ASSUME TypeOK, SendInv, ReadInv, PushedInv, HasMessage
             PROVE  /\ AtHand \in Number /\ AtHand \in 1 .. Len(mail)
                    /\ Size(AtHand) \in Nat /\ 1 <= Size(AtHand) /\ Size(AtHand) <= BytesRECV
                    /\ Pipe # <<>> /\ AtHand = Pipe[1].packet
                    /\ \A i \in 1 .. BytesRECV : i \in 1 .. Len(Pipe) /\ Pipe[i] = Unread[i]
    OBVIOUS
<1>1. /\ Unread \in Seq(Cell) /\ Len(Unread) = BytesRECV
      /\ \A i \in 1 .. BytesRECV : Unread[i] = recvBuf[reader.at + i]
      /\ Unsent \in Seq(Cell) /\ Pipe \in Seq(Cell)
    BY PipeTypes
<1>2. BytesRECV \in Nat /\ BytesRECV >= 1
    <2>1. BytesRECV \in Nat
        BY <1>1, LenProperties
    <2>2. QED
        BY <2>1 DEF HasMessage
<1>3. stream \in Seq(Cell)
    BY DEF TypeOK
<1>4. /\ Unread \o stream \in Seq(Cell)
      /\ Len(Unread \o stream) = BytesRECV + Len(stream) /\ Len(stream) \in Nat
      /\ \A i \in 1 .. BytesRECV : (Unread \o stream)[i] = Unread[i]
    <2>1. Len(stream) \in Nat
        BY <1>3, LenProperties
    <2>2. /\ Unread \o stream \in Seq(Cell)
          /\ Len(Unread \o stream) = Len(Unread) + Len(stream)
          /\ \A i \in 1 .. Len(Unread) + Len(stream) :
                (Unread \o stream)[i] = IF i <= Len(Unread) THEN Unread[i] ELSE stream[i - Len(Unread)]
        BY <1>1, <1>3, ConcatProperties
    <2>3. \A i \in 1 .. BytesRECV : i \in 1 .. BytesRECV + Len(stream) /\ i <= BytesRECV
        BY <1>2, <2>1
    <2>4. QED
        BY <1>1, <2>1, <2>2, <2>3
<1>5. \A i \in 1 .. BytesRECV : i \in 1 .. Len(Pipe) /\ Pipe[i] = Unread[i]
    <2>1. Len(Unsent) \in Nat
        BY <1>1, LenProperties
    <2>2. /\ Len(Pipe) = Len(Unread \o stream) + Len(Unsent)
          /\ \A i \in 1 .. Len(Unread \o stream) + Len(Unsent) :
                Pipe[i] = IF i <= Len(Unread \o stream) THEN (Unread \o stream)[i]
                          ELSE Unsent[i - Len(Unread \o stream)]
        BY <1>1, <1>4, ConcatProperties DEF Pipe
    <2>3. \A i \in 1 .. BytesRECV : /\ i \in 1 .. BytesRECV + Len(stream) + Len(Unsent)
                                    /\ i <= BytesRECV + Len(stream)
        BY <1>2, <1>4, <2>1
    <2>4. QED
        BY <1>4, <2>2, <2>3
<1>6. 1 \in 1 .. BytesRECV /\ 1 \in 1 .. Len(Pipe) /\ Pipe[1] = Unread[1]
    BY <1>2, <1>5
<1>7. AtHand = Pipe[1].packet
    BY <1>1, <1>6 DEF AtHand
<1>8. Pipe[1] \in Cell /\ Pipe[1].packet \in 1 .. Len(mail)
    BY <1>1, <1>6, ElementOfSeq DEF PushedInv
<1>9. AtHand \in Number
    BY <1>7, <1>8 DEF Cell
<1>10. mail \in Seq(Packet)
    BY DEF TypeOK
<1>11. Size(AtHand) \in Nat /\ 1 <= Size(AtHand)
    BY <1>7, <1>8, <1>10, SizeOf
<1>12. Pipe # <<>>
    BY <1>1, <1>6, EmptySeq
<1>13. QED
    BY <1>5, <1>7, <1>8, <1>9, <1>11, <1>12 DEF HasMessage

\* Pushing a packet keeps the types.
LEMMA TypePush ==
    ASSUME TypeOK, SendInv, ReadInv, NEW packet \in Packet, Push(packet)
    PROVE  TypeOK' /\ SendInv' /\ ReadInv'
<1> USE DEF serverVars, gateVars
<1>1. mail \in Seq(Packet) /\ sendQ \in Seq(Number) /\ Len(mail) \in Nat
    BY LenProperties DEF TypeOK
<1>2. mail' \in Seq(Packet) /\ Len(mail') = Len(mail) + 1
    BY <1>1, AppendProperties DEF Push
<1>3. Len(mail') \in Number
    BY <1>1, <1>2 DEF Push, Number
<1>4. sendQ' \in Seq(Number)
    BY <1>1, <1>3, AppendProperties DEF Push
<1>5. TypeOK'
    BY <1>2, <1>4 DEF Push, TypeOK
<1>6. QED
    BY <1>5 DEF Push, SendInv, ReadInv

\* A packet of a handler is a packet.
LEMMA PushedIs ==
    TypeOK /\ (Reply \/ Chat) =>
        \E packet \in Packet : Push(packet)
<1>1. ASSUME Reply PROVE \E packet \in Packet : Push(packet)
    <2>1. PICK s \in Session, n \in 0 .. MaxLength :
            Push([broadcast |-> FALSE, to |-> s, length |-> n,
                  list |-> [i \in 1 .. ListSize |-> Nobody]])
        BY <1>1 DEF Reply
    <2>2. [broadcast |-> FALSE, to |-> s, length |-> n,
           list |-> [i \in 1 .. ListSize |-> Nobody]] \in Packet
        BY DEF Packet
    <2>3. QED
        BY <2>1, <2>2
<1>2. ASSUME Chat PROVE \E packet \in Packet : Push(packet)
    <2>1. PICK s \in Session, list \in [1 .. ListSize -> Session \cup {Nobody}] :
            Push([broadcast |-> TRUE, to |-> s, length |-> MaxLength, list |-> list])
        BY <1>2 DEF Chat
    <2>2. [broadcast |-> TRUE, to |-> s, length |-> MaxLength, list |-> list] \in Packet
        BY DEF Packet
    <2>3. QED
        BY <2>1, <2>2
<1>3. QED
    BY <1>1, <1>2

\* The main loop keeps the types.
LEMMA TypeMainLoop ==
    TypeOK /\ SendInv /\ ReadInv /\ PushedInv /\ MainLoop => TypeOK' /\ SendInv' /\ ReadInv'
<1> SUFFICES ASSUME TypeOK, SendInv, ReadInv, PushedInv, MainLoop
             PROVE  TypeOK' /\ SendInv' /\ ReadInv'
    OBVIOUS
<1> USE DEF serverVars, gateVars
<1>0. /\ mail \in Seq(Packet) /\ sendQ \in Seq(Number) /\ buf \in Seq(Cell) /\ bufLen \in Nat
      /\ main \in [pc : {"scan", "fill", "send"}, packet : Number \cup {0}, dwSend : 0 .. GateSize]
      /\ 0 \notin Number
    BY DEF TypeOK, Number
<1>1. ReadInv'
    BY DEF MainLoop, Start, Fill, PutBack, Send, ReadInv, WSARecv
<1>2. sendQ # <<>> => Head(sendQ) \in Number /\ Tail(sendQ) \in Seq(Number)
    BY <1>0, HeadAndTail
<1>3. CASE Start
    <2>1. main' \in [pc : {"scan", "fill", "send"}, packet : Number \cup {0}, dwSend : 0 .. GateSize]
          /\ main'.pc = "fill" /\ main'.packet = Head(sendQ) /\ main'.dwSend = main.dwSend
        BY <1>0, <1>2, <1>3 DEF Start, TakeNext
    <2>2. sendQ' \in Seq(Number)
        BY <1>2, <1>3 DEF Start, TakeNext
    <2>3. TypeOK'
        BY <1>3, <2>1, <2>2 DEF Start, TypeOK
    <2>4. main.dwSend = 0 /\ bufLen = 0
        BY <1>3 DEF Start, SendInv, Scan
    <2>5. SendInv'
        BY <1>0, <1>2, <1>3, <2>1, <2>4 DEF Start, SendInv, Scan
    <2>6. QED
        BY <1>1, <2>3, <2>5
<1>4. CASE Fill
    <2> DEFINE p == main.packet
               n == main.dwSend + Size(p)
    <2>1. p \in Number /\ Waiting = <<p>> \o sendQ
        BY <1>4, WaitingIs DEF Fill
    <2>2. p \in 1 .. Len(mail)
        <3>1. <<p>> \in Seq(Number) /\ Len(<<p>>) = 1 /\ <<p>>[1] = p
            BY <2>1
        <3>2. Len(sendQ) \in Nat
            BY <1>0, LenProperties
        <3>3. Len(Waiting) = 1 + Len(sendQ) /\ Waiting[1] = p
            <4>1. /\ Len(<<p>> \o sendQ) = Len(<<p>>) + Len(sendQ)
                  /\ \A i \in 1 .. Len(<<p>>) + Len(sendQ) :
                        (<<p>> \o sendQ)[i] = IF i <= Len(<<p>>) THEN <<p>>[i] ELSE sendQ[i - Len(<<p>>)]
                BY <1>0, <3>1, ConcatProperties
            <4>2. QED
                BY <2>1, <3>1, <3>2, <4>1
        <3>4. QED
            BY <3>2, <3>3 DEF PushedInv
    <2>3. /\ Size(p) \in Nat /\ 1 <= Size(p)
          /\ Cells(p) \in Seq(Cell) /\ Len(Cells(p)) = Size(p)
        BY <1>0, <2>1, <2>2, SizeOf, CellsOf
    <2>4. n \in 0 .. GateSize /\ bufLen = main.dwSend
        BY <1>0, <1>4, <2>3 DEF Fill, Fits, SendInv
    <2>5. buf' \in Seq(Cell) /\ Len(buf') = n /\ bufLen' = n
        <3>1. SubSeq(buf, 1, bufLen) \in Seq(Cell) /\ Len(SubSeq(buf, 1, bufLen)) = bufLen
            BY PipeTypes
        <3>2. buf' = SubSeq(buf, 1, bufLen) \o Cells(p) /\ bufLen' = bufLen + Size(p)
            BY <1>4 DEF Fill
        <3>3. QED
            BY <2>3, <2>4, <3>1, <3>2, ConcatProperties
    <2>6. /\ sendQ = <<>> => main' = [pc |-> "send", packet |-> 0, dwSend |-> n] /\ sendQ' = sendQ
          /\ sendQ # <<>> => /\ main' = [pc |-> "fill", packet |-> Head(sendQ), dwSend |-> n]
                             /\ sendQ' = Tail(sendQ)
        BY <1>4 DEF Fill
    <2> HIDE DEF n, p
    <2>7. main' \in [pc : {"scan", "fill", "send"}, packet : Number \cup {0}, dwSend : 0 .. GateSize]
          /\ main'.dwSend = n /\ main'.pc \in {"fill", "send"} /\ (main'.pc = "fill" <=> main'.packet # 0)
        BY <1>0, <1>2, <2>4, <2>6
    <2>8. sendQ' \in Seq(Number)
        BY <1>0, <1>2, <2>6
    <2>9. TypeOK'
        <3>1. UNCHANGED <<mail, doSending, requeued, wire, stream, recvBuf, reader,
                          out, filled, dropped, got>>
            BY <1>4 DEF Fill
        <3>2. n \in Nat /\ n <= GateSize
            BY <2>4
        <3>3. Len(buf') <= GateSize /\ bufLen' \in 0 .. GateSize
            BY <2>5, <3>2
        <3>4. QED
            BY <2>5, <2>7, <2>8, <3>1, <3>3 DEF TypeOK
    <2>10. SendInv'
        <3>1. UNCHANGED <<doSending, wire>> /\ main.pc = "fill"
            BY <1>4 DEF Fill
        <3>2. wire = "none" /\ ~doSending
            BY <3>1 DEF SendInv
        <3>3. n \in Nat
            BY <2>4
        <3>4. QED
            BY <2>5, <2>7, <3>1, <3>2, <3>3 DEF SendInv
    <2>11. QED
        BY <1>1, <2>9, <2>10
<1>5. CASE PutBack
    <2>1. main.packet \in Number
        BY <1>5, WaitingIs DEF PutBack
    <2>2. sendQ' \in Seq(Number)
        BY <1>0, <1>5, <2>1, AppendProperties DEF PutBack
    <2>3. main' \in [pc : {"scan", "fill", "send"}, packet : Number \cup {0}, dwSend : 0 .. GateSize]
          /\ main'.pc = "send" /\ main'.packet = 0 /\ main'.dwSend = main.dwSend
        BY <1>0, <1>5 DEF PutBack
    <2>4. requeued' \in BOOLEAN
        BY <1>5 DEF PutBack, TypeOK
    <2>5. TypeOK'
        BY <1>5, <2>2, <2>3, <2>4 DEF PutBack, TypeOK
    <2>6. SendInv'
        BY <1>5, <2>3 DEF PutBack, SendInv
    <2>7. QED
        BY <1>1, <2>5, <2>6
<1>6. CASE Send
    <2>1. main' = Scan /\ UNCHANGED <<buf, bufLen>> /\ bufLen = main.dwSend /\ main.pc = "send"
        BY <1>6 DEF Send, SendInv
    <2>2. TypeOK'
        <3>1. doSending' \in BOOLEAN /\ wire' \in {"none", "sending", "sent", "cleared"}
            BY <1>6 DEF Send, TypeOK
        <3>2. main' \in [pc : {"scan", "fill", "send"}, packet : Number \cup {0}, dwSend : 0 .. GateSize]
            BY <2>1 DEF Scan
        <3>3. QED
            BY <1>6, <3>1, <3>2 DEF Send, TypeOK
    <2>3. main'.pc = "scan" /\ main'.packet = 0 /\ main' = Scan /\ main'.pc # "fill"
        BY <2>1 DEF Scan
    <2>4. bufLen' <= Len(buf')
        BY <2>1 DEF SendInv
    <2>5. CASE main.dwSend # 0
        <3>1. (doSending' <=> wire' # "none") /\ wire' = "sending"
            BY <1>6, <2>5, Zenon DEF Send
        <3>2. wire' # "none" /\ wire' # "cleared"
            BY <3>1
        <3>3. QED
            BY <1>1, <2>2, <2>3, <2>4, <3>1, <3>2 DEF SendInv
    <2>6. CASE main.dwSend = 0
        <3>1. UNCHANGED <<doSending, wire>>
            BY <1>6, <2>6 DEF Send
        <3>2. (doSending' <=> wire' # "none") /\ (wire' = "cleared" => bufLen' = 0)
            BY <2>1, <3>1 DEF SendInv
        <3>3. bufLen' = 0
            BY <2>1, <2>6
        <3>4. QED
            BY <1>1, <2>2, <2>3, <2>4, <3>2, <3>3 DEF SendInv
    <2>7. QED
        BY <1>1, <2>2, <2>5, <2>6
<1>7. QED
    BY <1>3, <1>4, <1>5, <1>6 DEF MainLoop

\* The completion of the send keeps the types.
LEMMA TypeComplete ==
    TypeOK /\ SendInv /\ ReadInv /\ Complete => TypeOK' /\ SendInv' /\ ReadInv'
<1> SUFFICES ASSUME TypeOK, SendInv, ReadInv, Complete
             PROVE  TypeOK' /\ SendInv' /\ ReadInv'
    OBVIOUS
<1> USE DEF serverVars, gateVars
<1>1. stream \in Seq(Cell) /\ SubSeq(buf, 1, bufLen) \in Seq(Cell) /\ Len(buf) \in Nat
    BY PipeTypes, LenProperties DEF TypeOK
<1>2. CASE Transmit
    <2>1. stream' \in Seq(Cell)
        BY <1>1, <1>2, ConcatProperties DEF Transmit
    <2>2. QED
        BY <1>2, <2>1 DEF Transmit, TypeOK, SendInv, ReadInv
<1>3. CASE Clear
    <2>1. bufLen' = 0 /\ 0 \in 0 .. GateSize /\ 0 <= Len(buf)
        BY <1>1, <1>3 DEF Clear
    <2>2. TypeOK'
        BY <1>3, <2>1 DEF Clear, TypeOK
    <2>3. SendInv'
        BY <1>3, <2>1 DEF Clear, SendInv
    <2>4. QED
        BY <1>3, <2>2, <2>3 DEF Clear, ReadInv
<1>4. CASE Sent
    <2>1. doSending' = FALSE /\ doSending' \in BOOLEAN /\ wire' = "none"
        BY <1>4 DEF Sent
    <2>2. TypeOK'
        BY <1>4, <2>1 DEF Sent, TypeOK
    <2>3. SendInv'
        BY <1>4, <2>1 DEF Sent, SendInv
    <2>4. QED
        BY <1>4, <2>2, <2>3 DEF Sent, ReadInv
<1>5. QED
    BY <1>2, <1>3, <1>4 DEF Complete

\* A packet to a session's send buffer keeps the types.
LEMMA TypeCopy ==
    ASSUME TypeOK, NEW p \in Number, p \in 1 .. Len(mail), NEW s \in Session, Copy(p, s)
    PROVE  /\ out' \in [Session -> Seq(Number)]
           /\ filled' \in [Session -> 0 .. BufferSize]
           /\ dropped' \in [Session -> Seq(Number)]
<1>1. /\ out \in [Session -> Seq(Number)] /\ filled \in [Session -> 0 .. BufferSize]
      /\ dropped \in [Session -> Seq(Number)] /\ mail \in Seq(Packet)
    BY DEF TypeOK
<1>2. Append(out[s], p) \in Seq(Number) /\ Append(dropped[s], p) \in Seq(Number)
    BY <1>1, AppendProperties
<1>3. mail[p].length \in Nat
    <2>1. mail[p] \in Packet
        BY <1>1, SizeOf
    <2>2. QED
        BY <2>1 DEF Packet
<1>4. CASE filled[s] + 1 + mail[p].length > BufferSize
    BY <1>1, <1>2, <1>4 DEF Copy
<1>5. CASE ~(filled[s] + 1 + mail[p].length > BufferSize)
    <2>1. filled[s] + 1 + mail[p].length \in 0 .. BufferSize
        BY <1>1, <1>3, <1>5
    <2>2. QED
        BY <1>1, <1>2, <1>5, <2>1 DEF Copy
<1>6. QED
    BY <1>4, <1>5

\* The gate's loop keeps the types.
LEMMA TypeRead ==
    TypeOK /\ SendInv /\ ReadInv /\ PushedInv /\ Read => TypeOK' /\ SendInv' /\ ReadInv'
<1> SUFFICES ASSUME TypeOK, SendInv, ReadInv, PushedInv, Read
             PROVE  TypeOK' /\ SendInv' /\ ReadInv'
    OBVIOUS
<1> USE DEF serverVars, gateVars
<1>0. /\ recvBuf \in Seq(Cell) /\ Len(recvBuf) \in Nat /\ Len(recvBuf) <= BufferSize
      /\ stream \in Seq(Cell) /\ Len(stream) \in Nat
      /\ reader \in [pc : {"receive", "process"}, at : 0 .. BufferSize, entry : 0 .. ListSize]
      /\ reader.at <= Len(recvBuf) /\ reader.at \in Nat
    BY LenProperties DEF TypeOK, ReadInv
<1>1. SendInv'
    <2>1. UNCHANGED <<buf, bufLen, doSending, main, wire>>
        BY DEF Read, Receive, Process, Broadcast, MoveTail
    <2>2. QED
        BY <2>1 DEF SendInv, Scan
<1>2. CASE Receive
    <2>1. PICK n \in 1 .. Len(stream) :
            /\ Len(recvBuf) + n <= BufferSize
            /\ recvBuf' = recvBuf \o SubSeq(stream, 1, n)
            /\ stream' = SubSeq(stream, n + 1, Len(stream))
        BY <1>2 DEF Receive
    <2>2. SubSeq(stream, 1, n) \in Seq(Cell) /\ Len(SubSeq(stream, 1, n)) = n
        <3>1. \A i \in 1 .. n : stream[i] \in Cell
            BY <1>0, ElementOfSeq
        <3>2. QED
            BY <3>1, SubSeqProperties
    <2>3. stream' \in Seq(Cell)
        <3>1. \A i \in n + 1 .. Len(stream) : stream[i] \in Cell
            BY <1>0, ElementOfSeq
        <3>2. QED
            BY <1>0, <2>1, <3>1, SubSeqProperties
    <2>4. recvBuf' \in Seq(Cell) /\ Len(recvBuf') = Len(recvBuf) + n
        BY <1>0, <2>1, <2>2, ConcatProperties
    <2>5. reader' \in [pc : {"receive", "process"}, at : 0 .. BufferSize, entry : 0 .. ListSize]
          /\ reader'.pc = "process" /\ reader'.at = reader.at
        BY <1>0, <1>2 DEF Receive
    <2>6. Len(recvBuf') <= BufferSize /\ reader'.at <= Len(recvBuf')
        BY <1>0, <2>1, <2>4, <2>5
    <2>7. TypeOK'
        BY <1>2, <2>3, <2>4, <2>5, <2>6 DEF Receive, TypeOK
    <2>8. ReadInv'
        BY <2>5, <2>6 DEF ReadInv
    <2>9. QED
        BY <1>1, <2>7, <2>8
<1>3. ASSUME HasMessage, Step, recvBuf' = recvBuf
      PROVE  /\ reader' \in [pc : {"receive", "process"}, at : 0 .. BufferSize, entry : 0 .. ListSize]
             /\ ReadInv'
    <2>1. Size(AtHand) \in Nat /\ Size(AtHand) <= BytesRECV
        BY <1>3, AtHandIs
    <2>2. reader.at + Size(AtHand) \in 0 .. BufferSize /\ reader.at + Size(AtHand) <= Len(recvBuf)
        BY <1>0, <2>1 DEF BytesRECV
    <2>3. QED
        BY <1>3, <2>2 DEF Step, ReadInv, WSARecv
<1>4. CASE Process
    <2>1. AtHand \in Number /\ AtHand \in 1 .. Len(mail)
        BY <1>4, AtHandIs DEF Process
    <2>2. mail[AtHand].to \in Session
        <3>1. mail[AtHand] \in Packet
            BY <2>1, SizeOf DEF TypeOK
        <3>2. QED
            BY <3>1 DEF Packet
    <2>3. /\ out' \in [Session -> Seq(Number)] /\ filled' \in [Session -> 0 .. BufferSize]
          /\ dropped' \in [Session -> Seq(Number)]
        BY <1>4, <2>1, <2>2, TypeCopy DEF Process
    <2>4. /\ reader' \in [pc : {"receive", "process"}, at : 0 .. BufferSize, entry : 0 .. ListSize]
          /\ ReadInv'
        BY <1>3, <1>4 DEF Process
    <2>5. TypeOK'
        BY <1>4, <2>3, <2>4 DEF Process, TypeOK
    <2>6. QED
        BY <1>1, <2>4, <2>5
<1>5. CASE Broadcast
    <2>1. AtHand \in Number /\ AtHand \in 1 .. Len(mail)
        BY <1>5, AtHandIs DEF Broadcast
    <2>2. CASE reader.entry < ListSize
        <3> DEFINE s == mail[AtHand].list[reader.entry + 1]
        <3>1. s \in Session \cup {Nobody}
            <4>1. mail[AtHand] \in Packet
                BY <2>1, SizeOf DEF TypeOK
            <4>2. mail[AtHand].list \in [1 .. ListSize -> Session \cup {Nobody}]
                BY <4>1 DEF Packet
            <4>3. reader.entry + 1 \in 1 .. ListSize
                BY <1>0, <2>2
            <4>4. QED
                BY <4>2, <4>3
        <3>2. /\ IF s = Nobody THEN UNCHANGED <<out, filled, dropped>> ELSE Copy(AtHand, s)
              /\ reader' = [reader EXCEPT !.entry = @ + 1]
              /\ recvBuf' = recvBuf /\ reader.pc = "process"
            BY <1>5, <2>2 DEF Broadcast
        <3> HIDE DEF s
        <3>3. /\ out' \in [Session -> Seq(Number)] /\ filled' \in [Session -> 0 .. BufferSize]
              /\ dropped' \in [Session -> Seq(Number)]
            <4>1. CASE s = Nobody
                BY <3>2, <4>1 DEF TypeOK
            <4>2. CASE s # Nobody
                BY <2>1, <3>1, <3>2, <4>2, TypeCopy
            <4>3. QED
                BY <4>1, <4>2
        <3>4. /\ reader' \in [pc : {"receive", "process"}, at : 0 .. BufferSize, entry : 0 .. ListSize]
              /\ reader'.at = reader.at /\ reader'.pc = "process"
            <4>1. reader.entry \in 0 .. ListSize
                BY <1>0
            <4>2. reader.entry + 1 \in 0 .. ListSize
                BY <2>2, <4>1
            <4>3. QED
                BY <1>0, <3>2, <4>2
        <3>5. TypeOK'
            BY <1>5, <3>3, <3>4 DEF Broadcast, TypeOK
        <3>6. ReadInv'
            BY <1>0, <3>2, <3>4 DEF ReadInv
        <3>7. QED
            BY <1>1, <3>5, <3>6
    <2>3. CASE ~(reader.entry < ListSize)
        <3>1. Step /\ UNCHANGED <<out, filled, dropped>> /\ recvBuf' = recvBuf /\ HasMessage
            BY <1>5, <2>3 DEF Broadcast
        <3>2. /\ reader' \in [pc : {"receive", "process"}, at : 0 .. BufferSize, entry : 0 .. ListSize]
              /\ ReadInv'
            BY <1>3, <3>1
        <3>3. TypeOK'
            BY <1>5, <3>1, <3>2 DEF Broadcast, TypeOK
        <3>4. QED
            BY <1>1, <3>2, <3>3
    <2>4. QED
        BY <2>2, <2>3
<1>6. CASE MoveTail
    <2>1. recvBuf' = Unread /\ reader' = WSARecv
        BY <1>6 DEF MoveTail, Unread
    <2>2. Unread \in Seq(Cell) /\ Len(Unread) = Len(recvBuf) - reader.at
        BY PipeTypes DEF BytesRECV
    <2>3. recvBuf' \in Seq(Cell) /\ Len(recvBuf') <= BufferSize /\ 0 <= Len(recvBuf')
        BY <1>0, <2>1, <2>2
    <2>4. reader' \in [pc : {"receive", "process"}, at : 0 .. BufferSize, entry : 0 .. ListSize]
          /\ reader'.at = 0
        BY <2>1 DEF WSARecv
    <2>5. TypeOK'
        BY <1>6, <2>3, <2>4 DEF MoveTail, TypeOK
    <2>6. ReadInv'
        BY <2>1, <2>3, <2>4 DEF ReadInv
    <2>7. QED
        BY <1>1, <2>5, <2>6
<1>7. QED
    BY <1>2, <1>4, <1>5, <1>6 DEF Read

\* The sender keeps the types.
LEMMA TypeSendToClient ==
    ASSUME TypeOK, SendInv, ReadInv, NEW s \in Session, SendToClient(s)
    PROVE  TypeOK' /\ SendInv' /\ ReadInv'
<1> USE DEF serverVars, gateVars
<1>1. /\ out \in [Session -> Seq(Number)] /\ got \in [Session -> Seq(Number)]
      /\ filled \in [Session -> 0 .. BufferSize]
    BY DEF TypeOK
<1>2. got[s] \o out[s] \in Seq(Number) /\ <<>> \in Seq(Number) /\ 0 \in 0 .. BufferSize
    BY <1>1, ConcatProperties, EmptySeq
<1>3. /\ out' \in [Session -> Seq(Number)] /\ got' \in [Session -> Seq(Number)]
      /\ filled' \in [Session -> 0 .. BufferSize]
    BY <1>1, <1>2 DEF SendToClient
<1>4. TypeOK'
    BY <1>3 DEF SendToClient, TypeOK
<1>5. QED
    BY <1>4 DEF SendToClient, SendInv, ReadInv, Scan, WSARecv
-----------------------------------------------------------------------------
(* Where the packets are.                                                  *)

Flow == PushedInv /\ InStep /\ NothingLost /\ LineInv

\* The pipe is not disturbed by where TCP cuts it, nor by moving a tail.
LEMMA PipeReceive ==
    TypeOK /\ SendInv /\ ReadInv /\ (Receive \/ MoveTail) => Pipe' = Pipe
<1> SUFFICES ASSUME TypeOK, SendInv, ReadInv, Receive \/ MoveTail PROVE Pipe' = Pipe
    OBVIOUS
<1> USE DEF serverVars, gateVars
<1>0. /\ recvBuf \in Seq(Cell) /\ Len(recvBuf) \in Nat
      /\ stream \in Seq(Cell) /\ Len(stream) \in Nat
      /\ Unread \in Seq(Cell)
    BY PipeTypes, LenProperties DEF TypeOK
<1>1. Unsent' = Unsent
    BY DEF Receive, MoveTail, Unsent
<1>2. CASE Receive
    <2>1. PICK n \in 1 .. Len(stream) :
            /\ recvBuf' = recvBuf \o SubSeq(stream, 1, n)
            /\ stream' = SubSeq(stream, n + 1, Len(stream))
        BY <1>2 DEF Receive
    <2>2. SubSeq(stream, 1, n) \in Seq(Cell) /\ stream' \in Seq(Cell)
        <3>1. \A i \in 1 .. Len(stream) : stream[i] \in Cell
            BY <1>0, ElementOfSeq
        <3>2. \A i \in 1 .. n : stream[i] \in Cell
            BY <1>0, <3>1
        <3>3. \A i \in n + 1 .. Len(stream) : stream[i] \in Cell
            BY <1>0, <3>1
        <3>4. QED
            BY <1>0, <2>1, <3>2, <3>3, SubSeqProperties
    <2>3. reader.at = 0 /\ reader'.at = 0
        BY <1>2 DEF Receive, ReadInv, WSARecv, TypeOK
    <2>4. Unread = recvBuf
        BY <1>0, <2>3, SubSeqFull DEF Unread
    <2>5. Unread' = recvBuf'
        <3>1. recvBuf' \in Seq(Cell)
            BY <1>0, <2>1, <2>2, ConcatProperties
        <3>2. Unread' = SubSeq(recvBuf', 0 + 1, Len(recvBuf'))
            BY <2>3 DEF Unread
        <3>3. QED
            BY <3>1, <3>2, SubSeqFull
    <2>6. SubSeq(stream, 1, n) \o stream' = stream
        <3>1. 1 \in 1 .. Len(stream) + 1 /\ n \in 1 - 1 .. Len(stream) /\ Len(stream) \in n .. Len(stream)
            BY <1>0
        <3>2. SubSeq(stream, 1, n) \o SubSeq(stream, n + 1, Len(stream)) = SubSeq(stream, 1, Len(stream))
            BY <1>0, <3>1, ConcatAdjacentSubSeq
        <3>3. QED
            BY <1>0, <2>1, <3>2, SubSeqFull
    <2>7. recvBuf' \o stream' = recvBuf \o stream
        <3>1. recvBuf' \o stream' = (recvBuf \o SubSeq(stream, 1, n)) \o stream'
            BY <2>1
        <3>2. (recvBuf \o SubSeq(stream, 1, n)) \o stream' = recvBuf \o (SubSeq(stream, 1, n) \o stream')
            <4>1. recvBuf \in Seq(Cell) /\ SubSeq(stream, 1, n) \in Seq(Cell) /\ stream' \in Seq(Cell)
                BY <1>0, <2>2
            <4>2. QED
                BY <4>1, ConcatAssociative
        <3>3. QED
            BY <2>6, <3>1, <3>2
    <2>8. QED
        BY <1>1, <2>4, <2>5, <2>7 DEF Pipe
<1>3. CASE MoveTail
    <2>1. recvBuf' = Unread /\ reader'.at = 0 /\ stream' = stream
        BY <1>3 DEF MoveTail, Unread, WSARecv
    <2>2. Unread' = SubSeq(recvBuf', 0 + 1, Len(recvBuf'))
        BY <2>1 DEF Unread
    <2>3. Unread' = Unread
        BY <1>0, <2>1, <2>2, SubSeqFull
    <2>4. QED
        BY <1>1, <2>1, <2>3 DEF Pipe
<1>4. QED
    BY <1>2, <1>3

\* Nor by handing the buffer to WSASend and back.
LEMMA PipeComplete ==
    TypeOK /\ SendInv /\ ReadInv /\ Complete => Pipe' = Pipe /\ Waiting' = Waiting
<1> SUFFICES ASSUME TypeOK, SendInv, ReadInv, Complete PROVE Pipe' = Pipe /\ Waiting' = Waiting
    OBVIOUS
<1> USE DEF serverVars, gateVars
<1>0. /\ stream \in Seq(Cell) /\ Unread \in Seq(Cell) /\ SubSeq(buf, 1, bufLen) \in Seq(Cell)
    BY PipeTypes DEF TypeOK
<1>1. Unread' = Unread /\ Waiting' = Waiting
    BY DEF Complete, Transmit, Clear, Sent, Unread, Waiting
<1>2. CASE Transmit
    <2>1. Unsent = SubSeq(buf, 1, bufLen) /\ Unsent' = <<>> /\ stream' = stream \o SubSeq(buf, 1, bufLen)
        BY <1>2 DEF Transmit, Unsent
    <2>2. stream \o Unsent \in Seq(Cell)
        BY <1>0, <2>1, ConcatProperties
    <2>3. Pipe = Unread \o (stream \o Unsent)
        <3>1. Unread \in Seq(Cell) /\ stream \in Seq(Cell) /\ Unsent \in Seq(Cell)
            BY <1>0, <2>1
        <3>2. (Unread \o stream) \o Unsent = Unread \o (stream \o Unsent)
            BY <3>1, ConcatAssociative
        <3>3. QED
            BY <3>2 DEF Pipe
    <2>4. Unread \o (stream \o Unsent) \in Seq(Cell)
        BY <1>0, <2>2, ConcatProperties
    <2>5. Pipe' = (Unread \o (stream \o Unsent)) \o <<>>
        BY <1>1, <2>1 DEF Pipe
    <2>6. QED
        BY <1>1, <2>3, <2>4, <2>5, ConcatEmptySeq
<1>3. CASE Clear
    <2>1. Unsent = <<>> /\ Unsent' = <<>> /\ stream' = stream
        BY <1>3 DEF Clear, Unsent
    <2>2. QED
        BY <1>1, <2>1 DEF Pipe
<1>4. CASE Sent
    <2>1. bufLen = 0 /\ bufLen' = 0 /\ wire' = "none" /\ stream' = stream /\ buf' = buf
        BY <1>4 DEF Sent, SendInv
    <2>2. Unsent = <<>>
        BY <1>4 DEF Sent, Unsent
    <2>3. SubSeq(buf, 1, 0) = <<>>
        BY SubSeqEmpty
    <2>4. Unsent' = <<>>
        BY <2>1, <2>3 DEF Unsent
    <2>5. QED
        BY <1>1, <2>1, <2>2, <2>4 DEF Pipe
<1>5. QED
    BY <1>2, <1>3, <1>4 DEF Complete

\* Taking the first packet, and starting the WSASend, leave all where it is.
LEMMA PipeStart ==
    TypeOK /\ SendInv /\ ReadInv /\ (Start \/ Send) => Pipe' = Pipe /\ Waiting' = Waiting
<1> SUFFICES ASSUME TypeOK, SendInv, ReadInv, Start \/ Send PROVE Pipe' = Pipe /\ Waiting' = Waiting
    OBVIOUS
<1> USE DEF serverVars, gateVars
<1>0. sendQ \in Seq(Number)
    BY DEF TypeOK
<1>1. Unread' = Unread /\ stream' = stream
    BY DEF Start, Send, Unread
<1>2. CASE Start
    <2>1. Unsent' = Unsent
        BY <1>2 DEF Start, Unsent
    <2>2. main' = [main EXCEPT !.pc = "fill", !.packet = Head(sendQ)] /\ sendQ' = Tail(sendQ)
          /\ main.pc = "scan" /\ sendQ # <<>>
        BY <1>2 DEF Start, TakeNext
    <2>3. main'.pc = "fill" /\ main'.packet = Head(sendQ)
        BY <2>2 DEF TypeOK
    <2>4. Waiting' = <<Head(sendQ)>> \o Tail(sendQ)
        BY <2>2, <2>3 DEF Waiting
    <2>5. Waiting = sendQ
        BY <2>2, WaitingIs
    <2>6. QED
        BY <1>0, <1>1, <2>1, <2>2, <2>4, <2>5, HeadAndTail DEF Pipe
<1>3. CASE Send
    <2>1. main.pc = "send" /\ main'.pc = "scan" /\ sendQ' = sendQ
        BY <1>3 DEF Send, Scan
    <2>2. Waiting' = Waiting
        BY <2>1 DEF Waiting
    <2>3. wire = "none" /\ wire' \in {"none", "sending"} /\ UNCHANGED <<buf, bufLen>>
        BY <1>3 DEF Send, SendInv
    <2>4. Unsent' = Unsent
        BY <2>3 DEF Unsent
    <2>5. QED
        BY <1>1, <2>2, <2>4 DEF Pipe
<1>4. QED
    BY <1>2, <1>3

\* What a session has of a packet.
Held(o, g, d, p, s) == Times(p, o[s]) + Times(p, g[s]) + Times(p, d[s])
PlacesInv ==
    \A p \in DOMAIN mail : ~mail[p].broadcast =>
        /\ Times(p, Waiting) + Times([packet |-> p, place |-> 0], Pipe)
              + Held(out, got, dropped, p, mail[p].to) = 1
        /\ \A s \in Session \ {mail[p].to} : Held(out, got, dropped, p, s) = 0

LEMMA PlacesAre == NothingLost <=> PlacesInv
BY DEF NothingLost, PlacesInv, With, Held

\* What moves nothing keeps every packet where it is.
LEMMA FlowQuiet ==
    Flow /\ Pipe' = Pipe /\ Waiting' = Waiting /\ UNCHANGED <<mail, out, got, dropped, requeued>>
        => Flow'
<1> SUFFICES ASSUME Flow, Pipe' = Pipe, Waiting' = Waiting,
                    UNCHANGED <<mail, out, got, dropped, requeued>>
             PROVE  Flow'
    OBVIOUS
<1>1. PushedInv'
    BY DEF Flow, PushedInv, Passed
<1>2. InStep'
    BY DEF Flow, InStep, WholePackets, Size
<1>3. NothingLost'
    <2>1. PlacesInv
        BY PlacesAre DEF Flow
    <2>2. PlacesInv'
        BY <2>1 DEF PlacesInv
    <2>3. QED
        BY <2>2, PlacesAre, PTL
<1>4. LineInv'
    <2>1. \A s \in Session : Passed(s)' = Passed(s)
        BY DEF Passed
    <2>2. QED
        BY <2>1 DEF Flow, LineInv
<1>5. QED
    BY <1>1, <1>2, <1>3, <1>4 DEF Flow

\* What a session has had of a packet is what the gate has passed on or dropped.
LEMMA WithIs ==
    ASSUME TypeOK, NEW p, NEW s \in Session
    PROVE  /\ Passed(s) \in Seq(Number) /\ dropped[s] \in Seq(Number)
           /\ Times(p, Passed(s)) \in Nat /\ Times(p, dropped[s]) \in Nat
           /\ Held(out, got, dropped, p, s) = Times(p, Passed(s)) + Times(p, dropped[s])
<1>1. out[s] \in Seq(Number) /\ got[s] \in Seq(Number) /\ dropped[s] \in Seq(Number)
    BY DEF TypeOK
<1>2. Passed(s) \in Seq(Number) /\ Times(p, Passed(s)) = Times(p, got[s]) + Times(p, out[s])
    BY <1>1, ConcatProperties, TimesConcat DEF Passed
<1>3. Times(p, got[s]) \in Nat /\ Times(p, out[s]) \in Nat /\ Times(p, dropped[s]) \in Nat
    BY <1>1, TimesNat
<1>4. QED
    BY <1>1, <1>2, <1>3 DEF Held

\* One more at the end of the queue.
LEMMA ConcatAppend ==
    ASSUME NEW S, NEW s \in Seq(S), NEW t \in Seq(S), NEW x \in S
    PROVE  s \o Append(t, x) = Append(s \o t, x)
<1>1. Append(t, x) = t \o <<x>> /\ <<x>> \in Seq(S) /\ s \o t \in Seq(S)
    BY AppendIsConcat, ConcatProperties
<1>2. Append(s \o t, x) = (s \o t) \o <<x>>
    BY <1>1, AppendIsConcat
<1>3. QED
    BY <1>1, <1>2, ConcatAssociative

\* A pushed packet waits behind the others.
LEMMA PipePush ==
    ASSUME TypeOK, SendInv, ReadInv, NEW packet, Push(packet)
    PROVE  Pipe' = Pipe /\ Waiting' = Append(Waiting, Len(mail) + 1)
           /\ Len(mail) + 1 \in Number /\ Len(mail) \in Nat
<1> USE DEF serverVars, gateVars
<1>1. mail \in Seq(Packet) /\ sendQ \in Seq(Number) /\ Len(mail) \in Nat
    BY LenProperties DEF TypeOK
<1>2. Len(mail') = Len(mail) + 1 /\ Len(mail) + 1 \in Number
    BY <1>1 DEF Push, Number
<1>3. Pipe' = Pipe
    BY DEF Push, Pipe, Unread, Unsent
<1>4. sendQ' = Append(sendQ, Len(mail) + 1) /\ main' = main
    BY <1>2 DEF Push
<1>5. (IF main.pc = "fill" THEN <<main.packet>> ELSE <<>>) \in Seq(Number)
    <2>1. main.pc = "fill" => main.packet \in Number
        BY WaitingIs
    <2>2. main.pc = "fill" => <<main.packet>> \in Seq(Number)
        BY <2>1
    <2>3. QED
        BY <2>2, EmptySeq
<1>6. QED
    BY <1>1, <1>2, <1>3, <1>4, <1>5, ConcatAppend DEF Waiting

\* What a packet that is pushed leaves as it is.
LEMMA MailPush ==
    ASSUME mail \in Seq(Packet), NEW packet \in Packet, mail' = Append(mail, packet)
    PROVE  /\ mail' \in Seq(Packet) /\ Len(mail) \in Nat /\ Len(mail') = Len(mail) + 1
           /\ DOMAIN mail = 1 .. Len(mail) /\ DOMAIN mail' = 1 .. Len(mail) + 1
           /\ \A p \in 1 .. Len(mail) : mail'[p] = mail[p]
<1>1. /\ mail' \in Seq(Packet) /\ Len(mail') = Len(mail) + 1
      /\ \A p \in 1 .. Len(mail) : mail'[p] = mail[p]
    BY AppendProperties
<1>2. QED
    BY <1>1, LenProperties

\* Pushing a packet leaves every other where it is.
LEMMA FlowPush ==
    ASSUME TypeOK, SendInv, ReadInv, Flow, NEW packet \in Packet, Push(packet), TypeOK'
    PROVE  Flow'
<1> DEFINE n == Len(mail) + 1
<1> USE DEF serverVars, gateVars
<1>0. /\ mail \in Seq(Packet) /\ Waiting \in Seq(Number) /\ Pipe \in Seq(Cell)
      /\ mail' = Append(mail, packet)
    BY PipeTypes DEF TypeOK, Push
<1>1. /\ Len(mail) \in Nat /\ Len(mail') = n
      /\ DOMAIN mail = 1 .. Len(mail) /\ DOMAIN mail' = 1 .. n
      /\ \A p \in 1 .. Len(mail) : mail'[p] = mail[p]
    BY <1>0, MailPush
<1>2. Pipe' = Pipe /\ Waiting' = Append(Waiting, n) /\ n \in Number
    BY PipePush
<1>3. UNCHANGED <<out, got, dropped, requeued>>
    BY DEF Push
<1>4. \A s \in Session : Passed(s)' = Passed(s) /\ Passed(s) \in Seq(Number)
    BY <1>3, WithIs DEF Passed
<1>5. /\ \A i \in 1 .. Len(Waiting) : Waiting[i] \in 1 .. Len(mail)
      /\ \A i \in 1 .. Len(Pipe) : Pipe[i].packet \in 1 .. Len(mail)
      /\ \A s \in Session :
            /\ \A i \in 1 .. Len(Passed(s)) : Passed(s)[i] \in 1 .. Len(mail)
            /\ \A i \in 1 .. Len(dropped[s]) : dropped[s][i] \in 1 .. Len(mail)
    BY DEF Flow, PushedInv
<1>6. /\ Len(Waiting) \in Nat /\ Len(Append(Waiting, n)) = Len(Waiting) + 1
      /\ \A i \in 1 .. Len(Waiting) : Append(Waiting, n)[i] = Waiting[i]
      /\ Append(Waiting, n)[Len(Waiting) + 1] = n
    BY <1>0, <1>2, AppendProperties, LenProperties
<1> HIDE DEF n
<1>7. n \in Nat /\ n > Len(mail) /\ 1 .. Len(mail) \subseteq 1 .. n /\ n \in 1 .. n /\ n \notin 1 .. Len(mail)
    BY <1>1 DEF n
<1>8. PushedInv'
    <2>1. \A i \in 1 .. Len(Waiting') : Waiting'[i] \in 1 .. n
        <3>1. ASSUME NEW i \in 1 .. Len(Waiting) + 1 PROVE Append(Waiting, n)[i] \in 1 .. n
            BY <1>5, <1>6, <1>7
        <3>2. QED
            BY <1>2, <1>6, <3>1
    <2>2. \A i \in 1 .. Len(Pipe') : Pipe'[i].packet \in 1 .. n
        BY <1>2, <1>5, <1>7
    <2>3. \A s \in Session :
            /\ \A i \in 1 .. Len(Passed(s)) : Passed(s)[i] \in 1 .. n
            /\ \A i \in 1 .. Len(dropped[s]) : dropped[s][i] \in 1 .. n
        BY <1>5, <1>7
    <2>4. QED
        BY <1>1, <1>3, <1>4, <2>1, <2>2, <2>3 DEF PushedInv
<1>9. InStep'
    <2>1. \A i \in 1 .. Len(Pipe) : mail'[Pipe[i].packet] = mail[Pipe[i].packet]
        BY <1>1, <1>5
    <2>2. QED
        BY <1>2, <2>1 DEF Flow, InStep, WholePackets, Size
<1>10. PlacesInv'
    <2>1. UNCHANGED <<out, got, dropped>>
        BY <1>3
    <2>2. \A q : Times(q, Append(Waiting, n)) = Times(q, Waiting) + (IF q = n THEN 1 ELSE 0)
        BY <1>0, <1>2, TimesAppend
    <2>3. ASSUME NEW p \in 1 .. Len(mail), ~mail'[p].broadcast
          PROVE  /\ Times(p, Waiting') + Times([packet |-> p, place |-> 0], Pipe')
                        + Held(out, got, dropped, p, mail'[p].to) = 1
                 /\ \A s \in Session \ {mail'[p].to} : Held(out, got, dropped, p, s) = 0
        <3>1. mail'[p] = mail[p] /\ p # n
            BY <1>1, <1>7, <2>3
        <3>2. /\ Times(p, Waiting) + Times([packet |-> p, place |-> 0], Pipe) + Held(out, got, dropped, p, mail[p].to) = 1
              /\ \A s \in Session \ {mail[p].to} : Held(out, got, dropped, p, s) = 0
            BY <1>1, <2>3, <3>1, PlacesAre DEF Flow, PlacesInv
        <3>3. Times(p, Waiting) \in Nat
            BY <1>0, TimesNat
        <3>4. Times(p, Waiting') = Times(p, Waiting)
            BY <1>2, <2>2, <3>1, <3>3
        <3>5. QED
            BY <1>2, <3>1, <3>2, <3>4
    <2>4. /\ Times(n, Waiting') + Times([packet |-> n, place |-> 0], Pipe') + Held(out, got, dropped, n, mail'[n].to) = 1
          /\ \A s \in Session : Held(out, got, dropped, n, s) = 0
        <3>1. Times(n, Waiting) = 0
            BY <1>0, <1>5, <1>7, TimesNone
        <3>2. Times([packet |-> n, place |-> 0], Pipe) = 0
            <4>1. \A i \in 1 .. Len(Pipe) : Pipe[i] # [packet |-> n, place |-> 0]
                BY <1>5, <1>7
            <4>2. QED
                BY <1>0, <4>1, TimesNone
        <3>3. ASSUME NEW s \in Session PROVE Held(out, got, dropped, n, s) = 0
            <4>1. Passed(s) \in Seq(Number) /\ dropped[s] \in Seq(Number)
                  /\ Held(out, got, dropped, n, s) = Times(n, Passed(s)) + Times(n, dropped[s])
                BY WithIs
            <4>2. /\ \A i \in 1 .. Len(Passed(s)) : Passed(s)[i] # n
                  /\ \A i \in 1 .. Len(dropped[s]) : dropped[s][i] # n
                BY <1>5, <1>7
            <4>3. Times(n, Passed(s)) = 0
                BY <4>1, <4>2, TimesNone
            <4>4. Times(n, dropped[s]) = 0
                BY <4>1, <4>2, TimesNone
            <4>5. QED
                BY <4>1, <4>3, <4>4
        <3>4. mail'[n].to \in Session
            <4>1. mail'[n] \in Packet
                BY <1>1, <1>7, ElementOfSeq DEF TypeOK
            <4>2. QED
                BY <4>1 DEF Packet
        <3>5. Times(n, Waiting') = 1
            BY <1>2, <2>2, <3>1
        <3>6. QED
            BY <1>2, <3>2, <3>3, <3>4, <3>5
    <2>5. ASSUME NEW p \in 1 .. n PROVE p \in 1 .. Len(mail) \/ p = n
        BY <1>1 DEF n
    <2>6. ASSUME NEW p \in 1 .. n, ~mail'[p].broadcast
          PROVE  /\ Times(p, Waiting') + Times([packet |-> p, place |-> 0], Pipe')
                        + Held(out, got, dropped, p, mail'[p].to) = 1
                 /\ \A s \in Session \ {mail'[p].to} : Held(out, got, dropped, p, s) = 0
        BY <2>3, <2>4, <2>5, <2>6
    <2>7. QED
        BY <1>1, <2>1, <2>6 DEF PlacesInv
<1>11. LineInv'
    <2> SUFFICES ASSUME ~requeued'
                 PROVE  /\ QueueLine(Waiting') /\ PipeLine(Pipe', Waiting')
                        /\ \A s \in Session : PassedLine(mail', Passed(s)', Pipe', Waiting')
        BY DEF LineInv
    <2>1. /\ QueueLine(Waiting) /\ PipeLine(Pipe, Waiting)
          /\ \A s \in Session : PassedLine(mail, Passed(s), Pipe, Waiting)
        BY <1>3 DEF Flow, LineInv
    <2>2. ASSUME NEW m \in 1 .. Len(mail), NEW j \in 1 .. Len(Waiting) + 1,
                 j \in 1 .. Len(Waiting) => m < Waiting[j]
          PROVE  m < Append(Waiting, n)[j]
        BY <1>6, <1>7, <2>2
    <2>3. QueueLine(Append(Waiting, n))
        <3>1. ASSUME NEW i \in 1 .. Len(Waiting) + 1, NEW j \in 1 .. Len(Waiting) + 1, i < j
              PROVE  Append(Waiting, n)[i] < Append(Waiting, n)[j]
            <4>1. i \in 1 .. Len(Waiting)
                BY <1>6, <3>1
            <4>2. Append(Waiting, n)[i] = Waiting[i] /\ Waiting[i] \in 1 .. Len(mail)
                BY <1>5, <1>6, <4>1
            <4>3. j \in 1 .. Len(Waiting) => Waiting[i] < Waiting[j]
                BY <2>1, <3>1, <4>1 DEF QueueLine
            <4>4. QED
                BY <2>2, <4>2, <4>3
        <3>2. QED
            BY <1>6, <3>1 DEF QueueLine
    <2>4. PipeLine(Pipe, Append(Waiting, n))
        BY <1>5, <1>6, <2>1, <2>2 DEF PipeLine
    <2>5. ASSUME NEW s \in Session PROVE PassedLine(mail', Passed(s), Pipe, Append(Waiting, n))
        <3>1. PassedLine(mail, Passed(s), Pipe, Waiting)
            BY <2>1
        <3>2. \A i \in 1 .. Len(Passed(s)) :
                Passed(s)[i] \in 1 .. Len(mail) /\ mail'[Passed(s)[i]] = mail[Passed(s)[i]]
            BY <1>1, <1>5
        <3>3. \A i \in 1 .. Len(Passed(s)), j \in 1 .. Len(Waiting) + 1 :
                Passed(s)[i] < Append(Waiting, n)[j]
            BY <2>2, <3>1, <3>2 DEF PassedLine
        <3>4. QED
            BY <1>6, <3>1, <3>2, <3>3 DEF PassedLine, NotAfter
    <2>6. QED
        BY <1>2, <1>4, <2>3, <2>4, <2>5
<1>12. NothingLost'
    BY <1>10, PlacesAre, PTL
<1>13. QED
    BY <1>8, <1>9, <1>11, <1>12 DEF Flow

\* A sequence with one element before the others.
LEMMA ConsIs ==
    ASSUME NEW S, NEW p \in S, NEW q \in Seq(S)
    PROVE  /\ <<p>> \o q \in Seq(S) /\ Len(q) \in Nat /\ Len(<<p>> \o q) = Len(q) + 1
           /\ (<<p>> \o q)[1] = p
           /\ \A i \in 1 .. Len(q) : i + 1 \in 1 .. Len(q) + 1 /\ (<<p>> \o q)[i + 1] = q[i]
           /\ \A x : Times(x, <<p>> \o q) = (IF x = p THEN 1 ELSE 0) + Times(x, q)
<1>1. <<p>> \in Seq(S) /\ Len(<<p>>) = 1 /\ <<p>>[1] = p /\ Len(q) \in Nat
    BY LenProperties
<1>2. /\ <<p>> \o q \in Seq(S) /\ Len(<<p>> \o q) = Len(<<p>>) + Len(q)
      /\ \A i \in 1 .. Len(<<p>>) + Len(q) :
            (<<p>> \o q)[i] = IF i <= Len(<<p>>) THEN <<p>>[i] ELSE q[i - Len(<<p>>)]
    BY <1>1, ConcatProperties
<1>3. (<<p>> \o q)[1] = p
    BY <1>1, <1>2
<1>4. ASSUME NEW i \in 1 .. Len(q)
      PROVE  i + 1 \in 1 .. Len(q) + 1 /\ (<<p>> \o q)[i + 1] = q[i]
    <2>1. i + 1 \in 1 .. 1 + Len(q) /\ ~(i + 1 <= 1) /\ (i + 1) - 1 = i
        BY <1>1
    <2>2. QED
        BY <1>1, <1>2, <2>1
<1>5. \A x : Times(x, <<p>> \o q) = (IF x = p THEN 1 ELSE 0) + Times(x, q)
    <2>1. ASSUME NEW x PROVE Times(x, <<p>> \o q) = (IF x = p THEN 1 ELSE 0) + Times(x, q)
        <3>1. Times(x, <<p>> \o q) = Times(x, <<p>>) + Times(x, q)
            BY <1>1, TimesConcat
        <3>2. QED
            BY <3>1, TimesOne
    <2>2. QED
        BY <2>1
<1>6. QED
    BY <1>1, <1>2, <1>3, <1>4, <1>5

\* A packet that is put back waits behind the others, which is its place if
\* there are none.
LEMMA FlowPutBack ==
    TypeOK /\ SendInv /\ ReadInv /\ Flow /\ PutBack => Flow'
<1> SUFFICES ASSUME TypeOK, SendInv, ReadInv, Flow, PutBack PROVE Flow'
    OBVIOUS
<1> DEFINE p == main.packet
<1> USE DEF serverVars, gateVars
<1>0. sendQ \in Seq(Number) /\ Waiting = <<p>> \o sendQ /\ p \in Number
    BY WaitingIs DEF PutBack, TypeOK
<1>1. Pipe' = Pipe
    BY DEF PutBack, Pipe, Unread, Unsent
<1>2. Waiting' = Append(sendQ, p)
    <2>1. main'.pc = "send" /\ sendQ' = Append(sendQ, p)
        BY DEF PutBack, TypeOK
    <2>2. sendQ' \in Seq(Number)
        BY <1>0, <2>1, AppendProperties
    <2>3. Waiting' = <<>> \o sendQ'
        BY <2>1 DEF Waiting
    <2>4. QED
        BY <2>1, <2>2, <2>3, ConcatEmptySeq
<1>3. UNCHANGED <<mail, out, got, dropped>>
    BY DEF PutBack
<1> HIDE DEF p
<1>4. CASE sendQ = <<>>
    <2>1. Waiting = <<p>> /\ Waiting' = <<p>>
        <3>1. <<p>> \in Seq(Number)
            BY <1>0
        <3>2. <<p>> \o <<>> = <<p>> /\ Append(<<>>, p) = <<p>>
            BY <3>1, ConcatEmptySeq
        <3>3. QED
            BY <1>0, <1>2, <1>4, <3>2
    <2>2. requeued' = requeued
        BY <1>4 DEF PutBack, TypeOK
    <2>3. QED
        BY <1>1, <1>3, <2>1, <2>2, FlowQuiet
<1>5. CASE sendQ # <<>>
    <2>1. /\ Len(sendQ) \in Nat /\ Len(Waiting) = Len(sendQ) + 1 /\ Waiting[1] = p
          /\ \A i \in 1 .. Len(sendQ) : i + 1 \in 1 .. Len(sendQ) + 1 /\ Waiting[i + 1] = sendQ[i]
          /\ \A x : Times(x, Waiting) = (IF x = p THEN 1 ELSE 0) + Times(x, sendQ)
        BY <1>0, ConsIs
    <2>2. PushedInv'
        <3>1. \A i \in 1 .. Len(Waiting) : Waiting[i] \in 1 .. Len(mail)
            BY DEF Flow, PushedInv
        <3>2. p \in 1 .. Len(mail) /\ \A i \in 1 .. Len(sendQ) : sendQ[i] \in 1 .. Len(mail)
            BY <2>1, <3>1
        <3>3. /\ Len(Append(sendQ, p)) = Len(sendQ) + 1
              /\ \A i \in 1 .. Len(sendQ) : Append(sendQ, p)[i] = sendQ[i]
              /\ Append(sendQ, p)[Len(sendQ) + 1] = p
            BY <1>0, AppendProperties
        <3>4. ASSUME NEW i \in 1 .. Len(sendQ) + 1 PROVE Append(sendQ, p)[i] \in 1 .. Len(mail)
            BY <2>1, <3>2, <3>3
        <3>5. \A i \in 1 .. Len(Waiting') : Waiting'[i] \in 1 .. Len(mail)
            BY <1>2, <3>3, <3>4
        <3>6. \A s \in Session : Passed(s)' = Passed(s)
            BY <1>3 DEF Passed
        <3>7. QED
            BY <1>1, <1>3, <3>5, <3>6 DEF Flow, PushedInv
    <2>3. InStep'
        BY <1>1, <1>3 DEF Flow, InStep, WholePackets, Size
    <2>4. PlacesInv'
        <3>1. \A x : Times(x, Append(sendQ, p)) = Times(x, Waiting)
            <4>1. \A x : Times(x, sendQ) \in Nat
                BY <1>0, TimesNat
            <4>2. \A x : Times(x, Append(sendQ, p)) = Times(x, sendQ) + (IF x = p THEN 1 ELSE 0)
                BY <1>0, TimesAppend
            <4>3. QED
                BY <2>1, <4>1, <4>2
        <3>2. PlacesInv
            BY PlacesAre DEF Flow
        <3>3. QED
            BY <1>1, <1>2, <1>3, <3>1, <3>2 DEF PlacesInv
    <2>5. LineInv'
        <3>1. requeued' = TRUE
            BY <1>5 DEF PutBack
        <3>2. QED
            BY <3>1 DEF LineInv
    <2>6. NothingLost'
        BY <2>4, PlacesAre, PTL
    <2>7. QED
        BY <2>2, <2>3, <2>5, <2>6 DEF Flow
<1>6. QED
    BY <1>4, <1>5

\* The first packet goes from the queue to the end of the pipe.
LEMMA PipeFill ==
    TypeOK /\ SendInv /\ ReadInv /\ PushedInv /\ Fill =>
        /\ main.packet \in Number /\ main.packet \in 1 .. Len(mail)
        /\ Waiting = <<main.packet>> \o sendQ /\ Waiting' = sendQ
        /\ Pipe' = Pipe \o Cells(main.packet)
<1> SUFFICES ASSUME TypeOK, SendInv, ReadInv, PushedInv, Fill
             PROVE  /\ main.packet \in Number /\ main.packet \in 1 .. Len(mail)
                    /\ Waiting = <<main.packet>> \o sendQ /\ Waiting' = sendQ
                    /\ Pipe' = Pipe \o Cells(main.packet)
    OBVIOUS
<1> DEFINE p == main.packet
<1> USE DEF serverVars, gateVars
<1>0. sendQ \in Seq(Number) /\ Waiting = <<p>> \o sendQ /\ p \in Number
    BY WaitingIs DEF Fill, TypeOK
<1>1. p \in 1 .. Len(mail)
    <2>1. Len(Waiting) \in Nat /\ Len(Waiting) >= 1 /\ Waiting[1] = p
        BY <1>0, ConsIs
    <2>2. QED
        BY <2>1 DEF PushedInv
<1>2. Waiting' = sendQ
    <2>1. CASE sendQ = <<>>
        <3>1. main'.pc = "send" /\ sendQ' = <<>>
            BY <2>1 DEF Fill
        <3>2. Waiting' = <<>> \o <<>>
            BY <3>1 DEF Waiting
        <3>3. QED
            BY <1>0, <2>1, <3>2, ConcatEmptySeq
    <2>2. CASE sendQ # <<>>
        <3>1. main'.pc = "fill" /\ main'.packet = Head(sendQ) /\ sendQ' = Tail(sendQ)
            BY <2>2 DEF Fill
        <3>2. Waiting' = <<Head(sendQ)>> \o Tail(sendQ)
            BY <3>1 DEF Waiting
        <3>3. QED
            BY <1>0, <2>2, <3>2, HeadAndTail
    <2>3. QED
        BY <2>1, <2>2
<1>3. /\ Unread \in Seq(Cell) /\ stream \in Seq(Cell)
      /\ SubSeq(buf, 1, bufLen) \in Seq(Cell) /\ Len(SubSeq(buf, 1, bufLen)) = bufLen
      /\ Cells(p) \in Seq(Cell) /\ Len(Cells(p)) = Size(p)
    BY <1>0, <1>1, PipeTypes, CellsOf DEF TypeOK
<1>4. Unsent = SubSeq(buf, 1, bufLen) /\ wire' = wire /\ wire = "none"
    BY DEF Fill, SendInv, Unsent
<1>5. Unsent' = Unsent \o Cells(p)
    <2>1. buf' = Unsent \o Cells(p) /\ bufLen' = bufLen + Size(p)
        BY <1>4 DEF Fill
    <2>2. buf' \in Seq(Cell) /\ Len(buf') = bufLen'
        BY <1>3, <1>4, <2>1, ConcatProperties
    <2>3. Unsent' = SubSeq(buf', 1, Len(buf'))
        BY <1>4, <2>2 DEF Unsent
    <2>4. QED
        BY <2>1, <2>2, <2>3, SubSeqFull
<1>6. Unread' = Unread /\ stream' = stream
    BY DEF Fill, Unread
<1>7. Pipe' = (Unread \o stream) \o (Unsent \o Cells(p))
    BY <1>5, <1>6 DEF Pipe
<1>8. Unread \o stream \in Seq(Cell) /\ Unsent \in Seq(Cell)
    BY <1>3, <1>4, ConcatProperties
<1>9. (Unread \o stream) \o (Unsent \o Cells(p)) = ((Unread \o stream) \o Unsent) \o Cells(p)
    <2> DEFINE read == Unread \o stream
    <2>1. read \in Seq(Cell) /\ Unsent \in Seq(Cell) /\ Cells(p) \in Seq(Cell)
        BY <1>3, <1>8
    <2> HIDE DEF read, p
    <2>2. read \o (Unsent \o Cells(p)) = (read \o Unsent) \o Cells(p)
        BY <2>1, ConcatAssociative
    <2>3. QED
        BY <2>2 DEF read
<1>10. QED
    BY <1>0, <1>1, <1>2, <1>7, <1>9 DEF Pipe

LEMMA FlowFill ==
    TypeOK /\ SendInv /\ ReadInv /\ Flow /\ Fill => Flow'
<1> SUFFICES ASSUME TypeOK, SendInv, ReadInv, Flow, Fill PROVE Flow'
    OBVIOUS
<1> DEFINE p == main.packet
           pipe == Pipe \o Cells(p)
<1>0. /\ mail \in Seq(Packet) /\ sendQ \in Seq(Number) /\ Pipe \in Seq(Cell)
    BY PipeTypes DEF TypeOK
<1>1. /\ p \in Number /\ p \in 1 .. Len(mail)
      /\ Waiting = <<p>> \o sendQ /\ Waiting' = sendQ /\ Pipe' = pipe
    BY PipeFill DEF Flow
<1>2. UNCHANGED <<mail, out, got, dropped, requeued>>
    BY DEF Fill, gateVars
<1>3. /\ Size(p) \in Nat /\ 1 <= Size(p)
      /\ Cells(p) \in Seq(Cell) /\ Len(Cells(p)) = Size(p)
      /\ \A i \in 1 .. Size(p) : Cells(p)[i] = [packet |-> p, place |-> i - 1]
    BY <1>0, <1>1, SizeOf, CellsOf
<1>4. \A s \in Session : Passed(s)' = Passed(s)
    BY <1>2 DEF Passed
<1>5. /\ Len(sendQ) \in Nat /\ Len(Waiting) = Len(sendQ) + 1 /\ Waiting[1] = p
      /\ \A i \in 1 .. Len(sendQ) : i + 1 \in 1 .. Len(sendQ) + 1 /\ Waiting[i + 1] = sendQ[i]
      /\ \A x : Times(x, Waiting) = (IF x = p THEN 1 ELSE 0) + Times(x, sendQ)
    BY <1>0, <1>1, ConsIs
<1>6. /\ pipe \in Seq(Cell) /\ Len(pipe) = Len(Pipe) + Size(p) /\ Len(Pipe) \in Nat
      /\ \A i \in 1 .. Len(Pipe) : pipe[i] = Pipe[i]
      /\ \A i \in Len(Pipe) + 1 .. Len(Pipe) + Size(p) :
            pipe[i] = [packet |-> p, place |-> i - Len(Pipe) - 1]
    <2>1. Len(Pipe) \in Nat
        BY <1>0, LenProperties
    <2>2. /\ pipe \in Seq(Cell) /\ Len(pipe) = Len(Pipe) + Len(Cells(p))
          /\ \A i \in 1 .. Len(Pipe) + Len(Cells(p)) :
                pipe[i] = IF i <= Len(Pipe) THEN Pipe[i] ELSE Cells(p)[i - Len(Pipe)]
        <3>1. Pipe \in Seq(Cell) /\ Cells(p) \in Seq(Cell)
            BY <1>0, <1>3
        <3>2. QED
            BY <3>1, ConcatProperties
    <2>3. \A i \in 1 .. Len(Pipe) : i \in 1 .. Len(Pipe) + Size(p) /\ i <= Len(Pipe)
        BY <1>3, <2>1
    <2>4. ASSUME NEW i \in Len(Pipe) + 1 .. Len(Pipe) + Size(p)
          PROVE  pipe[i] = [packet |-> p, place |-> i - Len(Pipe) - 1]
        <3>1. i - Len(Pipe) \in 1 .. Size(p) /\ ~(i <= Len(Pipe)) /\ i \in 1 .. Len(Pipe) + Size(p)
            BY <1>3, <2>1
        <3>2. QED
            BY <1>3, <2>2, <3>1
    <2> HIDE DEF pipe
    <2>5. QED
        BY <1>3, <2>1, <2>2, <2>3, <2>4
<1> HIDE DEF p
<1>7. ASSUME NEW i \in 1 .. Len(Pipe) + Size(p)
      PROVE  \/ i \in 1 .. Len(Pipe) /\ pipe[i] = Pipe[i]
             \/ /\ i \in Len(Pipe) + 1 .. Len(Pipe) + Size(p)
                /\ pipe[i].packet = p /\ pipe[i].place = i - Len(Pipe) - 1
    BY <1>3, <1>6
<1>8. PushedInv'
    <2>1. \A i \in 1 .. Len(sendQ) : sendQ[i] \in 1 .. Len(mail)
        BY <1>5 DEF Flow, PushedInv
    <2>2. \A i \in 1 .. Len(Pipe) : Pipe[i].packet \in 1 .. Len(mail)
        BY DEF Flow, PushedInv
    <2>3. ASSUME NEW i \in 1 .. Len(pipe) PROVE pipe[i].packet \in 1 .. Len(mail)
        BY <1>1, <1>6, <1>7, <2>2
    <2>4. QED
        BY <1>1, <1>2, <1>4, <2>1, <2>3 DEF Flow, PushedInv
<1>9. InStep'
    <2>1. WholePackets(Cells(p))
        BY <1>0, <1>1, WholeCells
    <2>2. /\ \A i \in 1 .. Len(Pipe) : Pipe[i].packet \in 1 .. Len(mail)
          /\ WholePackets(Pipe)
        BY DEF Flow, PushedInv, InStep
    <2>3. \A i \in 1 .. Len(Cells(p)) : Cells(p)[i].packet \in 1 .. Len(mail)
        BY <1>1, <1>3
    <2>4. WholePackets(pipe)
        BY <1>0, <1>3, <2>1, <2>2, <2>3, WholeConcat
    <2> HIDE DEF pipe
    <2>5. QED
        BY <1>1, <1>2, <2>4 DEF InStep, WholePackets, Size
<1>10. PlacesInv'
    <2>1. \A q : Times([packet |-> q, place |-> 0], pipe)
                    = Times([packet |-> q, place |-> 0], Pipe) + (IF q = p THEN 1 ELSE 0)
        <3>1. ASSUME NEW q
              PROVE  Times([packet |-> q, place |-> 0], Pipe \o Cells(p))
                        = Times([packet |-> q, place |-> 0], Pipe) + (IF q = p THEN 1 ELSE 0)
            <4> DEFINE x == [packet |-> q, place |-> 0]
            <4>1. Times(x, Pipe \o Cells(p)) = Times(x, Pipe) + Times(x, Cells(p))
                BY <1>0, <1>3, TimesConcat
            <4>2. Times(x, Cells(p)) = IF q = p THEN 1 ELSE 0
                BY <1>0, <1>1, TimesCells
            <4> HIDE DEF x
            <4>3. QED
                BY <4>1, <4>2 DEF x
        <3>2. QED
            BY <3>1
    <2>2. \A x : Times(x, sendQ) \in Nat /\ Times(x, Pipe) \in Nat
        BY <1>0, TimesNat
    <2> HIDE DEF pipe
    <2>3. PlacesInv
        BY PlacesAre DEF Flow
    <2>4. ASSUME NEW q
          PROVE  Times(q, sendQ) + Times([packet |-> q, place |-> 0], pipe)
                    = Times(q, Waiting) + Times([packet |-> q, place |-> 0], Pipe)
        BY <1>5, <2>1, <2>2
    <2>5. QED
        BY <1>1, <1>2, <2>3, <2>4 DEF PlacesInv
<1>11. LineInv'
    <2> SUFFICES ASSUME ~requeued'
                 PROVE  /\ QueueLine(Waiting') /\ PipeLine(Pipe', Waiting')
                        /\ \A s \in Session : PassedLine(mail', Passed(s)', Pipe', Waiting')
        BY DEF LineInv
    <2> HIDE DEF pipe
    <2>1. /\ QueueLine(Waiting) /\ PipeLine(Pipe, Waiting)
          /\ \A s \in Session : PassedLine(mail, Passed(s), Pipe, Waiting)
        BY <1>2 DEF Flow, LineInv
    <2>2. \A j \in 1 .. Len(sendQ) : p < sendQ[j]
        <3>1. ASSUME NEW j \in 1 .. Len(sendQ) PROVE p < sendQ[j]
            <4>1. 1 \in 1 .. Len(Waiting) /\ j + 1 \in 1 .. Len(Waiting) /\ 1 < j + 1
                  /\ Waiting[j + 1] = sendQ[j]
                BY <1>5
            <4>2. QED
                BY <1>5, <2>1, <4>1 DEF QueueLine
        <3>2. QED
            BY <3>1
    <2>3. QueueLine(sendQ)
        <3>1. ASSUME NEW i \in 1 .. Len(sendQ), NEW j \in 1 .. Len(sendQ), i < j
              PROVE  sendQ[i] < sendQ[j]
            <4>1. i + 1 \in 1 .. Len(Waiting) /\ j + 1 \in 1 .. Len(Waiting) /\ i + 1 < j + 1
                  /\ Waiting[i + 1] = sendQ[i] /\ Waiting[j + 1] = sendQ[j]
                BY <1>5, <3>1
            <4>2. QED
                BY <2>1, <4>1 DEF QueueLine
        <3>2. QED
            BY <3>1 DEF QueueLine
    <2>4. \A i \in 1 .. Len(Pipe) : Pipe[i].packet < p
        <3>1. 1 \in 1 .. Len(Waiting)
            BY <1>5
        <3>2. QED
            BY <1>5, <2>1, <3>1 DEF PipeLine
    <2>5. PipeLine(pipe, sendQ)
        <3>1. ASSUME NEW i \in 1 .. Len(Pipe) + Size(p), NEW j \in 1 .. Len(Pipe) + Size(p), i < j
              PROVE  Earlier(pipe[i], pipe[j])
            <4>1. CASE j \in 1 .. Len(Pipe)
                <5>1. i \in 1 .. Len(Pipe)
                    BY <1>6, <3>1, <4>1
                <5>2. pipe[i] = Pipe[i] /\ pipe[j] = Pipe[j]
                    BY <1>6, <4>1, <5>1
                <5>3. QED
                    BY <2>1, <3>1, <4>1, <5>1, <5>2 DEF PipeLine
            <4>2. CASE j \in Len(Pipe) + 1 .. Len(Pipe) + Size(p)
                <5>1. pipe[j].packet = p /\ pipe[j].place = j - Len(Pipe) - 1
                    <6>1. pipe[j] = [packet |-> p, place |-> j - Len(Pipe) - 1]
                        BY <1>6, <4>2
                    <6>2. QED
                        BY <6>1
                <5>2. CASE i \in 1 .. Len(Pipe)
                    BY <1>6, <2>4, <5>1, <5>2 DEF Earlier
                <5>3. CASE i \in Len(Pipe) + 1 .. Len(Pipe) + Size(p)
                    <6>1. pipe[i].packet = p /\ pipe[i].place = i - Len(Pipe) - 1
                        <7>1. pipe[i] = [packet |-> p, place |-> i - Len(Pipe) - 1]
                            BY <1>6, <5>3
                        <7>2. QED
                            BY <7>1
                    <6>2. i - Len(Pipe) - 1 < j - Len(Pipe) - 1
                        BY <1>3, <1>6, <3>1
                    <6>3. QED
                        BY <5>1, <6>1, <6>2 DEF Earlier
                <5>4. QED
                    BY <1>7, <5>2, <5>3
            <4>3. QED
                BY <1>7, <4>1, <4>2
        <3>2. ASSUME NEW i \in 1 .. Len(Pipe) + Size(p), NEW j \in 1 .. Len(sendQ)
              PROVE  pipe[i].packet < sendQ[j]
            <4>1. CASE i \in 1 .. Len(Pipe) /\ pipe[i] = Pipe[i]
                <5>1. j + 1 \in 1 .. Len(Waiting) /\ Waiting[j + 1] = sendQ[j]
                    BY <1>5
                <5>2. QED
                    BY <2>1, <4>1, <5>1 DEF PipeLine
            <4>2. CASE pipe[i].packet = p
                BY <2>2, <4>2
            <4>3. QED
                BY <1>7, <4>1, <4>2
        <3>3. QED
            BY <1>6, <3>1, <3>2 DEF PipeLine
    <2>6. ASSUME NEW s \in Session PROVE PassedLine(mail, Passed(s), pipe, sendQ)
        <3>1. PassedLine(mail, Passed(s), Pipe, Waiting)
            BY <2>1
        <3>2. ASSUME NEW i \in 1 .. Len(Passed(s)), NEW j \in 1 .. Len(sendQ)
              PROVE  Passed(s)[i] < sendQ[j]
            <4>1. j + 1 \in 1 .. Len(Waiting) /\ Waiting[j + 1] = sendQ[j]
                BY <1>5
            <4>2. QED
                BY <3>1, <4>1 DEF PassedLine
        <3>3. ASSUME NEW i \in 1 .. Len(Passed(s)), NEW j \in 1 .. Len(Pipe) + Size(p)
              PROVE  NotAfter(mail, Passed(s)[i], pipe[j].packet)
            <4>1. CASE j \in 1 .. Len(Pipe) /\ pipe[j] = Pipe[j]
                BY <3>1, <4>1 DEF PassedLine
            <4>2. CASE pipe[j].packet = p
                <5>1. 1 \in 1 .. Len(Waiting)
                    BY <1>5
                <5>2. Passed(s)[i] < p
                    BY <1>5, <3>1, <5>1 DEF PassedLine
                <5>3. QED
                    BY <4>2, <5>2 DEF NotAfter
            <4>3. QED
                BY <1>7, <4>1, <4>2
        <3>4. QED
            BY <1>6, <3>1, <3>2, <3>3 DEF PassedLine
    <2>7. QED
        BY <1>1, <1>2, <1>4, <2>3, <2>5, <2>6
<1>12. NothingLost'
    BY <1>10, PlacesAre, PTL
<1>13. QED
    BY <1>8, <1>9, <1>11, <1>12 DEF Flow

\* The message the gate has handled is taken off the front of the pipe.
LEMMA PipeStep ==
    ASSUME TypeOK, SendInv, ReadInv, PushedInv, InStep, HasMessage, Step,
           UNCHANGED <<recvBuf, stream, wire, buf, bufLen>>
    PROVE  Pipe = Cells(AtHand) \o Pipe' /\ Pipe' \in Seq(Cell)
<1> DEFINE p == AtHand
           n == Size(p)
<1>0. /\ recvBuf \in Seq(Cell) /\ Len(recvBuf) \in Nat /\ stream \in Seq(Cell)
      /\ reader.at \in Nat /\ mail \in Seq(Packet)
      /\ Unread \in Seq(Cell) /\ Len(Unread) = BytesRECV
      /\ \A i \in 1 .. BytesRECV : Unread[i] = recvBuf[reader.at + i]
      /\ Unsent \in Seq(Cell) /\ Pipe \in Seq(Cell)
    BY PipeTypes, LenProperties DEF TypeOK
<1>1. /\ p \in Number /\ p \in 1 .. Len(mail)
      /\ n \in Nat /\ 1 <= n /\ n <= BytesRECV
      /\ Pipe # <<>> /\ p = Pipe[1].packet
      /\ \A i \in 1 .. BytesRECV : i \in 1 .. Len(Pipe) /\ Pipe[i] = Unread[i]
    BY AtHandIs
<1>2. \A i \in 1 .. n : Pipe[i] = Cells(p)[i]
    <2>1. /\ \A i \in 1 .. Len(Pipe) : Pipe[i].packet \in 1 .. Len(mail)
          /\ WholePackets(Pipe)
        BY DEF PushedInv, InStep
    <2>2. \A i \in 1 .. Size(Pipe[1].packet) : Pipe[i] = Cells(Pipe[1].packet)[i]
        BY <1>0, <1>1, <2>1, WholeFirst
    <2>3. QED
        BY <1>1, <2>2
<1>3. Cells(p) \in Seq(Cell) /\ Len(Cells(p)) = n
    BY <1>0, <1>1, CellsOf
<1>4. reader'.at = reader.at + n
    BY DEF Step
<1> HIDE DEF n, p
<1> DEFINE at == reader.at
           first == SubSeq(recvBuf, at + 1, at + n)
           rest == SubSeq(recvBuf, at + n + 1, Len(recvBuf))
<1>5. at + n <= Len(recvBuf) /\ at \in Nat /\ BytesRECV = Len(recvBuf) - at
    BY <1>0, <1>1 DEF BytesRECV
<1>6. \A i \in 1 .. Len(recvBuf) : recvBuf[i] \in Cell
    BY <1>0, ElementOfSeq
<1>7. /\ first \in Seq(Cell) /\ Len(first) = n
      /\ \A i \in 1 .. n : first[i] = recvBuf[at + i]
    <2>1. \A i \in at + 1 .. at + n : recvBuf[i] \in Cell
        <3>1. n \in Nat /\ Len(recvBuf) \in Nat
            BY <1>0, <1>1
        <3> HIDE DEF at
        <3>2. \A i \in at + 1 .. at + n : i \in 1 .. Len(recvBuf)
            BY <1>5, <3>1
        <3>3. QED
            BY <1>6, <3>2
    <2>2. at + 1 \in Int /\ at + n \in Int /\ (at + n) - (at + 1) + 1 = n /\ at + 1 <= at + n
        <3>1. n \in Nat /\ 1 <= n /\ at \in Nat
            BY <1>1, <1>5
        <3> HIDE DEF at
        <3>2. QED
            BY <3>1
    <2>3. /\ first \in Seq(Cell)
          /\ Len(first) = IF at + 1 <= at + n THEN (at + n) - (at + 1) + 1 ELSE 0
          /\ \A i \in 1 .. (at + n) - (at + 1) + 1 : first[i] = recvBuf[(at + 1) + i - 1]
        BY <2>1, <2>2, SubSeqProperties
    <2>4. \A i \in 1 .. n : (at + 1) + i - 1 = at + i
        <3>1. n \in Nat /\ at \in Nat
            BY <1>1, <1>5
        <3> HIDE DEF at
        <3>2. QED
            BY <3>1
    <2> HIDE DEF first, at
    <2>5. QED
        BY <2>2, <2>3, <2>4
<1>8. first = Cells(p)
    <2>1. ASSUME NEW i \in 1 .. n PROVE first[i] = Cells(p)[i]
        <3>1. i \in 1 .. BytesRECV
            BY <1>0, <1>1, <1>5
        <3>2. QED
            BY <1>0, <1>1, <1>2, <1>7, <3>1
    <2> HIDE DEF first
    <2>2. QED
        BY <1>3, <1>7, <2>1, SeqEqual
<1>9. rest \in Seq(Cell)
    <2>1. \A i \in at + n + 1 .. Len(recvBuf) : recvBuf[i] \in Cell
        BY <1>0, <1>1, <1>5, <1>6
    <2>2. at + n + 1 \in Int /\ Len(recvBuf) \in Int
        BY <1>0, <1>1, <1>5
    <2>3. QED
        BY <2>1, <2>2, SubSeqProperties
<1>10. Unread = Cells(p) \o rest
    <2>1. at + 1 \in 1 .. Len(recvBuf) + 1 /\ at + n \in (at + 1) - 1 .. Len(recvBuf)
          /\ Len(recvBuf) \in at + n .. Len(recvBuf)
        <3>1. n \in Nat /\ Len(recvBuf) \in Nat
            BY <1>0, <1>1
        <3> HIDE DEF at
        <3>2. QED
            BY <1>5, <3>1
    <2>2. SubSeq(recvBuf, at + 1, at + n) \o SubSeq(recvBuf, (at + n) + 1, Len(recvBuf))
            = SubSeq(recvBuf, at + 1, Len(recvBuf))
        BY <1>0, <2>1, ConcatAdjacentSubSeq
    <2>3. QED
        BY <1>8, <2>2 DEF Unread
<1>11. Unread' = rest
    BY <1>4 DEF Unread
<1>12. Unsent' = Unsent /\ stream' = stream
    BY DEF Unsent
<1> HIDE DEF first, rest, at
<1>13. rest \o stream \in Seq(Cell) /\ (rest \o stream) \o Unsent \in Seq(Cell)
    BY <1>0, <1>9, ConcatProperties
<1>14. (Cells(p) \o rest) \o stream = Cells(p) \o (rest \o stream)
    <2>1. Cells(p) \in Seq(Cell) /\ rest \in Seq(Cell) /\ stream \in Seq(Cell)
        BY <1>0, <1>3, <1>9
    <2>2. QED
        BY <2>1, ConcatAssociative
<1>15. (Cells(p) \o (rest \o stream)) \o Unsent = Cells(p) \o ((rest \o stream) \o Unsent)
    <2> DEFINE b == rest \o stream
    <2>1. b \in Seq(Cell) /\ Cells(p) \in Seq(Cell) /\ Unsent \in Seq(Cell)
        BY <1>0, <1>3, <1>13
    <2> HIDE DEF b
    <2>2. (Cells(p) \o b) \o Unsent = Cells(p) \o (b \o Unsent)
        BY <2>1, ConcatAssociative
    <2>3. QED
        BY <2>2 DEF b
<1>16. Pipe' = (rest \o stream) \o Unsent
    BY <1>11, <1>12 DEF Pipe
<1>17. Pipe = Cells(p) \o Pipe'
    BY <1>10, <1>14, <1>15, <1>16 DEF Pipe
<1>18. QED
    BY <1>13, <1>16, <1>17 DEF p

\* What a session has once the gate has tried to pass a packet on to it.
LEMMA CopyEffect ==
    ASSUME TypeOK, PushedInv, NEW p \in Number, p \in 1 .. Len(mail), NEW s \in Session,
           Copy(p, s), got' = got
    PROVE  /\ \A t \in Session : t # s => Passed(t)' = Passed(t)
           /\ Passed(s)' = Passed(s) \/ Passed(s)' = Append(Passed(s), p)
           /\ \A t \in Session : \A i \in 1 .. Len(dropped'[t]) : dropped'[t][i] \in 1 .. Len(mail)
           /\ \A q : \A t \in Session :
                Held(out', got', dropped', q, t)
                    = Held(out, got, dropped, q, t) + (IF q = p /\ t = s THEN 1 ELSE 0)
<1>0. /\ out \in [Session -> Seq(Number)] /\ got \in [Session -> Seq(Number)]
      /\ dropped \in [Session -> Seq(Number)]
    BY DEF TypeOK
<1>1. \/ dropped' = [dropped EXCEPT ![s] = Append(@, p)] /\ out' = out
      \/ out' = [out EXCEPT ![s] = Append(@, p)] /\ dropped' = dropped
    BY DEF Copy
<1>2. \A t \in Session : t # s => out'[t] = out[t] /\ dropped'[t] = dropped[t]
    BY <1>0, <1>1
<1>3. \/ dropped'[s] = Append(dropped[s], p) /\ out'[s] = out[s]
      \/ out'[s] = Append(out[s], p) /\ dropped'[s] = dropped[s]
    BY <1>0, <1>1
<1>4. ASSUME NEW t \in Session, t # s PROVE Passed(t)' = Passed(t)
    BY <1>2, <1>4 DEF Passed
<1>5. Passed(s)' = Passed(s) \/ Passed(s)' = Append(Passed(s), p)
    <2>1. got[s] \o Append(out[s], p) = Append(got[s] \o out[s], p)
        BY <1>0, ConcatAppend
    <2>2. QED
        BY <1>3, <2>1 DEF Passed
<1>6. ASSUME NEW t \in Session
      PROVE  \A i \in 1 .. Len(dropped'[t]) : dropped'[t][i] \in 1 .. Len(mail)
    <2>1. \A i \in 1 .. Len(dropped[t]) : dropped[t][i] \in 1 .. Len(mail)
        BY DEF PushedInv
    <2>2. CASE dropped'[t] = dropped[t]
        BY <2>1, <2>2
    <2>3. CASE t = s /\ dropped'[t] = Append(dropped[t], p)
        <3>1. /\ Len(Append(dropped[t], p)) = Len(dropped[t]) + 1 /\ Len(dropped[t]) \in Nat
              /\ \A i \in 1 .. Len(dropped[t]) : Append(dropped[t], p)[i] = dropped[t][i]
              /\ Append(dropped[t], p)[Len(dropped[t]) + 1] = p
            BY <1>0, AppendProperties, LenProperties
        <3>2. QED
            BY <2>1, <2>3, <3>1
    <2>4. QED
        BY <1>2, <1>3, <2>2, <2>3
<1>7. ASSUME NEW q, NEW t \in Session
      PROVE  Held(out', got', dropped', q, t)
                = Held(out, got, dropped, q, t) + (IF q = p /\ t = s THEN 1 ELSE 0)
    <2>1. Times(q, out[t]) \in Nat /\ Times(q, got[t]) \in Nat /\ Times(q, dropped[t]) \in Nat
        BY <1>0, TimesNat
    <2>2. CASE t # s
        BY <1>2, <2>1, <2>2 DEF Held
    <2>3. CASE t = s
        <3>1. Times(q, Append(out[s], p)) = Times(q, out[s]) + (IF q = p THEN 1 ELSE 0)
              /\ Times(q, Append(dropped[s], p)) = Times(q, dropped[s]) + (IF q = p THEN 1 ELSE 0)
            BY <1>0, TimesAppend
        <3>2. CASE dropped'[s] = Append(dropped[s], p) /\ out'[s] = out[s]
            BY <2>1, <2>3, <3>1, <3>2 DEF Held
        <3>3. CASE out'[s] = Append(out[s], p) /\ dropped'[s] = dropped[s]
            BY <2>1, <2>3, <3>1, <3>3 DEF Held
        <3>4. QED
            BY <1>3, <3>2, <3>3
    <2>4. QED
        BY <2>2, <2>3
<1>8. QED
    BY <1>4, <1>5, <1>6, <1>7

\* One more packet passed on, at its place in the line.
LEMMA PassedNext ==
    ASSUME NEW posts, NEW passed \in Seq(Number), NEW p \in Number, NEW cells, NEW queue,
           PassedLine(posts, passed, cells, queue),
           \A i \in 1 .. Len(passed) : NotAfter(posts, passed[i], p),
           \A j \in 1 .. Len(cells) : NotAfter(posts, p, cells[j].packet),
           \A j \in 1 .. Len(queue) : p < queue[j]
    PROVE  PassedLine(posts, Append(passed, p), cells, queue)
<1> DEFINE more == Append(passed, p)
<1>1. /\ Len(passed) \in Nat /\ Len(more) = Len(passed) + 1
      /\ \A i \in 1 .. Len(passed) : more[i] = passed[i]
      /\ more[Len(passed) + 1] = p
    BY AppendProperties, LenProperties
<1> HIDE DEF more
<1>2. ASSUME NEW i \in 1 .. Len(passed) + 1
      PROVE  (i \in 1 .. Len(passed) /\ more[i] = passed[i]) \/ (i = Len(passed) + 1 /\ more[i] = p)
    <2>1. i \in 1 .. Len(passed) \/ i = Len(passed) + 1
        BY <1>1
    <2>2. QED
        BY <1>1, <2>1
<1>3. ASSUME NEW i \in 1 .. Len(passed) + 1, NEW j \in 1 .. Len(passed) + 1, i < j
      PROVE  NotAfter(posts, more[i], more[j])
    <2>1. i \in 1 .. Len(passed) /\ more[i] = passed[i]
        BY <1>1, <1>3
    <2>2. CASE j \in 1 .. Len(passed) /\ more[j] = passed[j]
        BY <1>3, <2>1, <2>2 DEF PassedLine
    <2>3. CASE more[j] = p
        BY <2>1, <2>3
    <2>4. QED
        BY <1>2, <2>2, <2>3
<1>4. ASSUME NEW i \in 1 .. Len(passed) + 1, NEW j \in 1 .. Len(cells)
      PROVE  NotAfter(posts, more[i], cells[j].packet)
    BY <1>2 DEF PassedLine
<1>5. ASSUME NEW i \in 1 .. Len(passed) + 1, NEW j \in 1 .. Len(queue)
      PROVE  more[i] < queue[j]
    BY <1>2 DEF PassedLine
<1>6. PassedLine(posts, more, cells, queue)
    BY <1>1, <1>3, <1>4, <1>5 DEF PassedLine
<1>7. QED
    BY <1>6 DEF more

\* What is behind the message at hand.
LEMMA BehindAtHand ==
    ASSUME TypeOK, SendInv, ReadInv, Flow, HasMessage, Step,
           UNCHANGED <<recvBuf, stream, wire, buf, bufLen>>
    PROVE  /\ \A i \in 1 .. Len(Pipe') : Pipe'[i].packet \in 1 .. Len(mail)
           /\ WholePackets(Pipe')
           /\ \A q : Times([packet |-> q, place |-> 0], Pipe)
                        = Times([packet |-> q, place |-> 0], Pipe') + (IF q = AtHand THEN 1 ELSE 0)
           /\ ~requeued =>
                /\ PipeLine(Pipe', Waiting)
                /\ \A j \in 1 .. Len(Pipe') : AtHand < Pipe'[j].packet
                /\ \A s \in Session : PassedLine(mail, Passed(s), Pipe', Waiting)
<1> DEFINE p == AtHand
           n == Size(p)
           rest == Pipe'
<1>0. mail \in Seq(Packet) /\ Pipe \in Seq(Cell) /\ Waiting \in Seq(Number)
    BY PipeTypes DEF TypeOK
<1>1. Pipe = Cells(p) \o rest /\ rest \in Seq(Cell)
    BY PipeStep DEF Flow
<1>2. p \in Number /\ p \in 1 .. Len(mail) /\ n \in Nat /\ 1 <= n
    BY AtHandIs DEF Flow
<1>3. /\ Cells(p) \in Seq(Cell) /\ Len(Cells(p)) = n
      /\ \A i \in 1 .. n : Cells(p)[i] = [packet |-> p, place |-> i - 1]
    BY <1>0, <1>2, CellsOf
<1>4. PushedInv /\ InStep
    BY DEF Flow
<1> HIDE DEF p, n, rest
<1>5. /\ Len(rest) \in Nat /\ Len(Pipe) = n + Len(rest)
      /\ \A i \in 1 .. n : i \in 1 .. Len(Pipe) /\ Pipe[i] = [packet |-> p, place |-> i - 1]
      /\ \A j \in 1 .. Len(rest) : n + j \in 1 .. Len(Pipe) /\ Pipe[n + j] = rest[j]
    <2>1. /\ Len(Pipe) = Len(Cells(p)) + Len(rest)
          /\ \A i \in 1 .. Len(Cells(p)) + Len(rest) :
                Pipe[i] = IF i <= Len(Cells(p)) THEN Cells(p)[i] ELSE rest[i - Len(Cells(p))]
        BY <1>1, <1>3, ConcatProperties
    <2>2. Len(rest) \in Nat
        BY <1>1, LenProperties
    <2>3. ASSUME NEW i \in 1 .. n
          PROVE  i \in 1 .. Len(Pipe) /\ Pipe[i] = [packet |-> p, place |-> i - 1]
        <3>1. i \in 1 .. n + Len(rest) /\ i <= n
            BY <1>2, <2>2
        <3>2. QED
            BY <1>3, <2>1, <3>1
    <2>4. ASSUME NEW j \in 1 .. Len(rest)
          PROVE  n + j \in 1 .. Len(Pipe) /\ Pipe[n + j] = rest[j]
        <3>1. n + j \in 1 .. n + Len(rest) /\ ~(n + j <= n) /\ (n + j) - n = j
            BY <1>2, <2>2
        <3>2. QED
            BY <1>3, <2>1, <3>1
    <2>5. QED
        BY <1>3, <2>1, <2>2, <2>3, <2>4
<1>6. \A i \in 1 .. Len(rest) : rest[i].packet \in 1 .. Len(mail)
    BY <1>4, <1>5 DEF PushedInv
<1>7. WholePackets(rest)
    <2>1. WholePackets(Cells(p) \o rest)
        BY <1>1, <1>4 DEF InStep
    <2>2. QED
        BY <1>0, <1>1, <1>2, <1>6, <2>1, WholeRest
<1>8. ASSUME NEW q
      PROVE  Times([packet |-> q, place |-> 0], Pipe)
                = Times([packet |-> q, place |-> 0], rest) + (IF q = p THEN 1 ELSE 0)
    <2> DEFINE x == [packet |-> q, place |-> 0]
    <2>1. Times(x, Cells(p) \o rest) = Times(x, Cells(p)) + Times(x, rest)
        BY <1>1, <1>3, TimesConcat
    <2>2. Times(x, Cells(p)) = IF q = p THEN 1 ELSE 0
        BY <1>0, <1>2, TimesCells
    <2>3. Times(x, rest) \in Nat
        BY <1>1, TimesNat
    <2> HIDE DEF x
    <2>4. Times(x, Pipe) = Times(x, rest) + (IF q = p THEN 1 ELSE 0)
        BY <1>1, <2>1, <2>2, <2>3
    <2>5. QED
        BY <2>4 DEF x
<1>9. ASSUME ~requeued
      PROVE  /\ PipeLine(rest, Waiting)
             /\ \A j \in 1 .. Len(rest) : p < rest[j].packet
             /\ \A s \in Session : PassedLine(mail, Passed(s), rest, Waiting)
    <2>1. /\ PipeLine(Pipe, Waiting)
          /\ \A s \in Session : PassedLine(mail, Passed(s), Pipe, Waiting)
        BY <1>9 DEF Flow, LineInv
    <2>2. ASSUME NEW i \in 1 .. Len(rest), NEW j \in 1 .. Len(rest), i < j
          PROVE  Earlier(rest[i], rest[j])
        <3>1. n + i \in 1 .. Len(Pipe) /\ n + j \in 1 .. Len(Pipe) /\ n + i < n + j
              /\ Pipe[n + i] = rest[i] /\ Pipe[n + j] = rest[j]
            BY <1>2, <1>5, <2>2
        <3>2. QED
            BY <2>1, <3>1 DEF PipeLine
    <2>3. ASSUME NEW i \in 1 .. Len(rest), NEW j \in 1 .. Len(Waiting)
          PROVE  rest[i].packet < Waiting[j]
        BY <1>5, <2>1 DEF PipeLine
    <2>4. PipeLine(rest, Waiting)
        BY <2>2, <2>3 DEF PipeLine
    <2>5. ASSUME NEW j \in 1 .. Len(rest) PROVE p < rest[j].packet
        <3>1. n \in 1 .. Len(Pipe) /\ n + j \in 1 .. Len(Pipe) /\ n < n + j
              /\ Pipe[n] = [packet |-> p, place |-> n - 1] /\ Pipe[n + j] = rest[j]
            <4>1. n \in 1 .. n /\ n + j \in Nat /\ n < n + j
                BY <1>2
            <4>2. QED
                BY <1>5, <4>1
        <3>2. Earlier(Pipe[n], Pipe[n + j])
            BY <2>1, <3>1 DEF PipeLine
        <3>3. p < rest[j].packet \/ (p = rest[j].packet /\ n - 1 < rest[j].place)
            BY <3>1, <3>2 DEF Earlier
        <3>4. rest[j].packet = p => rest[j].place < n
            <4>1. j < j - rest[j].place + Size(rest[j].packet)
                BY <1>7 DEF WholePackets
            <4>2. rest[j] \in Cell
                BY <1>1, ElementOfSeq
            <4>3. rest[j].place \in Nat
                BY <4>2, CellNumbers
            <4>4. QED
                BY <1>2, <4>1, <4>3 DEF n
        <3>5. rest[j].place \in Nat
            <4>1. rest[j] \in Cell
                BY <1>1, ElementOfSeq
            <4>2. QED
                BY <4>1, CellNumbers
        <3>6. QED
            BY <1>2, <3>3, <3>4, <3>5
    <2>6. ASSUME NEW s \in Session PROVE PassedLine(mail, Passed(s), rest, Waiting)
        <3>1. PassedLine(mail, Passed(s), Pipe, Waiting)
            BY <2>1
        <3>2. \A i \in 1 .. Len(Passed(s)), j \in 1 .. Len(rest) :
                NotAfter(mail, Passed(s)[i], rest[j].packet)
            BY <1>5, <3>1 DEF PassedLine
        <3>3. QED
            BY <3>1, <3>2 DEF PassedLine
    <2>7. QED
        BY <2>4, <2>5, <2>6
<1>10. QED
    BY <1>6, <1>7, <1>8, <1>9 DEF p, rest

\* The packet at hand is the next in line for every session.
LEMMA AtHandNext ==
    ASSUME TypeOK, SendInv, ReadInv, Flow, HasMessage, ~requeued
    PROVE  /\ \A j \in 1 .. Len(Waiting) : AtHand < Waiting[j]
           /\ \A j \in 1 .. Len(Pipe) : AtHand = Pipe[j].packet \/ AtHand < Pipe[j].packet
           /\ \A s \in Session : \A i \in 1 .. Len(Passed(s)) : NotAfter(mail, Passed(s)[i], AtHand)
<1>1. Pipe # <<>> /\ AtHand = Pipe[1].packet /\ Pipe \in Seq(Cell)
    BY AtHandIs, PipeTypes DEF Flow
<1>2. 1 \in 1 .. Len(Pipe) /\ Len(Pipe) \in Nat
    BY <1>1, EmptySeq
<1>3. /\ PipeLine(Pipe, Waiting)
      /\ \A s \in Session : PassedLine(mail, Passed(s), Pipe, Waiting)
    BY DEF Flow, LineInv
<1>4. \A j \in 1 .. Len(Waiting) : AtHand < Waiting[j]
    BY <1>1, <1>2, <1>3 DEF PipeLine
<1>5. ASSUME NEW j \in 1 .. Len(Pipe)
      PROVE  AtHand = Pipe[j].packet \/ AtHand < Pipe[j].packet
    <2>1. CASE j = 1
        BY <1>1, <2>1
    <2>2. CASE j # 1
        <3>1. 1 < j
            BY <1>2, <2>2
        <3>2. Earlier(Pipe[1], Pipe[j])
            BY <1>2, <1>3, <3>1 DEF PipeLine
        <3>3. QED
            BY <1>1, <3>2 DEF Earlier
    <2>3. QED
        BY <2>1, <2>2
<1>6. ASSUME NEW s \in Session, NEW i \in 1 .. Len(Passed(s))
      PROVE  NotAfter(mail, Passed(s)[i], AtHand)
    BY <1>1, <1>2, <1>3 DEF PassedLine
<1>7. QED
    BY <1>4, <1>5, <1>6

\* The order of the main loop's queue is not the gate's business.
LEMMA PassedPushed ==
    ASSUME TypeOK, PushedInv, NEW p \in Number, p \in 1 .. Len(mail), NEW s \in Session,
           Passed(s)' = Passed(s) \/ Passed(s)' = Append(Passed(s), p)
    PROVE  \A i \in 1 .. Len(Passed(s)') : Passed(s)'[i] \in 1 .. Len(mail)
<1>1. Passed(s) \in Seq(Number)
    BY WithIs
<1>2. \A i \in 1 .. Len(Passed(s)) : Passed(s)[i] \in 1 .. Len(mail)
    BY DEF PushedInv
<1>3. ASSUME NEW i \in 1 .. Len(Append(Passed(s), p))
      PROVE  Append(Passed(s), p)[i] \in 1 .. Len(mail)
    <2>1. /\ Len(Passed(s)) \in Nat /\ Len(Append(Passed(s), p)) = Len(Passed(s)) + 1
          /\ \A k \in 1 .. Len(Passed(s)) : Append(Passed(s), p)[k] = Passed(s)[k]
          /\ Append(Passed(s), p)[Len(Passed(s)) + 1] = p
        BY <1>1, AppendProperties, LenProperties
    <2>2. i \in 1 .. Len(Passed(s)) \/ i = Len(Passed(s)) + 1
        BY <2>1
    <2>3. QED
        BY <1>2, <2>1, <2>2
<1>4. QED
    BY <1>2, <1>3

\* A reply the gate passes on is behind what the session has, before the rest.
LEMMA FlowProcess ==
    ASSUME TypeOK, SendInv, ReadInv, Flow, Process
    PROVE  Flow'
<1> DEFINE p == AtHand
<1> USE DEF serverVars, gateVars
<1>0. /\ HasMessage /\ ~mail[p].broadcast /\ Copy(p, mail[p].to) /\ Step
      /\ UNCHANGED <<recvBuf, stream, wire, buf, bufLen>>
      /\ UNCHANGED <<mail, sendQ, main, requeued, got>>
    BY DEF Process
<1>1. p \in Number /\ p \in 1 .. Len(mail)
    BY <1>0, AtHandIs DEF Flow
<1>2. PICK s \in Session : s = mail[p].to
    <2>1. mail[p] \in Packet
        BY <1>1, SizeOf DEF TypeOK
    <2>2. mail[p].to \in Session
        BY <2>1 DEF Packet
    <2> HIDE DEF p
    <2>3. QED
        BY <2>2
<1>3. Waiting' = Waiting
    BY <1>0 DEF Waiting
<1>4. /\ \A i \in 1 .. Len(Pipe') : Pipe'[i].packet \in 1 .. Len(mail)
      /\ WholePackets(Pipe')
      /\ \A q : Times([packet |-> q, place |-> 0], Pipe)
                   = Times([packet |-> q, place |-> 0], Pipe') + (IF q = p THEN 1 ELSE 0)
      /\ ~requeued =>
            /\ PipeLine(Pipe', Waiting)
            /\ \A j \in 1 .. Len(Pipe') : p < Pipe'[j].packet
            /\ \A t \in Session : PassedLine(mail, Passed(t), Pipe', Waiting)
    BY <1>0, BehindAtHand
<1>5. PushedInv /\ InStep /\ PlacesInv
    BY PlacesAre DEF Flow
<1> HIDE DEF p
<1>6. /\ \A t \in Session : t # s => Passed(t)' = Passed(t)
      /\ Passed(s)' = Passed(s) \/ Passed(s)' = Append(Passed(s), p)
      /\ \A t \in Session : \A i \in 1 .. Len(dropped'[t]) : dropped'[t][i] \in 1 .. Len(mail)
      /\ \A q : \A t \in Session :
            Held(out', got', dropped', q, t)
                = Held(out, got, dropped, q, t) + (IF q = p /\ t = s THEN 1 ELSE 0)
    <2>1. Copy(p, s) /\ got' = got
        BY <1>0, <1>2
    <2>2. QED
        BY <1>1, <1>5, <2>1, CopyEffect
<1>7. PushedInv'
    <2>1. ASSUME NEW t \in Session
          PROVE  \A i \in 1 .. Len(Passed(t)') : Passed(t)'[i] \in 1 .. Len(mail)
        <3>1. Passed(t)' = Passed(t) \/ Passed(t)' = Append(Passed(t), p)
            <4>1. CASE t = s
                BY <1>6, <4>1
            <4>2. CASE t # s
                BY <1>6, <4>2
            <4>3. QED
                BY <4>1, <4>2
        <3>2. QED
            BY <1>1, <1>5, <3>1, PassedPushed
    <2>2. QED
        BY <1>0, <1>3, <1>4, <1>5, <1>6, <2>1 DEF PushedInv
<1>8. InStep'
    BY <1>0, <1>4 DEF InStep, WholePackets, Size
<1>9. PlacesInv'
    <2>1. ASSUME NEW q \in DOMAIN mail, ~mail[q].broadcast
          PROVE  /\ Times(q, Waiting) + Times([packet |-> q, place |-> 0], Pipe')
                        + Held(out', got', dropped', q, mail[q].to) = 1
                 /\ \A t \in Session \ {mail[q].to} : Held(out', got', dropped', q, t) = 0
        <3>1. /\ Times(q, Waiting) + Times([packet |-> q, place |-> 0], Pipe)
                    + Held(out, got, dropped, q, mail[q].to) = 1
              /\ \A t \in Session \ {mail[q].to} : Held(out, got, dropped, q, t) = 0
            BY <1>5, <2>1 DEF PlacesInv
        <3>2. mail[q].to \in Session
            <4>1. mail \in Seq(Packet) /\ q \in 1 .. Len(mail)
                BY LenProperties DEF TypeOK
            <4>2. mail[q] \in Packet
                BY <4>1, SizeOf
            <4>3. QED
                BY <4>2 DEF Packet
        <3>3. /\ Times(q, Waiting) \in Nat
              /\ Times([packet |-> q, place |-> 0], Pipe') \in Nat
              /\ Held(out, got, dropped, q, mail[q].to) \in Nat
            <4>1. Waiting \in Seq(Number)
                BY PipeTypes
            <4>2. Pipe' \in Seq(Cell)
                BY <1>0, <1>5, PipeStep
            <4>3. /\ Times(q, Passed(mail[q].to)) \in Nat /\ Times(q, dropped[mail[q].to]) \in Nat
                  /\ Held(out, got, dropped, q, mail[q].to)
                        = Times(q, Passed(mail[q].to)) + Times(q, dropped[mail[q].to])
                BY <3>2, WithIs
            <4>4. QED
                BY <4>1, <4>2, <4>3, TimesNat
        <3>4. q = p => mail[q].to = s
            BY <1>2
        <3>5. Times([packet |-> q, place |-> 0], Pipe)
                = Times([packet |-> q, place |-> 0], Pipe') + (IF q = p THEN 1 ELSE 0)
            BY <1>4
        <3>6. Held(out', got', dropped', q, mail[q].to)
                = Held(out, got, dropped, q, mail[q].to) + (IF q = p THEN 1 ELSE 0)
            BY <1>6, <3>2, <3>4
        <3>7. Times(q, Waiting) + Times([packet |-> q, place |-> 0], Pipe')
                  + Held(out', got', dropped', q, mail[q].to) = 1
            BY <3>1, <3>3, <3>5, <3>6
        <3>8. ASSUME NEW t \in Session \ {mail[q].to}
              PROVE  Held(out', got', dropped', q, t) = 0
            <4>1. ~(q = p /\ t = s)
                BY <3>4
            <4>2. QED
                BY <1>6, <3>1, <4>1
        <3>9. QED
            BY <3>7, <3>8
    <2>2. QED
        BY <1>0, <1>3, <2>1 DEF PlacesInv
<1>10. LineInv'
    <2> SUFFICES ASSUME ~requeued'
                 PROVE  /\ QueueLine(Waiting') /\ PipeLine(Pipe', Waiting')
                        /\ \A t \in Session : PassedLine(mail', Passed(t)', Pipe', Waiting')
        BY DEF LineInv
    <2>1. ~requeued /\ QueueLine(Waiting)
        BY <1>0 DEF Flow, LineInv
    <2>2. /\ PipeLine(Pipe', Waiting)
          /\ \A j \in 1 .. Len(Pipe') : p < Pipe'[j].packet
          /\ \A t \in Session : PassedLine(mail, Passed(t), Pipe', Waiting)
        BY <1>4, <2>1
    <2>3. /\ \A j \in 1 .. Len(Waiting) : p < Waiting[j]
          /\ \A i \in 1 .. Len(Passed(s)) : NotAfter(mail, Passed(s)[i], p)
        BY <1>0, <1>2, <2>1, AtHandNext DEF p
    <2>4. \A j \in 1 .. Len(Pipe') : NotAfter(mail, p, Pipe'[j].packet)
        BY <2>2 DEF NotAfter
    <2>5. PassedLine(mail, Append(Passed(s), p), Pipe', Waiting)
        <3>1. Passed(s) \in Seq(Number) /\ PassedLine(mail, Passed(s), Pipe', Waiting)
            BY <1>2, <2>2, WithIs
        <3>2. QED
            BY <1>1, <2>3, <2>4, <3>1, PassedNext
    <2>6. ASSUME NEW t \in Session PROVE PassedLine(mail, Passed(t)', Pipe', Waiting)
        <3>1. CASE t = s
            BY <1>6, <2>2, <2>5, <3>1
        <3>2. CASE t # s
            BY <1>6, <2>2, <3>2
        <3>3. QED
            BY <3>1, <3>2
    <2>7. QED
        BY <1>0, <1>3, <2>1, <2>2, <2>6
<1>11. NothingLost'
    BY <1>9, PlacesAre, PTL
<1>12. QED
    BY <1>7, <1>8, <1>10, <1>11 DEF Flow

\* A broadcast the gate passes on may come to a session again, but stays in line.
LEMMA FlowPass ==
    ASSUME TypeOK, SendInv, ReadInv, Flow, HasMessage, mail[AtHand].broadcast,
           NEW s \in Session, Copy(AtHand, s), got' = got,
           Pipe' = Pipe, Waiting' = Waiting, UNCHANGED <<mail, requeued>>
    PROVE  Flow'
<1> DEFINE p == AtHand
<1>1. p \in Number /\ p \in 1 .. Len(mail)
    BY AtHandIs DEF Flow
<1>2. PushedInv /\ InStep /\ PlacesInv
    BY PlacesAre DEF Flow
<1>3. mail[p].broadcast
    OBVIOUS
<1>4. ~requeued =>
        /\ \A j \in 1 .. Len(Waiting) : p < Waiting[j]
        /\ \A j \in 1 .. Len(Pipe) : p = Pipe[j].packet \/ p < Pipe[j].packet
        /\ \A t \in Session : \A i \in 1 .. Len(Passed(t)) : NotAfter(mail, Passed(t)[i], p)
    BY AtHandNext
<1>5. Copy(p, s)
    OBVIOUS
<1> HIDE DEF p
<1>6. /\ \A t \in Session : t # s => Passed(t)' = Passed(t)
      /\ Passed(s)' = Passed(s) \/ Passed(s)' = Append(Passed(s), p)
      /\ \A t \in Session : \A i \in 1 .. Len(dropped'[t]) : dropped'[t][i] \in 1 .. Len(mail)
      /\ \A q : \A t \in Session :
            Held(out', got', dropped', q, t)
                = Held(out, got, dropped, q, t) + (IF q = p /\ t = s THEN 1 ELSE 0)
    BY <1>1, <1>2, <1>5, CopyEffect
<1>7. PushedInv'
    <2>1. ASSUME NEW t \in Session
          PROVE  \A i \in 1 .. Len(Passed(t)') : Passed(t)'[i] \in 1 .. Len(mail)
        <3>1. Passed(t)' = Passed(t) \/ Passed(t)' = Append(Passed(t), p)
            <4>1. CASE t = s
                BY <1>6, <4>1
            <4>2. CASE t # s
                BY <1>6, <4>2
            <4>3. QED
                BY <4>1, <4>2
        <3>2. QED
            BY <1>1, <1>2, <3>1, PassedPushed
    <2>2. QED
        BY <1>2, <1>6, <2>1 DEF PushedInv
<1>8. InStep'
    BY <1>2 DEF InStep, WholePackets, Size
<1>9. PlacesInv'
    <2>1. ASSUME NEW q \in DOMAIN mail, ~mail[q].broadcast, NEW t \in Session
          PROVE  Held(out', got', dropped', q, t) = Held(out, got, dropped, q, t)
        <3>1. q # p
            BY <1>3, <2>1
        <3>2. Times(q, Passed(t)) \in Nat /\ Times(q, dropped[t]) \in Nat
              /\ Held(out, got, dropped, q, t) = Times(q, Passed(t)) + Times(q, dropped[t])
            BY WithIs
        <3>3. QED
            BY <1>6, <3>1, <3>2
    <2>2. ASSUME NEW q \in DOMAIN mail PROVE mail[q].to \in Session
        <3>1. mail \in Seq(Packet) /\ q \in 1 .. Len(mail)
            BY LenProperties DEF TypeOK
        <3>2. mail[q] \in Packet
            BY <3>1, SizeOf
        <3>3. QED
            BY <3>2 DEF Packet
    <2>3. QED
        BY <1>2, <2>1, <2>2 DEF PlacesInv
<1>10. LineInv'
    <2> SUFFICES ASSUME ~requeued'
                 PROVE  /\ QueueLine(Waiting') /\ PipeLine(Pipe', Waiting')
                        /\ \A t \in Session : PassedLine(mail', Passed(t)', Pipe', Waiting')
        BY DEF LineInv
    <2>1. /\ QueueLine(Waiting) /\ PipeLine(Pipe, Waiting)
          /\ \A t \in Session : PassedLine(mail, Passed(t), Pipe, Waiting)
        BY DEF Flow, LineInv
    <2>2. \A j \in 1 .. Len(Pipe) : NotAfter(mail, p, Pipe[j].packet)
        BY <1>3, <1>4 DEF NotAfter
    <2>3. PassedLine(mail, Append(Passed(s), p), Pipe, Waiting)
        <3>1. Passed(s) \in Seq(Number) /\ PassedLine(mail, Passed(s), Pipe, Waiting)
            BY <2>1, WithIs
        <3>2. /\ \A j \in 1 .. Len(Waiting) : p < Waiting[j]
              /\ \A i \in 1 .. Len(Passed(s)) : NotAfter(mail, Passed(s)[i], p)
            BY <1>4
        <3>3. QED
            BY <1>1, <2>2, <3>1, <3>2, PassedNext
    <2>4. ASSUME NEW t \in Session PROVE PassedLine(mail, Passed(t)', Pipe, Waiting)
        <3>1. CASE t = s
            BY <1>6, <2>1, <2>3, <3>1
        <3>2. CASE t # s
            BY <1>6, <2>1, <3>2
        <3>3. QED
            BY <3>1, <3>2
    <2>5. QED
        BY <2>1, <2>4
<1>11. NothingLost'
    BY <1>9, PlacesAre, PTL
<1>12. QED
    BY <1>7, <1>8, <1>10, <1>11 DEF Flow

\* Behind the last entry of wUserList the gate goes on to the next message.
LEMMA FlowStep ==
    ASSUME TypeOK, SendInv, ReadInv, Flow, HasMessage, mail[AtHand].broadcast, Step,
           UNCHANGED <<recvBuf, stream, wire, buf, bufLen>>,
           Waiting' = Waiting, UNCHANGED <<mail, requeued, out, got, dropped>>
    PROVE  Flow'
<1> DEFINE p == AtHand
<1>1. /\ \A i \in 1 .. Len(Pipe') : Pipe'[i].packet \in 1 .. Len(mail)
      /\ WholePackets(Pipe')
      /\ \A q : Times([packet |-> q, place |-> 0], Pipe)
                   = Times([packet |-> q, place |-> 0], Pipe') + (IF q = p THEN 1 ELSE 0)
      /\ ~requeued =>
            /\ PipeLine(Pipe', Waiting)
            /\ \A j \in 1 .. Len(Pipe') : p < Pipe'[j].packet
            /\ \A t \in Session : PassedLine(mail, Passed(t), Pipe', Waiting)
    BY BehindAtHand
<1>2. PushedInv /\ InStep /\ PlacesInv /\ mail[p].broadcast
    BY PlacesAre DEF Flow
<1>3. \A t \in Session : Passed(t)' = Passed(t)
    BY DEF Passed
<1>4. Pipe' \in Seq(Cell)
    BY <1>2, PipeStep
<1> HIDE DEF p
<1>5. PushedInv'
    BY <1>1, <1>2, <1>3 DEF PushedInv
<1>6. InStep'
    BY <1>1 DEF InStep, WholePackets, Size
<1>7. PlacesInv'
    <2>1. ASSUME NEW q \in DOMAIN mail, ~mail[q].broadcast
          PROVE  Times([packet |-> q, place |-> 0], Pipe') = Times([packet |-> q, place |-> 0], Pipe)
        <3>1. q # p
            BY <1>2, <2>1
        <3>2. Times([packet |-> q, place |-> 0], Pipe') \in Nat
            BY <1>4, TimesNat
        <3>3. QED
            BY <1>1, <3>1, <3>2
    <2>2. QED
        BY <1>2, <2>1 DEF PlacesInv
<1>8. LineInv'
    BY <1>1, <1>3 DEF Flow, LineInv
<1>9. NothingLost'
    BY <1>7, PlacesAre, PTL
<1>10. QED
    BY <1>5, <1>6, <1>8, <1>9 DEF Flow

\* A broadcast, entry by entry.
LEMMA FlowBroadcast ==
    ASSUME TypeOK, SendInv, ReadInv, Flow, Broadcast
    PROVE  Flow'
<1> USE DEF serverVars, gateVars
<1>0. /\ HasMessage /\ mail[AtHand].broadcast
      /\ UNCHANGED <<recvBuf, stream, wire, buf, bufLen>>
      /\ UNCHANGED <<mail, sendQ, main, requeued, got>>
    BY DEF Broadcast
<1>1. Waiting' = Waiting
    BY <1>0 DEF Waiting
<1>2. CASE reader.entry < ListSize
    <2> DEFINE s == mail[AtHand].list[reader.entry + 1]
    <2>1. /\ IF s = Nobody THEN UNCHANGED <<out, filled, dropped>> ELSE Copy(AtHand, s)
          /\ reader' = [reader EXCEPT !.entry = @ + 1]
        BY <1>2 DEF Broadcast
    <2>2. reader'.at = reader.at
        BY <2>1 DEF TypeOK
    <2>3. Pipe' = Pipe
        BY <1>0, <2>2 DEF Pipe, Unread, Unsent
    <2>4. s \in Session \cup {Nobody}
        <3>1. mail[AtHand] \in Packet
            BY <1>0, AtHandIs, SizeOf DEF TypeOK, Flow
        <3>2. reader.entry + 1 \in 1 .. ListSize
            BY <1>2 DEF TypeOK
        <3>3. QED
            BY <3>1, <3>2 DEF Packet
    <2> HIDE DEF s
    <2>5. CASE s = Nobody
        BY <1>0, <1>1, <2>1, <2>3, <2>5, FlowQuiet
    <2>6. CASE s # Nobody
        BY <1>0, <1>1, <2>1, <2>3, <2>4, <2>6, FlowPass
    <2>7. QED
        BY <2>5, <2>6
<1>3. CASE ~(reader.entry < ListSize)
    <2>1. Step /\ UNCHANGED <<out, filled, dropped>>
        BY <1>3 DEF Broadcast
    <2>2. QED
        BY <1>0, <1>1, <2>1, FlowStep
<1>4. QED
    BY <1>2, <1>3

\* What the sender takes from a session's send buffer goes to its client.
LEMMA FlowSendToClient ==
    ASSUME TypeOK, SendInv, ReadInv, Flow, NEW s \in Session, SendToClient(s)
    PROVE  Flow'
<1> USE DEF serverVars, gateVars
<1>0. /\ out \in [Session -> Seq(Number)] /\ got \in [Session -> Seq(Number)]
    BY DEF TypeOK
<1>1. /\ got' = [got EXCEPT ![s] = got[s] \o out[s]] /\ out' = [out EXCEPT ![s] = <<>>]
      /\ UNCHANGED <<mail, dropped, requeued>>
    BY DEF SendToClient
<1>2. Pipe' = Pipe /\ Waiting' = Waiting
    BY DEF SendToClient, Pipe, Unread, Unsent, Waiting
<1>3. got'[s] = got[s] \o out[s] /\ out'[s] = <<>> /\ got[s] \o out[s] \in Seq(Number)
    BY <1>0, <1>1, ConcatProperties
<1>4. \A t \in Session : t # s => got'[t] = got[t] /\ out'[t] = out[t]
    BY <1>0, <1>1
<1>5. ASSUME NEW t \in Session PROVE Passed(t)' = Passed(t)
    <2>1. (got[s] \o out[s]) \o <<>> = got[s] \o out[s]
        BY <1>3, ConcatEmptySeq
    <2>2. Passed(t)' = got'[t] \o out'[t]
        BY DEF Passed
    <2>3. CASE t = s
        BY <1>3, <2>1, <2>2, <2>3 DEF Passed
    <2>4. CASE t # s
        BY <1>4, <2>2, <2>4 DEF Passed
    <2>5. QED
        BY <2>3, <2>4
<1>6. ASSUME NEW q, NEW t \in Session
      PROVE  Held(out', got', dropped', q, t) = Held(out, got, dropped, q, t)
    <2>1. CASE t = s
        <3>1. out[s] \in Seq(Number) /\ got[s] \in Seq(Number) /\ dropped[s] \in Seq(Number)
            BY DEF TypeOK
        <3>2. Times(q, got[s] \o out[s]) = Times(q, got[s]) + Times(q, out[s])
            BY <3>1, TimesConcat
        <3>3. Times(q, <<>>) = 0
            BY TimesEmpty
        <3>4. Times(q, got[s]) \in Nat /\ Times(q, out[s]) \in Nat /\ Times(q, dropped[s]) \in Nat
            BY <3>1, TimesNat
        <3>5. /\ Held(out', got', dropped', q, s)
                    = Times(q, <<>>) + Times(q, got[s] \o out[s]) + Times(q, dropped[s])
              /\ Held(out, got, dropped, q, s)
                    = Times(q, out[s]) + Times(q, got[s]) + Times(q, dropped[s])
            BY <1>1, <1>3 DEF Held
        <3> HIDE DEF Times
        <3>6. Held(out', got', dropped', q, s) = Held(out, got, dropped, q, s)
            BY <3>2, <3>3, <3>4, <3>5
        <3>7. QED
            BY <2>1, <3>6
    <2>2. CASE t # s
        BY <1>1, <1>4, <2>2 DEF Held
    <2>3. QED
        BY <2>1, <2>2
<1>7. PushedInv'
    BY <1>1, <1>2, <1>5 DEF Flow, PushedInv
<1>8. InStep'
    BY <1>1, <1>2 DEF Flow, InStep, WholePackets, Size
<1>9. PlacesInv'
    <2>1. PlacesInv
        BY PlacesAre DEF Flow
    <2>2. ASSUME NEW q \in DOMAIN mail PROVE mail[q].to \in Session
        <3>1. mail \in Seq(Packet) /\ q \in 1 .. Len(mail)
            BY LenProperties DEF TypeOK
        <3>2. mail[q] \in Packet
            BY <3>1, SizeOf
        <3>3. QED
            BY <3>2 DEF Packet
    <2>3. ASSUME NEW q \in DOMAIN mail, ~mail[q].broadcast
          PROVE  /\ Times(q, Waiting) + Times([packet |-> q, place |-> 0], Pipe)
                        + Held(out', got', dropped', q, mail[q].to) = 1
                 /\ \A t \in Session \ {mail[q].to} : Held(out', got', dropped', q, t) = 0
        <3>1. /\ Times(q, Waiting) + Times([packet |-> q, place |-> 0], Pipe)
                    + Held(out, got, dropped, q, mail[q].to) = 1
              /\ \A t \in Session \ {mail[q].to} : Held(out, got, dropped, q, t) = 0
            BY <2>1, <2>3 DEF PlacesInv
        <3>2. Held(out', got', dropped', q, mail[q].to) = Held(out, got, dropped, q, mail[q].to)
            BY <1>6, <2>2
        <3>3. QED
            BY <1>6, <3>1, <3>2
    <2>4. QED
        BY <1>1, <1>2, <2>3 DEF PlacesInv
<1>10. LineInv'
    BY <1>1, <1>2, <1>5 DEF Flow, LineInv
<1>11. NothingLost'
    BY <1>9, PlacesAre, PTL
<1>12. QED
    BY <1>7, <1>8, <1>10, <1>11 DEF Flow
-----------------------------------------------------------------------------
(* The invariant, and what it says.                                        *)

\* Nothing is anywhere at the start.
LEMMA InitIInv == Init => IInv
<1> SUFFICES ASSUME Init PROVE IInv
    OBVIOUS
<1>1. \A S : <<>> \in Seq(S) /\ Len(<<>>) = 0
    BY EmptySeq
<1>2. TypeOK
    <2>1. Scan \in [pc : {"scan", "fill", "send"}, packet : Number \cup {0}, dwSend : 0 .. GateSize]
        BY DEF Scan
    <2>2. WSARecv \in [pc : {"receive", "process"}, at : 0 .. BufferSize, entry : 0 .. ListSize]
        BY DEF WSARecv
    <2>3. 0 \in 0 .. GateSize /\ 0 \in 0 .. BufferSize
        OBVIOUS
    <2>4. mail \in Seq(Packet) /\ sendQ \in Seq(Number)
          /\ buf \in Seq(Cell) /\ Len(buf) <= GateSize /\ bufLen \in 0 .. GateSize
          /\ stream \in Seq(Cell) /\ recvBuf \in Seq(Cell) /\ Len(recvBuf) <= BufferSize
        BY <1>1, <2>3 DEF Init
    <2>5. /\ out \in [Session -> Seq(Number)] /\ filled \in [Session -> 0 .. BufferSize]
          /\ got \in [Session -> Seq(Number)] /\ dropped \in [Session -> Seq(Number)]
        BY <1>1, <2>3 DEF Init
    <2>6. doSending \in BOOLEAN /\ requeued \in BOOLEAN
          /\ wire \in {"none", "sending", "sent", "cleared"}
        BY DEF Init
    <2>7. QED
        BY <2>1, <2>2, <2>4, <2>5, <2>6 DEF Init, TypeOK
<1>3. SendInv /\ ReadInv
    BY <1>1 DEF Init, SendInv, ReadInv, Scan, WSARecv
<1>4. \A x : SubSeq(<<>>, 1, 0) = <<>> /\ <<>> \o <<>> = <<>>
    BY <1>1, SubSeqEmpty, ConcatEmptySeq
<1>5. Pipe = <<>>
    <2>1. Unread = <<>>
        BY <1>1, <1>4 DEF Init, Unread, WSARecv
    <2>2. Unsent = <<>> /\ stream = <<>>
        BY <1>4 DEF Init, Unsent
    <2>3. QED
        BY <1>4, <2>1, <2>2 DEF Pipe
<1>6. Waiting = <<>>
    BY <1>4 DEF Init, Waiting, Scan
<1>7. \A s \in Session : Passed(s) = <<>> /\ dropped[s] = <<>>
    BY <1>4 DEF Init, Passed
<1>8. 1 .. Len(<<>>) = {}
    BY <1>1
<1>9. PushedInv
    BY <1>5, <1>6, <1>7, <1>8 DEF PushedInv
<1>10. InStep
    BY <1>5, <1>8 DEF InStep, WholePackets
<1>11. NothingLost
    <2>1. DOMAIN mail = {}
        BY <1>1, <1>8, LenProperties DEF Init
    <2>2. QED
        BY <2>1 DEF NothingLost
<1>12. LineInv
    BY <1>5, <1>6, <1>7, <1>8 DEF LineInv, QueueLine, PipeLine, PassedLine
<1>13. QED
    BY <1>2, <1>3, <1>9, <1>10, <1>11, <1>12 DEF IInv

\* Every step leaves the types as they are.
LEMMA TypeNext == IInv /\ [Next]_vars => TypeOK' /\ SendInv' /\ ReadInv'
<1> SUFFICES ASSUME TypeOK, SendInv, ReadInv, PushedInv, [Next]_vars
             PROVE  TypeOK' /\ SendInv' /\ ReadInv'
    BY DEF IInv
<1>1. CASE Reply \/ Chat
    <2>1. PICK packet \in Packet : Push(packet)
        BY <1>1, PushedIs
    <2>2. QED
        BY <2>1, TypePush
<1>2. CASE MainLoop
    BY <1>2, TypeMainLoop
<1>3. CASE Complete
    BY <1>3, TypeComplete
<1>4. CASE Read
    BY <1>4, TypeRead
<1>5. CASE \E s \in Session : SendToClient(s)
    BY <1>5, TypeSendToClient
<1>6. CASE UNCHANGED vars
    BY <1>6 DEF vars, serverVars, gateVars, TypeOK, SendInv, ReadInv, Scan, WSARecv
<1>7. QED
    BY <1>1, <1>2, <1>3, <1>4, <1>5, <1>6 DEF Next

\* And every packet in its place in the line.
LEMMA FlowNext == IInv /\ [Next]_vars /\ TypeOK' => Flow'
<1> SUFFICES ASSUME TypeOK, SendInv, ReadInv, Flow, [Next]_vars, TypeOK' PROVE Flow'
    BY DEF IInv, Flow
<1>1. CASE Reply \/ Chat
    <2>1. PICK packet \in Packet : Push(packet)
        BY <1>1, PushedIs
    <2>2. QED
        BY <2>1, FlowPush
<1>2. CASE MainLoop
    <2>1. CASE Start \/ Send
        <3>1. UNCHANGED <<mail, out, got, dropped, requeued>>
            BY <2>1 DEF Start, Send, gateVars
        <3>2. QED
            BY <2>1, <3>1, PipeStart, FlowQuiet
    <2>2. CASE Fill
        BY <2>2, FlowFill
    <2>3. CASE PutBack
        BY <2>3, FlowPutBack
    <2>4. QED
        BY <1>2, <2>1, <2>2, <2>3 DEF MainLoop
<1>3. CASE Complete
    <2>1. UNCHANGED <<mail, out, got, dropped, requeued>>
        BY <1>3 DEF Complete, Transmit, Clear, Sent, serverVars, gateVars
    <2>2. QED
        BY <1>3, <2>1, PipeComplete, FlowQuiet
<1>4. CASE Read
    <2>1. CASE Receive \/ MoveTail
        <3>1. UNCHANGED <<mail, out, got, dropped, requeued>> /\ UNCHANGED <<main, sendQ>>
            BY <2>1 DEF Receive, MoveTail, serverVars
        <3>2. Waiting' = Waiting
            BY <3>1 DEF Waiting
        <3>3. QED
            BY <2>1, <3>1, <3>2, PipeReceive, FlowQuiet
    <2>2. CASE Process
        BY <2>2, FlowProcess
    <2>3. CASE Broadcast
        BY <2>3, FlowBroadcast
    <2>4. QED
        BY <1>4, <2>1, <2>2, <2>3 DEF Read
<1>5. CASE \E s \in Session : SendToClient(s)
    BY <1>5, FlowSendToClient
<1>6. CASE UNCHANGED vars
    <2>1. UNCHANGED <<mail, sendQ, buf, bufLen, main, wire, stream, recvBuf, reader>>
          /\ UNCHANGED <<out, got, dropped, requeued>>
        BY <1>6 DEF vars, serverVars, gateVars
    <2>2. Pipe' = Pipe /\ Waiting' = Waiting
        BY <2>1 DEF Pipe, Unread, Unsent, Waiting
    <2>3. QED
        BY <2>1, <2>2, FlowQuiet
<1>7. QED
    BY <1>1, <1>2, <1>3, <1>4, <1>5, <1>6 DEF Next

\* The send buffer is filled by one thread at a time, the stream is made of
\* whole packets, and every packet has its place in it.
THEOREM DownlinkInvariance == Spec => []IInv
<1>1. IInv /\ [Next]_vars => IInv'
    BY TypeNext, FlowNext DEF IInv, Flow
<1>2. QED
    BY InitIInv, <1>1, PTL DEF Spec

\* No buffer of the server or the gate ever holds more than its size, and
\* lengths and positions stay inside them (xSend, ClientWorkerThread).
THEOREM DownlinkTypes == Spec => []TypeOK
<1>1. IInv => TypeOK
    BY DEF IInv
<1>2. QED
    BY DownlinkInvariance, <1>1, PTL

\* However TCP cuts the stream, the gate's loop stands at the beginning of a
\* message and has whole messages before it (ClientWorkerThread).
THEOREM InStepHolds == Spec => []InStep
<1>1. IInv => InStep
    BY DEF IInv
<1>2. QED
    BY DownlinkInvariance, <1>1, PTL

\* A reply is always in exactly one place, and only its session ever has it:
\* xSend, the network and the gate neither lose nor repeat it.
THEOREM NothingLostHolds == Spec => []NothingLost
<1>1. IInv => NothingLost
    BY DEF IInv
<1>2. QED
    BY DownlinkInvariance, <1>1, PTL

\* Clients get packets in the order in which the handlers pushed them, until
\* xSend has put one back behind others.
THEOREM InOrderHolds == Spec => []InOrder
<1>1. IInv => InOrder
    <2> SUFFICES ASSUME TypeOK, LineInv, ~requeued, NEW s \in Session,
                        NEW i \in 1 .. Len(got[s]), NEW j \in 1 .. Len(got[s]), i < j
                 PROVE  \/ got[s][i] < got[s][j]
                        \/ got[s][i] = got[s][j] /\ mail[got[s][i]].broadcast
        BY DEF IInv, InOrder
    <2>1. got[s] \in Seq(Number) /\ out[s] \in Seq(Number)
        BY DEF TypeOK
    <2>2. Len(got[s]) \in Nat /\ Len(out[s]) \in Nat
        BY <2>1, LenProperties
    <2>3. /\ Len(Passed(s)) = Len(got[s]) + Len(out[s])
          /\ \A k \in 1 .. Len(got[s]) + Len(out[s]) :
                Passed(s)[k] = IF k <= Len(got[s]) THEN got[s][k] ELSE out[s][k - Len(got[s])]
        <3> DEFINE g == got[s]
                   o == out[s]
        <3>1. g \in Seq(Number) /\ o \in Seq(Number) /\ Passed(s) = g \o o
            BY <2>1 DEF Passed
        <3> HIDE DEF g, o
        <3>2. /\ Len(g \o o) = Len(g) + Len(o)
              /\ \A k \in 1 .. Len(g) + Len(o) :
                    (g \o o)[k] = IF k <= Len(g) THEN g[k] ELSE o[k - Len(g)]
            BY <3>1, ConcatProperties
        <3>3. QED
            BY <3>1, <3>2 DEF g, o
    <2>4. \A k \in 1 .. Len(got[s]) : k \in 1 .. Len(got[s]) + Len(out[s]) /\ k <= Len(got[s])
        <3> DEFINE a == Len(got[s])
                   b == Len(out[s])
        <3>1. a \in Nat /\ b \in Nat
            BY <2>2
        <3> HIDE DEF a, b
        <3>2. \A k \in 1 .. a : k \in 1 .. a + b /\ k <= a
            BY <3>1
        <3>3. QED
            BY <3>2 DEF a, b
    <2>5. \A k \in 1 .. Len(got[s]) : k \in 1 .. Len(Passed(s)) /\ Passed(s)[k] = got[s][k]
        BY <2>3, <2>4
    <2>6. PassedLine(mail, Passed(s), Pipe, Waiting)
        BY DEF LineInv
    <2>7. NotAfter(mail, Passed(s)[i], Passed(s)[j])
        BY <2>5, <2>6 DEF PassedLine
    <2>8. QED
        BY <2>5, <2>7 DEF NotAfter
<1>2. QED
    BY DownlinkInvariance, <1>1, PTL

=============================================================================
