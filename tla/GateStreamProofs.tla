-------------------------- MODULE GateStreamProofs --------------------------
(***************************************************************************)
(* The gate's messages in the game server's buffer, for every size of      *)
(* header, buffer and message and every number of messages: while receives *)
(* end where messages end and replies are as long as their requests, the   *)
(* worker handles the messages one after the other.                        *)
(***************************************************************************)
EXTENDS GateStream, SequenceTheorems, TLAPS

USE GateStreamAssumption
-----------------------------------------------------------------------------
(* Sequences of cells.                                                     *)

\* What a byte says is numbers.
LEMMA CellNumbers == \A c \in Cell : c.message \in Nat /\ c.place \in Nat /\ c.nLength \in Nat
BY DEF Cell

\* A row of n cells is a sequence of length n.
LEMMA RowOfCells ==
    ASSUME NEW n \in Nat, NEW f \in [1 .. n -> Cell]
    PROVE  f \in Seq(Cell) /\ Len(f) = n
OBVIOUS

\* The bytes of one message (SendSocketMsgS).
LEMMA MessageCells ==
    ASSUME NEW m \in 1 .. MaxMessages, NEW l \in 0 .. MaxLength
    PROVE  /\ Message(m, l) \in Seq(Cell)
           /\ Len(Message(m, l)) = HeaderSize + l
           /\ \A i \in 1 .. HeaderSize + l :
                 Message(m, l)[i] = [message |-> m, place |-> i - 1, nLength |-> l]
<1>1. HeaderSize + l \in Nat
    OBVIOUS
<1>2. \A i \in 1 .. HeaderSize + l : [message |-> m, place |-> i - 1, nLength |-> l] \in Cell
    BY DEF Cell
<1>3. Message(m, l) \in [1 .. HeaderSize + l -> Cell]
    BY <1>2 DEF Message
<1>4. QED
    BY <1>1, <1>3, RowOfCells DEF Message

\* The n bytes from position o of the buffer, as a sequence.
IsWindow(w, b, o, n) ==
    /\ w \in Seq(Cell) /\ Len(w) = n /\ (w = <<>> <=> n = 0)
    /\ \A i \in 1 .. n : w[i] = b[o + i - 1]

LEMMA WindowOf ==
    ASSUME NEW b \in [Place -> Cell], NEW o \in Nat, NEW n \in Nat, o + n <= BufferSize
    PROVE  IsWindow([i \in 1 .. n |-> b[o + i - 1]], b, o, n)
<1> DEFINE w == [i \in 1 .. n |-> b[o + i - 1]]
<1>1. \A i \in 1 .. n : o + i - 1 \in Place
    BY DEF Place
<1>2. w \in [1 .. n -> Cell]
    BY <1>1
<1>3. w \in Seq(Cell) /\ Len(w) = n
    BY <1>2, RowOfCells
<1>4. w = <<>> <=> n = 0
    BY <1>3, EmptySeq
<1>5. QED
    BY <1>3, <1>4 DEF IsWindow

\* What is left of whole messages when whole messages are taken off the front.
LEMMA WholeSuffix ==
    ASSUME NEW s \in Seq(Cell), NEW t \in Seq(Cell), NEW first \in Int, NEW last \in Int,
           NEW n \in 0 .. Len(s), Len(t) = Len(s) - n,
           \A i \in 1 .. Len(t) : t[i] = s[i + n],
           WholeMessages(s, first, last), t # <<>> => t[1].place = 0
    PROVE  WholeMessages(t, IF t = <<>> THEN last + 1 ELSE t[1].message, last)
<1>1. /\ Len(s) \in Nat /\ Len(t) \in Nat
      /\ \A i \in 1 .. Len(t) : t[i] \in Cell /\ i + n \in 1 .. Len(s)
    BY LenProperties
<1>2. ASSUME NEW i \in 1 .. Len(t), t[i].place = 0
      PROVE  LET end == i + HeaderSize + t[i].nLength
             IN  /\ end <= Len(t) + 1
                 /\ \A j \in i + 1 .. end - 1 : t[j].place # 0
                 /\ end = Len(t) + 1 => t[i].message = last
                 /\ end <= Len(t) => t[end].place = 0 /\ t[end].message = t[i].message + 1
    <2> DEFINE end == i + HeaderSize + t[i].nLength
               far == (i + n) + HeaderSize + s[i + n].nLength
    <2>0. t[i] \in Cell /\ i + n \in 1 .. Len(s) /\ s[i + n] = t[i]
        BY <1>1
    <2>1. i + n \in 1 .. Len(s) /\ s[i + n] = t[i] /\ t[i].nLength \in Nat
        BY <2>0, CellNumbers
    <2>2. end \in Int /\ far = end + n /\ end > i
        <3> DEFINE l == t[i].nLength
        <3>1. end = i + HeaderSize + l /\ far = (i + n) + HeaderSize + l /\ l \in Nat
            BY <2>1
        <3>2. i \in Int /\ n \in Int
            BY <1>1
        <3> HIDE DEF l, end, far
        <3>3. QED
            BY <3>1, <3>2
    <2>3. /\ far <= Len(s) + 1
          /\ \A j \in (i + n) + 1 .. far - 1 : s[j].place # 0
          /\ far = Len(s) + 1 => s[i + n].message = last
          /\ far <= Len(s) => s[far].place = 0 /\ s[far].message = s[i + n].message + 1
        BY <1>2, <2>1 DEF WholeMessages
    <2> HIDE DEF end, far
    <2>4. end <= Len(t) + 1
        BY <1>1, <2>2, <2>3
    <2>5. ASSUME NEW j \in i + 1 .. end - 1 PROVE t[j].place # 0
        <3>1. j \in 1 .. Len(t) /\ j + n \in (i + n) + 1 .. far - 1
            BY <1>1, <2>2, <2>4
        <3>2. QED
            BY <2>3, <3>1
    <2>6. ASSUME end <= Len(t) PROVE t[end].place = 0 /\ t[end].message = t[i].message + 1
        <3>1. end \in 1 .. Len(t) /\ far <= Len(s)
            BY <1>1, <2>2, <2>6
        <3>2. QED
            BY <2>1, <2>2, <2>3, <3>1
    <2>7. ASSUME end = Len(t) + 1 PROVE t[i].message = last
        BY <1>1, <2>1, <2>2, <2>3, <2>7
    <2>8. QED
        BY <2>4, <2>5, <2>6, <2>7 DEF end
<1>3. QED
    BY <1>2 DEF WholeMessages

\* The first n bytes of whole messages are whole messages if the next byte
\* begins one.
LEMMA WholePrefix ==
    ASSUME NEW s \in Seq(Cell), NEW t \in Seq(Cell), NEW first \in Int, NEW last \in Int,
           NEW n \in 1 .. Len(s), Len(t) = n, \A i \in 1 .. n : t[i] = s[i],
           WholeMessages(s, first, last), n < Len(s) => s[n + 1].place = 0
    PROVE  WholeMessages(t, first, IF n = Len(s) THEN last ELSE s[n + 1].message - 1)
<1> DEFINE final == IF n = Len(s) THEN last ELSE s[n + 1].message - 1
<1>1. Len(s) \in Nat /\ n \in Nat /\ n >= 1 /\ n <= Len(s) /\ \A i \in 1 .. Len(s) : s[i] \in Cell
    BY LenProperties
<1>2. t # <<>> /\ s # <<>> /\ t[1] = s[1]
    BY <1>1, EmptySeq
<1>3. ASSUME NEW i \in 1 .. n, t[i].place = 0
      PROVE  LET end == i + HeaderSize + t[i].nLength
             IN  /\ end <= n + 1
                 /\ \A j \in i + 1 .. end - 1 : t[j].place # 0
                 /\ end = n + 1 => t[i].message = final
                 /\ end <= n => t[end].place = 0 /\ t[end].message = t[i].message + 1
    <2> DEFINE end == i + HeaderSize + t[i].nLength
    <2>0. i \in 1 .. Len(s) /\ t[i] = s[i] /\ s[i] \in Cell
        BY <1>1
    <2>1. i \in 1 .. Len(s) /\ t[i] = s[i] /\ t[i].nLength \in Nat /\ t[i].message \in Nat
        BY <2>0, CellNumbers
    <2>2. end \in Int /\ end > i
        <3> DEFINE l == t[i].nLength
        <3>1. end = i + HeaderSize + l /\ i \in Int /\ l \in Nat
            BY <1>1, <2>1
        <3> HIDE DEF l, end
        <3>2. QED
            BY <3>1
    <2>3. /\ end <= Len(s) + 1
          /\ \A j \in i + 1 .. end - 1 : s[j].place # 0
          /\ end = Len(s) + 1 => s[i].message = last
          /\ end <= Len(s) => s[end].place = 0 /\ s[end].message = s[i].message + 1
        BY <1>3, <2>1 DEF WholeMessages
    <2> HIDE DEF end
    <2>4. end <= n + 1
        <3>1. SUFFICES ASSUME end > n + 1 PROVE FALSE
            BY <1>1, <2>2
        <3>2. n + 1 \in i + 1 .. end - 1 /\ n < Len(s)
            BY <1>1, <2>2, <2>3, <3>1
        <3>3. QED
            BY <2>3, <3>2
    <2>5. \A j \in i + 1 .. end - 1 : t[j].place # 0
        BY <1>1, <2>2, <2>3, <2>4
    <2>6. ASSUME end = n + 1 PROVE t[i].message = final
        <3>1. CASE n = Len(s)
            BY <2>1, <2>3, <2>6, <3>1
        <3>2. CASE n < Len(s)
            BY <1>1, <2>1, <2>3, <2>6, <3>2
        <3>3. QED
            BY <1>1, <3>1, <3>2
    <2>7. ASSUME end <= n PROVE t[end].place = 0 /\ t[end].message = t[i].message + 1
        BY <1>1, <2>1, <2>2, <2>3, <2>7
    <2>8. QED
        BY <2>4, <2>5, <2>6, <2>7 DEF end
<1>4. QED
    BY <1>2, <1>3 DEF WholeMessages

\* One more message behind whole messages.
LEMMA WholeExtended ==
    ASSUME NEW s \in Seq(Cell), NEW first \in Int, NEW m \in 1 .. MaxMessages,
           NEW l \in 0 .. MaxLength, WholeMessages(s, first, m - 1)
    PROVE  WholeMessages(s \o Message(m, l), first, m)
<1> DEFINE b == Message(m, l)
           t == s \o b
           n == Len(s)
           k == HeaderSize + l
<1>1. b \in Seq(Cell) /\ Len(b) = k /\ k \in Nat /\ k > 0 /\ n \in Nat
      /\ \A i \in 1 .. k : b[i].message = m /\ b[i].place = i - 1 /\ b[i].nLength = l
    <2>1. b \in Seq(Cell) /\ Len(b) = k /\ k \in Nat /\ k > 0 /\ n \in Nat
        BY MessageCells, LenProperties
    <2>2. \A i \in 1 .. k : b[i] = [message |-> m, place |-> i - 1, nLength |-> l]
        BY MessageCells
    <2>3. QED
        BY <2>1, <2>2
<1> HIDE DEF b, k
<1>2. /\ t \in Seq(Cell) /\ Len(t) = n + k
      /\ \A i \in 1 .. n : t[i] = s[i]
      /\ \A i \in 1 .. k : t[n + i] = b[i]
    <2>1. /\ t \in Seq(Cell) /\ Len(t) = n + k
          /\ \A i \in 1 .. n + k : t[i] = IF i <= n THEN s[i] ELSE b[i - n]
        BY <1>1, ConcatProperties
    <2> HIDE DEF t, n
    <2>2. \A i \in 1 .. n : t[i] = s[i]
        BY <1>1, <2>1
    <2>3. ASSUME NEW i \in 1 .. k PROVE t[n + i] = b[i]
        <3>1. n + i \in 1 .. n + k /\ ~(n + i <= n) /\ (n + i) - n = i
            BY <1>1
        <3>2. QED
            BY <2>1, <3>1
    <2>4. QED
        BY <2>1, <2>2, <2>3
<1> HIDE DEF t, n
<1>3. ASSUME NEW i \in n + 1 .. n + k PROVE i - n \in 1 .. k /\ t[i] = b[i - n]
    <2>1. i - n \in 1 .. k /\ n + (i - n) = i
        BY <1>1
    <2>2. QED
        BY <1>2, <2>1
<1>4. \A i \in 1 .. n : t[i] \in Cell
    <2>1. \A i \in 1 .. n : s[i] \in Cell
        BY ElementOfSeq DEF n
    <2>2. QED
        BY <1>2, <2>1
<1>5. t # <<>> /\ t[1].place = 0 /\ t[1].message = first
    <2>1. t # <<>>
        BY <1>1, <1>2, EmptySeq
    <2>2. CASE s = <<>>
        <3>1. n = 0 /\ first = m
            BY <2>2, EmptySeq DEF WholeMessages, n
        <3>2. t[1] = b[1] /\ 1 \in 1 .. k
            BY <1>1, <1>2, <3>1
        <3>3. QED
            BY <1>1, <2>1, <3>1, <3>2
    <2>3. CASE s # <<>>
        <3>1. 1 \in 1 .. n
            BY <1>1, <2>3, EmptySeq DEF n
        <3>2. QED
            BY <1>2, <2>1, <2>3, <3>1 DEF WholeMessages
    <2>4. QED
        BY <2>2, <2>3
<1>6. ASSUME NEW i \in 1 .. n + k, t[i].place = 0
      PROVE  LET end == i + HeaderSize + t[i].nLength
             IN  /\ end <= n + k + 1
                 /\ \A j \in i + 1 .. end - 1 : t[j].place # 0
                 /\ end = n + k + 1 => t[i].message = m
                 /\ end <= n + k => t[end].place = 0 /\ t[end].message = t[i].message + 1
    <2> DEFINE end == i + HeaderSize + t[i].nLength
    <2>1. CASE i \in 1 .. n
        <3>0. t[i] = s[i] /\ t[i] \in Cell
            BY <1>2, <1>4, <2>1
        <3>1. t[i] = s[i] /\ t[i].nLength \in Nat /\ end \in Int /\ end > i
            BY <2>1, <3>0, CellNumbers
        <3>2. /\ end <= n + 1
              /\ \A j \in i + 1 .. end - 1 : s[j].place # 0
              /\ end = n + 1 => s[i].message = m - 1
              /\ end <= n => s[end].place = 0 /\ s[end].message = s[i].message + 1
            BY <1>6, <2>1, <3>1 DEF WholeMessages, n
        <3> HIDE DEF end
        <3>3. end <= n + k
            BY <1>1, <3>1, <3>2
        <3>4. \A j \in i + 1 .. end - 1 : t[j].place # 0
            <4>1. SUFFICES ASSUME NEW j \in i + 1 .. end - 1 PROVE t[j].place # 0
                OBVIOUS
            <4>2. j \in 1 .. n
                BY <1>1, <2>1, <3>1, <3>2
            <4>3. QED
                BY <1>2, <3>2, <4>2
        <3>5. CASE end = n + 1
            <4>1. 1 \in 1 .. k /\ n + 1 = end
                BY <1>1, <3>5
            <4>2. end # n + k + 1 /\ end <= n + k + 1
                BY <1>1, <3>3, <3>5
            <4>3. b[1].place = 0 /\ b[1].message = m /\ t[n + 1] = b[1]
                BY <1>1, <1>2, <4>1
            <4>4. t[end].place = 0 /\ t[end].message = m
                BY <4>1, <4>3
            <4>5. t[i].message + 1 = m
                <5>1. s[i].message = m - 1
                    BY <3>2, <3>5
                <5>2. QED
                    BY <3>1, <5>1
            <4>6. QED
                BY <3>4, <4>2, <4>4, <4>5 DEF end
        <3>6. CASE end <= n
            <4>1. t[end] = s[end]
                BY <1>2, <3>1, <3>6
            <4>2. QED
                BY <1>1, <3>1, <3>2, <3>3, <3>4, <3>6, <4>1 DEF end
        <3>7. QED
            BY <1>1, <3>1, <3>2, <3>5, <3>6
    <2>2. CASE i \in n + 1 .. n + k
        <3>1. t[i] = b[i - n] /\ i - n \in 1 .. k
            BY <1>3, <2>2
        <3>2. i = n + 1 /\ t[i].message = m /\ t[i].nLength = l
            <4>1. b[i - n].place = 0 /\ b[i - n].message = m /\ b[i - n].nLength = l
                BY <1>1, <1>6, <3>1
            <4>2. (i - n) - 1 = 0
                BY <1>1, <3>1, <4>1
            <4>3. QED
                BY <1>1, <3>1, <4>1, <4>2
        <3>3. end = n + k + 1 /\ n + k \in Nat
            BY <1>1, <3>2 DEF k
        <3>4. \A j \in n + 2 .. n + k : t[j].place # 0
            <4>1. SUFFICES ASSUME NEW j \in n + 2 .. n + k PROVE t[j].place # 0
                OBVIOUS
            <4>2. j \in n + 1 .. n + k /\ j - n \in 1 .. k /\ j - n # 1
                BY <1>1
            <4>3. t[j] = b[j - n] /\ b[j - n].place = (j - n) - 1
                BY <1>1, <1>3, <4>2
            <4>4. QED
                BY <1>1, <4>2, <4>3
        <3> HIDE DEF end
        <3>5. i + 1 = n + 2 /\ end - 1 = n + k /\ end <= n + k + 1 /\ ~(end <= n + k)
            <4>1. n \in Nat /\ k \in Nat
                BY <1>1
            <4>2. i = n + 1 /\ end = n + k + 1
                BY <3>2, <3>3
            <4>3. QED
                BY <4>1, <4>2
        <3>6. \A j \in i + 1 .. end - 1 : t[j].place # 0
            BY <3>4, <3>5
        <3>7. QED
            BY <3>2, <3>5, <3>6 DEF end
    <2>3. QED
        BY <1>1, <2>1, <2>2
<1>7. QED
    <2>1. Len(t) = n + k /\ t = s \o Message(m, l)
        BY <1>2 DEF t, b
    <2>2. WholeMessages(t, first, m)
        BY <1>5, <1>6, <2>1 DEF WholeMessages
    <2>3. QED
        BY <2>1, <2>2
-----------------------------------------------------------------------------
(* What each step does.                                                    *)

\* A receive fills the buffer from the front (CGateInfo::Recv).
LEMMA ReceiveEffect ==
    ASSUME TypeOK, BufferInv, NEW n \in 1 .. BufferSize, Receive(n)
    PROVE  /\ pc = "receive" /\ pc' = "parse" /\ offset' = 0 /\ bufLen' = n
           /\ n \in 1 .. Len(stream) /\ n <= BufferSize
           /\ buffer' \in [Place -> Cell] /\ \A i \in 1 .. n : buffer'[i - 1] = stream[i]
           /\ stream' \in Seq(Cell) /\ Len(stream') = Len(stream) - n
           /\ \A i \in 1 .. Len(stream) - n : i + n \in 1 .. Len(stream) /\ stream'[i] = stream[i + n]
<1>1. stream \in Seq(Cell) /\ buffer \in [Place -> Cell]
    BY DEF TypeOK
<1>2. bufLen = 0 /\ pc = "receive"
    BY DEF BufferInv, Receive
<1>3. Len(stream) \in Nat /\ \A i \in 1 .. Len(stream) : stream[i] \in Cell
    BY <1>1, LenProperties
<1>4. n <= Len(stream) /\ n <= BufferSize /\ offset' = 0 /\ bufLen' = n /\ pc' = "parse"
    BY <1>2 DEF Receive
<1>5. /\ buffer' = [i \in Place |-> IF i \in 0 .. n - 1 THEN stream[i + 1] ELSE buffer[i]]
      /\ stream' = SubSeq(stream, n + 1, Len(stream))
    <2>1. \A i \in Place : i - bufLen = i
        BY <1>2 DEF Place
    <2>2. QED
        BY <2>1 DEF Receive
<1>6. ASSUME NEW i \in 0 .. n - 1 PROVE i \in Place /\ i + 1 \in 1 .. Len(stream)
    BY <1>3, <1>4 DEF Place
<1>7. buffer' \in [Place -> Cell]
    BY <1>1, <1>3, <1>5, <1>6
<1>8. ASSUME NEW i \in 1 .. n PROVE buffer'[i - 1] = stream[i]
    <2>1. i - 1 \in 0 .. n - 1 /\ (i - 1) + 1 = i
        OBVIOUS
    <2>2. QED
        BY <1>5, <1>6, <2>1
<1>9. /\ stream' \in Seq(Cell) /\ Len(stream') = Len(stream) - n
      /\ \A i \in 1 .. Len(stream) - n : stream'[i] = stream[i + n]
    <2>1. \A i \in n + 1 .. Len(stream) : stream[i] \in Cell
        BY <1>3
    <2>2. n + 1 \in Int /\ Len(stream) \in Int
        BY <1>3
    <2>3. /\ stream' \in Seq(Cell)
          /\ Len(stream') = IF n + 1 <= Len(stream) THEN Len(stream) - (n + 1) + 1 ELSE 0
          /\ \A i \in 1 .. Len(stream) - (n + 1) + 1 : stream'[i] = stream[(n + 1) + i - 1]
        BY <1>5, <2>1, <2>2, SubSeqProperties
    <2>4. Len(stream) - (n + 1) + 1 = Len(stream) - n /\ \A i \in Nat : (n + 1) + i - 1 = i + n
        BY <1>3
    <2>5. Len(stream') = Len(stream) - n
        BY <1>3, <1>4, <2>3
    <2>6. ASSUME NEW i \in 1 .. Len(stream) - n PROVE stream'[i] = stream[i + n]
        <3>1. i \in 1 .. Len(stream) - (n + 1) + 1 /\ i \in Nat
            BY <1>3
        <3>2. QED
            BY <2>3, <2>4, <3>1
    <2>7. QED
        BY <2>3, <2>5, <2>6
<1>10. QED
    BY <1>2, <1>3, <1>4, <1>7, <1>8, <1>9

\* A handler is given the message the worker is at, and the worker goes on
\* behind what the handler left in its header.
LEMMA HandleEffect ==
    ASSUME TypeOK, BufferInv, NEW l \in 0 .. MaxLength, Handle(l)
    PROVE  /\ pc = "parse" /\ pc' = "parse" /\ stream' = stream /\ posted' = posted
           /\ offset \in Place /\ bufLen > 0 /\ buffer[offset] \in Cell
           /\ buffer[offset].place = 0 /\ buffer[offset].message \in 1 .. MaxMessages
           /\ bufLen >= buffer[offset].nLength + HeaderSize
           /\ handled' = Append(handled, buffer[offset].message)
           /\ buffer' \in [Place -> Cell]
           /\ \A i \in Place : buffer'[i].message = buffer[i].message
           /\ l = buffer[offset].nLength => buffer' = buffer
           /\ offset' = offset + (l + HeaderSize) /\ bufLen' = bufLen - (l + HeaderSize)
           /\ offset' \in 0 .. BufferSize + MaxLength /\ bufLen' \in -MaxLength .. BufferSize
<1>1. /\ bufLen \in -MaxLength .. BufferSize /\ offset \in 0 .. BufferSize + MaxLength
      /\ offset + bufLen <= BufferSize /\ buffer \in [Place -> Cell]
    BY DEF TypeOK, BufferInv
<1>2. bufLen > 0 /\ buffer[offset].place = 0 /\ pc = "parse"
    BY DEF Handle, IsHeader
<1>3. offset \in Place /\ offset \in Nat /\ bufLen \in Nat
    BY <1>1, <1>2 DEF Place
<1>4. buffer[offset] \in Cell
    BY <1>1, <1>3
<1>5. /\ buffer[offset].nLength \in 0 .. MaxLength /\ buffer[offset].message \in 0 .. MaxMessages
      /\ buffer[offset].place \in 0 .. HeaderSize + MaxLength - 1
    BY <1>4 DEF Cell
<1>6. buffer[offset].message \in 1 .. MaxMessages
    <2>1. offset \in offset .. offset + bufLen - 1
        BY <1>2, <1>3
    <2>2. buffer[offset].message > 0
        BY <2>1 DEF BufferInv
    <2>3. QED
        BY <1>5, <2>2
<1>7. bufLen >= buffer[offset].nLength + HeaderSize /\ bufLen >= HeaderSize
    BY <1>2, <1>3 DEF Handle, HasCompletionPacket
<1>8. buffer' = [buffer EXCEPT ![offset].nLength = l]
    BY DEF Handle
<1>9. [buffer[offset] EXCEPT !.nLength = l] \in Cell
      /\ [buffer[offset] EXCEPT !.nLength = l].message = buffer[offset].message
      /\ (l = buffer[offset].nLength => [buffer[offset] EXCEPT !.nLength = l] = buffer[offset])
    BY <1>4 DEF Cell
<1>10. buffer' = [buffer EXCEPT ![offset] = [buffer[offset] EXCEPT !.nLength = l]]
    BY <1>8
<1> DEFINE c == [buffer[offset] EXCEPT !.nLength = l]
<1> HIDE DEF c
<1>11. /\ buffer' \in [Place -> Cell]
       /\ \A i \in Place : buffer'[i].message = buffer[i].message
       /\ l = buffer[offset].nLength => buffer' = buffer
    <2>1. buffer' = [buffer EXCEPT ![offset] = c]
        BY <1>10 DEF c
    <2>2. c \in Cell /\ c.message = buffer[offset].message
          /\ (l = buffer[offset].nLength => c = buffer[offset])
        BY <1>9 DEF c
    <2>3. QED
        BY <1>1, <1>3, <2>1, <2>2
<1>12. /\ offset' = offset + (l + HeaderSize) /\ bufLen' = bufLen - (l + HeaderSize)
       /\ handled' = Append(handled, buffer[offset].message)
       /\ pc' = "parse" /\ stream' = stream /\ posted' = posted
    BY <1>2, <1>3 DEF Handle, NextPacketOffset
<1>13. offset' \in 0 .. BufferSize + MaxLength /\ bufLen' \in -MaxLength .. BufferSize
    BY <1>1, <1>3, <1>7, <1>12
<1>14. QED
    BY <1>2, <1>3, <1>4, <1>6, <1>7, <1>11, <1>12, <1>13

\* The worker and the receive stay inside the buffer.
LEMMA BufferStep == TypeOK /\ BufferInv /\ [Next]_vars => TypeOK' /\ BufferInv'
<1> SUFFICES ASSUME TypeOK, BufferInv, [Next]_vars PROVE TypeOK' /\ BufferInv'
    OBVIOUS
<1>0. /\ posted \in 0 .. MaxMessages /\ stream \in Seq(Cell) /\ buffer \in [Place -> Cell]
      /\ bufLen \in -MaxLength .. BufferSize /\ offset \in 0 .. BufferSize + MaxLength
      /\ handled \in Seq(1 .. MaxMessages) /\ pc \in {"receive", "parse", "lost"}
    BY DEF TypeOK
<1>a. cut \in BOOLEAN /\ rewritten \in BOOLEAN
    BY DEF TypeOK
<1>b. cut' \in BOOLEAN /\ rewritten' \in BOOLEAN
    BY <1>a DEF Next, Post, Handle, Receive, Misread, MoveTail, vars
<1>1. Len(stream) \in Nat /\ \A i \in 1 .. Len(stream) : stream[i] \in Cell /\ stream[i].message > 0
    BY <1>0, LenProperties DEF BufferInv
<1>2. ASSUME NEW l \in 0 .. MaxLength, Post(l) PROVE TypeOK' /\ BufferInv'
    <2> DEFINE m == posted + 1
    <2>1. m \in 1 .. MaxMessages /\ posted' = m /\ stream' = stream \o Message(m, l)
          /\ UNCHANGED <<buffer, bufLen, offset, pc, handled, cut, rewritten>>
        BY <1>0, <1>2 DEF Post
    <2> HIDE DEF m
    <2>2. /\ Message(m, l) \in Seq(Cell) /\ Len(Message(m, l)) = HeaderSize + l
          /\ \A i \in 1 .. HeaderSize + l : Message(m, l)[i].message = m
        <3>1. \A i \in 1 .. HeaderSize + l :
                Message(m, l)[i] = [message |-> m, place |-> i - 1, nLength |-> l]
            BY <2>1, MessageCells
        <3>2. ASSUME NEW i \in 1 .. HeaderSize + l PROVE Message(m, l)[i].message = m
            <4>1. Message(m, l)[i] = [message |-> m, place |-> i - 1, nLength |-> l]
                BY <3>1
            <4>2. QED
                BY <4>1
        <3>3. Message(m, l) \in Seq(Cell) /\ Len(Message(m, l)) = HeaderSize + l
            BY <2>1, MessageCells
        <3>4. QED
            BY <3>2, <3>3
    <2>3. /\ stream' \in Seq(Cell) /\ Len(stream') = Len(stream) + (HeaderSize + l)
          /\ \A i \in 1 .. Len(stream) + (HeaderSize + l) :
                stream'[i] = IF i <= Len(stream) THEN stream[i] ELSE Message(m, l)[i - Len(stream)]
        BY <1>0, <2>1, <2>2, ConcatProperties
    <2>4. ASSUME NEW i \in 1 .. Len(stream') PROVE stream'[i].message > 0
        <3>1. CASE i <= Len(stream)
            BY <1>1, <2>3, <3>1
        <3>2. CASE ~(i <= Len(stream))
            <4>1. i - Len(stream) \in 1 .. HeaderSize + l
                BY <1>1, <2>3, <3>2
            <4>2. stream'[i].message = m
                BY <2>2, <2>3, <3>2, <4>1
            <4>3. QED
                BY <2>1, <4>2
        <3>3. QED
            BY <3>1, <3>2
    <2>5. TypeOK'
        BY <1>0, <1>b, <2>1, <2>3 DEF TypeOK
    <2>6. BufferInv'
        BY <2>1, <2>4 DEF BufferInv
    <2>7. QED
        BY <2>5, <2>6
<1>3. ASSUME NEW l \in 0 .. MaxLength, Handle(l) PROVE TypeOK' /\ BufferInv'
    <2>1. /\ pc' = "parse" /\ stream' = stream /\ posted' = posted
          /\ offset \in Place /\ bufLen > 0
          /\ buffer[offset].message \in 1 .. MaxMessages
          /\ handled' = Append(handled, buffer[offset].message)
          /\ buffer' \in [Place -> Cell]
          /\ \A i \in Place : buffer'[i].message = buffer[i].message
          /\ offset' = offset + (l + HeaderSize) /\ bufLen' = bufLen - (l + HeaderSize)
          /\ offset' \in 0 .. BufferSize + MaxLength /\ bufLen' \in -MaxLength .. BufferSize
        BY <1>3, HandleEffect
    <2>2. handled' \in Seq(1 .. MaxMessages)
        BY <1>0, <2>1, AppendProperties
    <2>3. TypeOK'
        BY <1>0, <1>b, <2>1, <2>2 DEF TypeOK
    <2>4. offset + bufLen <= BufferSize /\ \A i \in offset .. offset + bufLen - 1 : buffer[i].message > 0
        BY DEF BufferInv
    <2>5. ASSUME NEW i \in offset' .. offset' + bufLen' - 1 PROVE buffer'[i].message > 0
        <3>1. i \in offset .. offset + bufLen - 1 /\ i \in Place
            BY <1>0, <2>1, <2>4 DEF Place
        <3>2. QED
            BY <2>1, <2>4, <3>1
    <2>6. offset' + bufLen' <= BufferSize
        BY <1>0, <2>1, <2>4 DEF Place
    <2>7. QED
        BY <2>1, <2>3, <2>5, <2>6 DEF BufferInv
<1>4. ASSUME NEW n \in 1 .. BufferSize, Receive(n) PROVE TypeOK' /\ BufferInv'
    <2>1. /\ pc' = "parse" /\ offset' = 0 /\ bufLen' = n /\ n \in 1 .. Len(stream) /\ n <= BufferSize
          /\ buffer' \in [Place -> Cell] /\ \A i \in 1 .. n : buffer'[i - 1] = stream[i]
          /\ stream' \in Seq(Cell) /\ Len(stream') = Len(stream) - n
          /\ \A i \in 1 .. Len(stream) - n : i + n \in 1 .. Len(stream) /\ stream'[i] = stream[i + n]
        BY <1>4, ReceiveEffect
    <2>2. UNCHANGED <<posted, handled>>
        BY <1>4 DEF Receive
    <2>3. TypeOK'
        BY <1>0, <1>b, <2>1, <2>2 DEF TypeOK
    <2>4. ASSUME NEW i \in 0 .. n - 1 PROVE buffer'[i].message > 0
        <3>1. i + 1 \in 1 .. n /\ (i + 1) - 1 = i /\ i + 1 \in 1 .. Len(stream)
            BY <1>1, <2>1
        <3>2. QED
            BY <1>1, <2>1, <3>1
    <2>5. QED
        BY <1>1, <2>1, <2>3, <2>4 DEF BufferInv
<1>5. ASSUME MoveTail PROVE TypeOK' /\ BufferInv'
    <2>1. /\ bufLen' = 0 /\ pc' = "receive"
          /\ UNCHANGED <<posted, stream, offset, handled, cut, rewritten>>
          /\ buffer' = [i \in Place |-> IF i < bufLen /\ i + bufLen \in Place
                                         THEN buffer[i + bufLen] ELSE buffer[i]]
        BY <1>5 DEF MoveTail
    <2>2. buffer' \in [Place -> Cell]
        BY <1>0, <2>1
    <2>3. TypeOK'
        BY <1>0, <1>b, <2>1, <2>2 DEF TypeOK
    <2>4. offset <= BufferSize
        BY <1>0, <1>5 DEF BufferInv, MoveTail, HasCompletionPacket
    <2>5. QED
        BY <1>0, <2>1, <2>3, <2>4 DEF BufferInv
<1>6. ASSUME Misread \/ UNCHANGED vars PROVE TypeOK' /\ BufferInv'
    <2>1. UNCHANGED <<posted, stream, buffer, bufLen, offset, handled>> /\ (pc' = "lost" \/ pc' = pc)
        BY <1>6 DEF Misread, vars
    <2>2. TypeOK'
        BY <1>0, <1>b, <2>1 DEF TypeOK
    <2>3. QED
        BY <2>1, <2>2 DEF BufferInv
<1>7. QED
    BY <1>2, <1>3, <1>4, <1>5, <1>6 DEF Next
-----------------------------------------------------------------------------
(* The messages stay in step.                                              *)

\* A new message goes behind what the stream holds.
LEMMA FramedPost ==
    ASSUME TypeOK, BufferInv, FramedInv, NEW l \in 0 .. MaxLength, Post(l)
    PROVE  FramedInv'
<1> SUFFICES ASSUME ~cut, ~rewritten
             PROVE  (/\ InOrder
                     /\ WholeMessages(stream, Taken + 1, posted)
                     /\ pc = "receive" => Len(handled) = Taken
                     /\ pc = "parse" => bufLen >= 0 /\ WholeMessages(Window, Len(handled) + 1, Taken)
                     /\ pc # "lost")'
    <2>1. (~cut /\ ~rewritten)' => ~cut /\ ~rewritten
        BY DEF Post
    <2>2. QED
        BY <2>1 DEF FramedInv
<1> DEFINE m == posted + 1
<1>1. stream \in Seq(Cell) /\ posted \in 0 .. MaxMessages
    BY DEF TypeOK
<1>2. m \in 1 .. MaxMessages /\ posted' = m /\ stream' = stream \o Message(m, l)
      /\ UNCHANGED <<buffer, bufLen, offset, pc, handled>>
    BY <1>1 DEF Post
<1>3. WholeMessages(stream, Taken + 1, posted) /\ posted = m - 1 /\ posted \in Nat
    BY <1>1 DEF FramedInv
<1> HIDE DEF m
<1>4. Taken \in Int /\ (stream = <<>> => Taken = posted)
      /\ (stream # <<>> => Taken = stream[1].message - 1)
    <2>1. CASE stream = <<>>
        BY <1>3, <2>1 DEF Taken
    <2>2. CASE stream # <<>>
        <3>1. Head(stream) = stream[1] /\ Head(stream) \in Cell
            BY <1>1, <2>2, HeadTailProperties
        <3>2. QED
            BY <2>2, <3>1, CellNumbers DEF Taken
    <2>3. QED
        BY <2>1, <2>2
<1>5. WholeMessages(stream', Taken + 1, posted')
    <2>1. WholeMessages(stream, Taken + 1, m - 1) /\ Taken + 1 \in Int
        BY <1>3, <1>4
    <2>2. QED
        BY <1>1, <1>2, <2>1, WholeExtended
<1>6. Taken' = Taken
    <2>1. stream' \in Seq(Cell) /\ stream' # <<>>
        <3>1. Message(m, l) \in Seq(Cell) /\ Len(Message(m, l)) = HeaderSize + l
            BY <1>2, MessageCells
        <3>2. stream' \in Seq(Cell) /\ Len(stream') > 0
            BY <1>1, <1>2, <3>1, ConcatProperties, LenProperties
        <3>3. QED
            BY <3>2, EmptySeq
    <2>2. stream'[1].message = Taken + 1
        BY <1>5, <2>1 DEF WholeMessages
    <2>3. Head(stream') = stream'[1]
        BY <2>1
    <2>4. QED
        BY <1>4, <2>1, <2>2, <2>3 DEF Taken
<1>7. Window' = Window
    BY <1>2 DEF Window
<1>8. QED
    BY <1>2, <1>5, <1>6, <1>7 DEF FramedInv, InOrder

\* The receive ends where a message ends: the buffer has the stream's first
\* messages.
LEMMA FramedReceive ==
    ASSUME TypeOK, BufferInv, FramedInv, NEW n \in 1 .. BufferSize, Receive(n)
    PROVE  FramedInv'
<1>1. /\ pc = "receive" /\ pc' = "parse" /\ offset' = 0 /\ bufLen' = n
      /\ n \in 1 .. Len(stream) /\ n <= BufferSize
      /\ buffer' \in [Place -> Cell] /\ \A i \in 1 .. n : buffer'[i - 1] = stream[i]
      /\ stream' \in Seq(Cell) /\ Len(stream') = Len(stream) - n
      /\ \A i \in 1 .. Len(stream) - n : i + n \in 1 .. Len(stream) /\ stream'[i] = stream[i + n]
    BY ReceiveEffect
<1>2. SUFFICES ASSUME ~cut, ~rewritten, stream' # <<>> => Head(stream').place = 0
               PROVE  (/\ InOrder
                       /\ WholeMessages(stream, Taken + 1, posted)
                       /\ pc = "receive" => Len(handled) = Taken
                       /\ pc = "parse" => bufLen >= 0 /\ WholeMessages(Window, Len(handled) + 1, Taken)
                       /\ pc # "lost")'
    <2>1. (~cut /\ ~rewritten)' => ~cut /\ ~rewritten /\ (stream' # <<>> => Head(stream').place = 0)
        BY DEF Receive
    <2>2. QED
        BY <2>1 DEF FramedInv
<1>3. stream \in Seq(Cell) /\ posted \in 0 .. MaxMessages /\ Len(stream) \in Nat
    BY LenProperties DEF TypeOK
<1>4. WholeMessages(stream, Taken + 1, posted) /\ Len(handled) = Taken /\ InOrder
    BY <1>1, <1>2 DEF FramedInv
<1>5. UNCHANGED <<posted, handled>>
    BY DEF Receive
<1>6. stream # <<>> /\ Taken + 1 = stream[1].message /\ Taken + 1 \in Int /\ posted \in Int
    <2>1. stream # <<>>
        BY <1>1, <1>3, EmptySeq
    <2>2. Head(stream) = stream[1] /\ Head(stream) \in Cell
        BY <1>3, <2>1, HeadTailProperties
    <2>3. stream[1].message \in Nat
        BY <2>2, CellNumbers
    <2>4. QED
        BY <1>3, <2>1, <2>2, <2>3 DEF Taken
<1>7. stream' # <<>> => Head(stream') = stream'[1] /\ stream'[1] \in Cell
    BY <1>1, HeadTailProperties
<1>8. stream' # <<>> => stream'[1].place = 0 /\ stream'[1].message \in Nat
    BY <1>2, <1>7, CellNumbers
<1>9. Taken' = (IF stream' = <<>> THEN posted ELSE stream'[1].message - 1)
    BY <1>5, <1>7 DEF Taken
<1>10. WholeMessages(stream', IF stream' = <<>> THEN posted + 1 ELSE stream'[1].message, posted)
    <2>1. /\ n \in 0 .. Len(stream) /\ Len(stream') = Len(stream) - n
          /\ \A i \in 1 .. Len(stream') : stream'[i] = stream[i + n]
        BY <1>1, <1>3
    <2>2. stream \in Seq(Cell) /\ stream' \in Seq(Cell)
        BY <1>1, <1>3
    <2>3. QED
        BY <1>4, <1>6, <1>8, <2>1, <2>2, WholeSuffix
<1>11. Taken' + 1 = (IF stream' = <<>> THEN posted + 1 ELSE stream'[1].message)
    BY <1>3, <1>8, <1>9
<1>12. (WholeMessages(stream, Taken + 1, posted))'
    BY <1>5, <1>10, <1>11
<1>13. stream' = <<>> <=> n = Len(stream)
    <2>1. stream' = <<>> <=> Len(stream') = 0
        BY <1>1, EmptySeq
    <2>2. QED
        BY <1>1, <1>3, <2>1
<1>14. /\ Window' \in Seq(Cell) /\ Len(Window') = n
       /\ \A i \in 1 .. n : Window'[i] = stream[i]
    <2>1. 0 \in Nat /\ n \in Nat /\ 0 + n <= BufferSize
        BY <1>1
    <2>2. Window' = [i \in 1 .. n |-> buffer'[0 + i - 1]]
        BY <1>1 DEF Window
    <2>3. buffer' \in [Place -> Cell]
        BY <1>1
    <2>4. IsWindow(Window', buffer', 0, n)
        BY <2>1, <2>2, <2>3, WindowOf
    <2>5. /\ Window' \in Seq(Cell) /\ Len(Window') = n
          /\ \A i \in 1 .. n : Window'[i] = buffer'[0 + i - 1]
        BY <2>4 DEF IsWindow
    <2>6. \A i \in 1 .. n : buffer'[i - 1] = stream[i]
        BY <1>1
    <2>7. \A i \in 1 .. n : 0 + i - 1 = i - 1
        BY <2>1
    <2>8. QED
        BY <2>5, <2>6, <2>7
<1>15. n < Len(stream) => stream[n + 1].place = 0 /\ stream'[1] = stream[n + 1]
    <2>1. SUFFICES ASSUME n < Len(stream) PROVE stream[n + 1].place = 0 /\ stream'[1] = stream[n + 1]
        OBVIOUS
    <2>2. 1 \in 1 .. Len(stream) - n /\ 1 + n = n + 1 /\ n # Len(stream)
        BY <1>1, <1>3, <2>1
    <2>3. stream'[1] = stream[n + 1] /\ stream' # <<>>
        BY <1>1, <1>13, <2>2
    <2>4. QED
        BY <1>8, <2>3
<1>16. WholeMessages(Window', Taken + 1, IF n = Len(stream) THEN posted ELSE stream[n + 1].message - 1)
    BY <1>1, <1>3, <1>4, <1>6, <1>14, <1>15, WholePrefix
<1>17. (IF n = Len(stream) THEN posted ELSE stream[n + 1].message - 1) = Taken'
    <2>1. n # Len(stream) => n < Len(stream)
        BY <1>1, <1>3
    <2>2. QED
        BY <1>9, <1>13, <1>15, <2>1
<1>18. (bufLen >= 0 /\ WholeMessages(Window, Len(handled) + 1, Taken))'
    BY <1>1, <1>4, <1>5, <1>16, <1>17
<1>19. QED
    BY <1>1, <1>4, <1>5, <1>12, <1>18 DEF InOrder

\* The worker handles the first message of the buffer, all of which is there.
LEMMA FramedHandle ==
    ASSUME TypeOK, BufferInv, FramedInv, NEW l \in 0 .. MaxLength, Handle(l)
    PROVE  FramedInv'
<1> DEFINE c == buffer[offset]
           k == l + HeaderSize
<1>1. /\ pc = "parse" /\ pc' = "parse" /\ stream' = stream /\ posted' = posted
      /\ offset \in Place /\ bufLen > 0 /\ c \in Cell
      /\ c.place = 0 /\ c.message \in 1 .. MaxMessages
      /\ bufLen >= c.nLength + HeaderSize
      /\ handled' = Append(handled, c.message)
      /\ l = c.nLength => buffer' = buffer
      /\ offset' = offset + k /\ bufLen' = bufLen - k
    BY HandleEffect
<1>2. SUFFICES ASSUME ~cut, ~rewritten, l = c.nLength
               PROVE  (/\ InOrder
                       /\ WholeMessages(stream, Taken + 1, posted)
                       /\ pc = "receive" => Len(handled) = Taken
                       /\ pc = "parse" => bufLen >= 0 /\ WholeMessages(Window, Len(handled) + 1, Taken)
                       /\ pc # "lost")'
    <2>1. (~cut /\ ~rewritten)' => ~cut /\ ~rewritten /\ l = c.nLength
        BY DEF Handle
    <2>2. QED
        BY <2>1 DEF FramedInv
<1> HIDE DEF c
<1>3. /\ InOrder /\ WholeMessages(stream, Taken + 1, posted)
      /\ WholeMessages(Window, Len(handled) + 1, Taken)
    BY <1>1, <1>2 DEF FramedInv
<1>4. /\ offset \in Nat /\ bufLen \in Nat /\ offset + bufLen <= BufferSize
      /\ k \in Nat /\ k > 0 /\ k <= bufLen /\ buffer \in [Place -> Cell]
      /\ bufLen' \in Nat /\ offset' \in Nat /\ offset' + bufLen' <= BufferSize
    <2>1. bufLen \in Int /\ offset + bufLen <= BufferSize /\ buffer \in [Place -> Cell]
        BY DEF TypeOK, BufferInv
    <2>2. offset \in Nat /\ bufLen \in Nat
        BY <1>1, <2>1 DEF Place
    <2>3. k \in Nat /\ k > 0 /\ k <= bufLen
        BY <1>1, <1>2
    <2>4. QED
        BY <1>1, <2>1, <2>2, <2>3
<1>5. Taken' = Taken /\ Taken \in Int
    <2>1. Taken' = Taken
        BY <1>1 DEF Taken
    <2>2. stream \in Seq(Cell) /\ posted \in Int
        BY DEF TypeOK
    <2>3. stream # <<>> => Head(stream) \in Cell
        BY <2>2, HeadTailProperties
    <2>4. QED
        BY <2>1, <2>2, <2>3, CellNumbers DEF Taken
<1>6. /\ Window \in Seq(Cell) /\ Len(Window) = bufLen /\ (Window = <<>> <=> bufLen = 0)
      /\ \A i \in 1 .. bufLen : Window[i] = buffer[offset + i - 1]
    <2>1. offset \in Nat /\ bufLen \in Nat /\ offset + bufLen <= BufferSize /\ buffer \in [Place -> Cell]
        BY <1>4
    <2>2. IsWindow(Window, buffer, offset, bufLen)
        BY <2>1, WindowOf DEF Window
    <2>3. QED
        BY <2>2 DEF IsWindow
<1>7. /\ Window' \in Seq(Cell) /\ Len(Window') = bufLen' /\ (Window' = <<>> <=> bufLen' = 0)
      /\ \A i \in 1 .. bufLen' : Window'[i] = buffer[offset' + i - 1]
    <2>1. Window' = [i \in 1 .. bufLen' |-> buffer[offset' + i - 1]]
        BY <1>1, <1>2 DEF Window
    <2>2. offset' \in Nat /\ bufLen' \in Nat /\ offset' + bufLen' <= BufferSize /\ buffer \in [Place -> Cell]
        BY <1>4
    <2>3. IsWindow(Window', buffer, offset', bufLen')
        BY <2>1, <2>2, WindowOf
    <2>4. QED
        BY <2>3 DEF IsWindow
<1>8. 1 \in 1 .. bufLen /\ Window[1] = c /\ Window # <<>>
    <2>1. 1 \in 1 .. bufLen /\ offset + 1 - 1 = offset
        BY <1>1, <1>4
    <2>2. QED
        BY <1>4, <1>6, <2>1 DEF c
<1>9. c.message = Len(handled) + 1
    BY <1>3, <1>8 DEF WholeMessages
<1>10. /\ k + 1 = bufLen + 1 => c.message = Taken
       /\ k + 1 <= bufLen => Window[k + 1].place = 0 /\ Window[k + 1].message = c.message + 1
    <2>1. 1 + HeaderSize + c.nLength = k + 1
        BY <1>2
    <2>2. LET end == 1 + HeaderSize + Window[1].nLength
          IN  /\ end = Len(Window) + 1 => Window[1].message = Taken
              /\ end <= Len(Window) => Window[end].place = 0 /\ Window[end].message = Window[1].message + 1
        BY <1>1, <1>3, <1>6, <1>8 DEF WholeMessages
    <2> HIDE DEF k
    <2>3. QED
        BY <1>6, <1>8, <2>1, <2>2
<1>11. /\ handled \in Seq(1 .. MaxMessages) /\ Len(handled) \in Nat
       /\ Len(handled') = Len(handled) + 1
       /\ \A i \in 1 .. Len(handled) : handled'[i] = handled[i]
       /\ handled'[Len(handled) + 1] = c.message
       /\ handled' \in Seq(1 .. MaxMessages)
    <2>1. handled \in Seq(1 .. MaxMessages)
        BY DEF TypeOK
    <2>2. QED
        BY <1>1, <2>1, AppendProperties, LenProperties
<1>12. InOrder'
    <2>1. \A i \in 1 .. Len(handled) : handled[i] = i
        BY <1>3 DEF InOrder
    <2>2. \A i \in 1 .. Len(handled) + 1 : handled'[i] = i
        BY <1>9, <1>11, <2>1
    <2>3. handled' = [i \in 1 .. Len(handled') |-> handled'[i]]
        BY <1>11
    <2>4. QED
        BY <1>11, <2>2, <2>3 DEF InOrder
<1> HIDE DEF k
<1>13. \A i \in 1 .. bufLen' : i + k \in 1 .. bufLen /\ Window'[i] = Window[i + k]
    <2>1. SUFFICES ASSUME NEW i \in 1 .. bufLen' PROVE i + k \in 1 .. bufLen /\ Window'[i] = Window[i + k]
        OBVIOUS
    <2>2. i + k \in 1 .. bufLen /\ offset' + i - 1 = offset + (i + k) - 1
        BY <1>1, <1>4
    <2>3. QED
        BY <1>6, <1>7, <2>2
<1>14. Window' # <<>> => k + 1 <= bufLen /\ Window'[1] = Window[k + 1]
    <2>1. SUFFICES ASSUME Window' # <<>> PROVE k + 1 <= bufLen /\ Window'[1] = Window[k + 1]
        OBVIOUS
    <2>2. 1 \in 1 .. bufLen' /\ 1 + k = k + 1
        BY <1>4, <1>7, <2>1
    <2>3. QED
        BY <1>4, <1>13, <2>2
<1>15. WholeMessages(Window', IF Window' = <<>> THEN Taken + 1 ELSE Window'[1].message, Taken)
    <2>1. Window' # <<>> => Window'[1].place = 0
        BY <1>10, <1>14
    <2>2. k \in 0 .. Len(Window) /\ Len(Window') = Len(Window) - k /\ Len(handled) + 1 \in Int
        BY <1>1, <1>4, <1>6, <1>7, <1>11
    <2>3. \A i \in 1 .. Len(Window') : Window'[i] = Window[i + k]
        BY <1>7, <1>13
    <2>4. QED
        BY <1>3, <1>5, <1>6, <1>7, <2>1, <2>2, <2>3, WholeSuffix
<1>16. (IF Window' = <<>> THEN Taken + 1 ELSE Window'[1].message) = Len(handled') + 1
    <2>1. CASE Window' = <<>>
        <3>1. k + 1 = bufLen + 1
            BY <1>1, <1>4, <1>7, <2>1
        <3>2. QED
            BY <1>9, <1>10, <1>11, <2>1, <3>1
    <2>2. CASE Window' # <<>>
        BY <1>9, <1>10, <1>11, <1>14, <2>2
    <2>3. QED
        BY <2>1, <2>2
<1>17. QED
    BY <1>1, <1>3, <1>4, <1>5, <1>12, <1>15, <1>16

\* What is left when no whole message is there is nothing at all, and what is
\* there begins with a header.
LEMMA FramedRest ==
    ASSUME TypeOK, BufferInv, FramedInv, MoveTail \/ Misread
    PROVE  FramedInv'
<1> SUFFICES ASSUME ~cut, ~rewritten PROVE FramedInv'
    <2>1. (~cut /\ ~rewritten)' => ~cut /\ ~rewritten
        BY DEF MoveTail, Misread
    <2>2. QED
        BY <2>1 DEF FramedInv
<1>1. /\ pc = "parse" /\ UNCHANGED <<posted, stream, handled>>
      /\ MoveTail => pc' = "receive" /\ ~HasCompletionPacket(offset)
      /\ Misread => HasCompletionPacket(offset) /\ ~IsHeader(offset)
    BY DEF MoveTail, Misread
<1>2. /\ InOrder /\ WholeMessages(stream, Taken + 1, posted) /\ bufLen >= 0
      /\ WholeMessages(Window, Len(handled) + 1, Taken)
    BY <1>1 DEF FramedInv
<1>3. bufLen \in Nat /\ offset \in Nat /\ offset + bufLen <= BufferSize /\ buffer \in [Place -> Cell]
    BY <1>2 DEF TypeOK, BufferInv
<1>4. /\ Window \in Seq(Cell) /\ Len(Window) = bufLen /\ (Window = <<>> <=> bufLen = 0)
      /\ \A i \in 1 .. bufLen : Window[i] = buffer[offset + i - 1]
    <2>1. buffer \in [Place -> Cell] /\ offset \in Nat /\ bufLen \in Nat
          /\ offset + bufLen <= BufferSize
        BY <1>3
    <2>2. IsWindow(Window, buffer, offset, bufLen)
        BY <2>1, WindowOf DEF Window
    <2>3. QED
        BY <2>2 DEF IsWindow
<1>5. ASSUME bufLen > 0 PROVE IsHeader(offset) /\ HasCompletionPacket(offset)
    <2>1. 1 \in 1 .. bufLen /\ offset + 1 - 1 = offset /\ offset \in Place
        BY <1>3, <1>5 DEF Place
    <2>2. Window[1] = buffer[offset] /\ Window # <<>> /\ buffer[offset] \in Cell
        BY <1>3, <1>4, <1>5, <2>1
    <2>3. buffer[offset].place = 0 /\ buffer[offset].nLength \in Nat
        BY <1>2, <2>2, CellNumbers DEF WholeMessages
    <2>4. 1 + HeaderSize + buffer[offset].nLength <= bufLen + 1
        BY <1>2, <1>4, <2>1, <2>2, <2>3 DEF WholeMessages
    <2>5. QED
        BY <1>3, <1>5, <2>3, <2>4 DEF IsHeader, HasCompletionPacket
<1>6. ~Misread
    BY <1>1, <1>3, <1>5 DEF HasCompletionPacket
<1>7. Window = <<>>
    BY <1>1, <1>3, <1>4, <1>5, <1>6
<1>8. Len(handled) \in Nat
    BY LenProperties DEF TypeOK
<1>9. Taken \in Int
    <2>1. stream \in Seq(Cell) /\ posted \in Int
        BY DEF TypeOK
    <2>2. stream # <<>> => Head(stream) \in Cell
        BY <2>1, HeadTailProperties
    <2>3. QED
        BY <2>1, <2>2, CellNumbers DEF Taken
<1>10. Taken = Len(handled)
    BY <1>2, <1>7, <1>8, <1>9 DEF WholeMessages
<1>11. Taken' = Taken
    BY <1>1 DEF Taken
<1>12. QED
    BY <1>1, <1>2, <1>6, <1>10, <1>11 DEF FramedInv, InOrder

\* The invariants hold at the start, with nothing sent.
LEMMA InitIInv == Init => IInv
<1> SUFFICES ASSUME Init PROVE IInv
    OBVIOUS
<1>1. NoByte \in Cell
    BY DEF NoByte, Cell
<1>2. TypeOK
    <2>1. stream \in Seq(Cell) /\ handled \in Seq(1 .. MaxMessages)
        BY EmptySeq DEF Init
    <2>2. buffer \in [Place -> Cell]
        BY <1>1 DEF Init
    <2>3. posted = 0 /\ bufLen = 0 /\ offset = 0 /\ pc = "receive" /\ cut = FALSE /\ rewritten = FALSE
        BY DEF Init
    <2>4. 0 \in 0 .. MaxMessages /\ 0 \in -MaxLength .. BufferSize /\ 0 \in 0 .. BufferSize + MaxLength
        OBVIOUS
    <2>5. QED
        BY <2>1, <2>2, <2>3, <2>4 DEF TypeOK
<1>3. BufferInv
    BY EmptySeq DEF Init, BufferInv
<1>4. FramedInv
    <2>1. handled = <<>> /\ stream = <<>> /\ posted = 0 /\ pc = "receive" /\ Len(<<>>) = 0
        BY EmptySeq DEF Init
    <2>2. Taken = 0
        BY <2>1 DEF Taken
    <2>3. QED
        BY <2>1, <2>2 DEF FramedInv, InOrder, WholeMessages
<1>5. QED
    BY <1>2, <1>3, <1>4 DEF IInv

\* Whatever the sizes and wherever receives end, buffer and stream hold bytes
\* of messages and, in step, whole messages.
THEOREM StreamInvariance == Spec => []IInv
<1>1. IInv /\ [Next]_vars => IInv'
    <2> SUFFICES ASSUME TypeOK, BufferInv, FramedInv, [Next]_vars PROVE IInv'
        BY DEF IInv
    <2>1. TypeOK' /\ BufferInv'
        BY BufferStep
    <2>2. ASSUME UNCHANGED vars PROVE FramedInv'
        <3>1. UNCHANGED <<posted, stream, buffer, bufLen, offset, pc, handled, cut, rewritten>>
            BY <2>2 DEF vars
        <3>2. Taken' = Taken /\ Window' = Window
            BY <3>1 DEF Taken, Window
        <3>3. (~cut /\ ~rewritten)' => ~cut /\ ~rewritten
            BY <3>1
        <3>4. QED
            BY <3>1, <3>2, <3>3 DEF FramedInv, InOrder
    <2>3. ASSUME Next PROVE FramedInv'
        <3>1. CASE \E l \in 0 .. MaxLength : Post(l) \/ Handle(l)
            BY <3>1, FramedPost, FramedHandle
        <3>2. CASE \E n \in 1 .. BufferSize : Receive(n)
            BY <3>2, FramedReceive
        <3>3. QED
            BY <2>3, <3>1, <3>2, FramedRest DEF Next
    <2>4. QED
        BY <2>1, <2>2, <2>3 DEF IInv
<1>2. QED
    BY InitIInv, <1>1, PTL DEF Spec

\* The worker's position and length stay within what the code's unsigned
\* arithmetic makes of them: never beyond the buffer by more than one reply.
THEOREM StreamTypes == Spec => []TypeOK
<1>1. IInv => TypeOK
    BY DEF IInv
<1>2. QED
    BY StreamInvariance, <1>1, PTL

\* While receives end where messages end and replies are as long as their
\* requests, the worker handles the messages one after the other and has
\* handled all it has received when it receives again (ServerWorkerThread).
THEOREM InStepHolds == Spec => []InStep
<1>1. IInv => InStep
    BY DEF IInv, FramedInv, InStep, Taken
<1>2. QED
    BY StreamInvariance, <1>1, PTL

=============================================================================
