----------------------------- MODULE GateStream -----------------------------
(***************************************************************************)
(* How the game server takes the messages of a gate out of the TCP stream. *)
(*                                                                         *)
(* There is one receive at a time for a gate, into OverlappedEx[0].Buffer. *)
(* When it completes, ServerWorkerThread handles the whole messages in the *)
(* buffer, moves what is left and receives again.  The handler builds its  *)
(* reply in the header of the request: for some messages nLength is the    *)
(* length of the reply when NextPacketOffset reads it.                     *)
(*                                                                         *)
(* A byte is a cell: the message it belongs to, its place there, and in    *)
(* the first one nLength.  Where a header is read that is none, or from    *)
(* beyond what was received, the worker is "lost" and the model stops.     *)
(***************************************************************************)
EXTENDS Integers, Sequences

CONSTANTS HeaderSize,  \* sizeof(tag_TMSGHEADER)
          BufferSize,  \* DATA_GATE_SIZE
          MaxLength,   \* bound: nLength of a message and of a reply
          MaxMessages  \* bound: messages the gate sends

ASSUME GateStreamAssumption ==
    /\ HeaderSize \in Nat \ {0}
    /\ BufferSize \in Nat
    /\ MaxLength \in Nat
    /\ MaxMessages \in Nat
    /\ BufferSize >= HeaderSize + MaxLength

Place == 0 .. BufferSize - 1
Cell == [message : 0 .. MaxMessages, place : 0 .. HeaderSize + MaxLength - 1,
         nLength : 0 .. MaxLength]
NoByte == [message |-> 0, place |-> 0, nLength |-> 0]

VARIABLES
    posted,     \* how many messages the gate has sent
    stream,     \* the bytes the game server has not received
    buffer,     \* OverlappedEx[0].Buffer
    bufLen,     \* OverlappedEx[0].bufLen
    offset,     \* where the worker is in the buffer
    pc,         \* "receive", "parse" or "lost"
    handled,    \* the messages handled, in order
    cut,        \* history: some receive ended inside a message
    rewritten   \* history: a handler has changed the nLength of a request

vars == <<posted, stream, buffer, bufLen, offset, pc, handled, cut, rewritten>>

TypeOK ==
    /\ posted \in 0 .. MaxMessages
    /\ stream \in Seq(Cell)
    /\ buffer \in [Place -> Cell]
    /\ bufLen \in -MaxLength .. BufferSize
    /\ offset \in 0 .. BufferSize + MaxLength
    /\ pc \in {"receive", "parse", "lost"}
    /\ handled \in Seq(1 .. MaxMessages)
    /\ cut \in BOOLEAN /\ rewritten \in BOOLEAN

Init ==
    /\ posted = 0
    /\ stream = <<>>
    /\ buffer = [i \in Place |-> NoByte]
    /\ bufLen = 0
    /\ offset = 0
    /\ pc = "receive"
    /\ handled = <<>>
    /\ cut = FALSE /\ rewritten = FALSE
-----------------------------------------------------------------------------
\* The gate's SendSocketMsgS: a header and nLength bytes of data.
Message(m, nLength) ==
    [i \in 1 .. HeaderSize + nLength |->
        [message |-> m, place |-> i - 1, nLength |-> nLength]]

Post(nLength) ==
    /\ posted < MaxMessages
    /\ posted' = posted + 1
    /\ stream' = stream \o Message(posted', nLength)
    /\ UNCHANGED <<buffer, bufLen, offset, pc, handled, cut, rewritten>>

\* The receive completes with n bytes: they go where CGateInfo::Recv said.
Receive(n) ==
    /\ pc = "receive"
    /\ n <= Len(stream) /\ n <= BufferSize - bufLen
    /\ buffer' = [i \in Place |-> IF i - bufLen \in 0 .. n - 1
                                  THEN stream[i - bufLen + 1] ELSE buffer[i]]
    /\ stream' = SubSeq(stream, n + 1, Len(stream))
    /\ bufLen' = bufLen + n
    /\ offset' = 0
    /\ pc' = "parse"
    /\ cut' = (cut \/ (stream' # <<>> /\ Head(stream').place # 0))
    /\ UNCHANGED <<posted, handled, rewritten>>

\* A mutant: a message that ends where the received bytes end is left.
HasCompletionPacketStrictly(o) ==
    bufLen < 0 \/ (bufLen >= HeaderSize /\ bufLen > buffer[o].nLength + HeaderSize)

\* Both comparisons are unsigned: a negative bufLen passes them.
HasCompletionPacket(o) ==
    bufLen < 0 \/ (bufLen >= HeaderSize /\ bufLen >= buffer[o].nLength + HeaderSize)

\* A mutant: the header is counted twice.
NextPacketOffsetTwice(o, nLength) == o + nLength + 2 * HeaderSize

NextPacketOffset(o, nLength) == o + nLength + HeaderSize

IsHeader(o) == bufLen > 0 /\ buffer[o].place = 0

\* ProcessGameGateMsg, with nLength in the header when it returns, and the step
\* to the next message.
Handle(nLength) ==
    /\ pc = "parse"
    /\ HasCompletionPacket(offset)
    /\ IsHeader(offset)
    /\ handled' = Append(handled, buffer[offset].message)
    /\ rewritten' = (rewritten \/ nLength # buffer[offset].nLength)
    /\ buffer' = [buffer EXCEPT ![offset].nLength = nLength]
    /\ offset' = NextPacketOffset(offset, nLength)
    /\ bufLen' = bufLen - (offset' - offset)
    /\ UNCHANGED <<posted, stream, pc, cut>>

\* What looks like a whole message does not begin with a header.
Misread ==
    /\ pc = "parse"
    /\ HasCompletionPacket(offset)
    /\ ~IsHeader(offset)
    /\ pc' = "lost"
    /\ UNCHANGED <<posted, stream, buffer, bufLen, offset, handled, cut, rewritten>>

\* ProcessGameGateMsgTail gets bufLen as its offset, and bufLen is 0 after it:
\* the next receive goes to the front of the buffer.
MoveTail ==
    /\ pc = "parse"
    /\ ~HasCompletionPacket(offset)
    /\ buffer' = [i \in Place |-> IF i < bufLen /\ i + bufLen \in Place
                                  THEN buffer[i + bufLen] ELSE buffer[i]]
    /\ bufLen' = 0
    /\ pc' = "receive"
    /\ UNCHANGED <<posted, stream, offset, handled, cut, rewritten>>

Next ==
    \/ \E l \in 0 .. MaxLength : Post(l) \/ Handle(l)
    \/ \E n \in 1 .. BufferSize : Receive(n)
    \/ Misread
    \/ MoveTail

Spec == Init /\ [][Next]_vars
-----------------------------------------------------------------------------
(* Properties.                                                             *)

InOrder == handled = [i \in 1 .. Len(handled) |-> i]

\* While receives end where messages end and replies are as long as their
\* requests, the worker handles the messages one after the other, and when it
\* receives again it has handled every message it has received.
InStep ==
    ~cut /\ ~rewritten =>
        /\ InOrder
        /\ pc # "lost"
        /\ pc = "receive" =>
              Len(handled) = IF stream = <<>> THEN posted ELSE Head(stream).message - 1

\* What the comment over the call of ProcessGameGateMsgTail says: what is left
\* over is moved to the front of the buffer.
TailMoved ==
    [][pc = "parse" /\ pc' = "receive" =>
          \A i \in 0 .. bufLen - 1 : buffer'[i] = buffer[offset + i]]_vars
-----------------------------------------------------------------------------
(* The inductive invariants.                                               *)

\* The worker and the receive stay inside the buffer, and what they have there
\* was sent.
BufferInv ==
    /\ pc = "receive" => bufLen = 0
    /\ offset + bufLen <= BufferSize
    /\ \A i \in offset .. offset + bufLen - 1 : buffer[i].message > 0
    /\ \A i \in 1 .. Len(stream) : stream[i].message > 0

\* s is the messages first to last, one after the other and each of them whole.
WholeMessages(s, first, last) ==
    /\ s = <<>> => last = first - 1
    /\ s # <<>> => s[1].place = 0 /\ s[1].message = first
    /\ \A i \in 1 .. Len(s) : s[i].place = 0 =>
          LET end == i + HeaderSize + s[i].nLength
          IN  /\ end <= Len(s) + 1
              /\ \A j \in i + 1 .. end - 1 : s[j].place # 0
              /\ end = Len(s) + 1 => s[i].message = last
              /\ end <= Len(s) => s[end].place = 0 /\ s[end].message = s[i].message + 1

\* What the worker has yet to handle, and the last message the receives got.
Window == [i \in 1 .. bufLen |-> buffer[offset + i - 1]]
Taken == IF stream = <<>> THEN posted ELSE Head(stream).message - 1

FramedInv ==
    ~cut /\ ~rewritten =>
        /\ InOrder
        /\ WholeMessages(stream, Taken + 1, posted)
        /\ pc = "receive" => Len(handled) = Taken
        /\ pc = "parse" => bufLen >= 0 /\ WholeMessages(Window, Len(handled) + 1, Taken)
        /\ pc # "lost"

IInv == TypeOK /\ BufferInv /\ FramedInv

=============================================================================
