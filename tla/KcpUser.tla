------------------------------ MODULE KcpUser ------------------------------
(***************************************************************************)
(* What the game server makes of a player's KCP messages: for each         *)
(* datagram the worker thread calls ikcp_input, reads once from ikcp_recv  *)
(* into m_pKcpBuffer and cuts the buffer into packets.  A packet begins    *)
(* with its size.  ikcp itself is Kcp; here a datagram completes any       *)
(* number of messages, none when it repeats or skips one.                  *)
(***************************************************************************)
EXTENDS Integers, SequencesExt

CONSTANTS
    HeaderSize,   \* sizeof(CMsg) (8)
    PacketSize,   \* KCP_PACKET_SIZE (4096)
    Sizes,        \* the sizes of the packets a client sends: more than a
                  \* header, no more than the buffer
    MaxDatagrams  \* bound: datagrams taken in

VARIABLES
    queue,      \* the messages ikcp holds ready for ikcp_recv
    buffer,     \* m_pKcpBuffer: of each cell, the packet size and its place
    bytes,      \* m_nKcpReveivedBytes
    offset,     \* where ExtractPacket reads
    extracting, \* whether the thread is in ExtractPacket
    received,   \* how many bytes ikcp_recv has returned
    extracted,  \* how many of them the thread has cut off
    datagrams   \* how many datagrams were taken in

vars == <<queue, buffer, bytes, offset, extracting, received, extracted, datagrams>>

\* Cells below the buffer are what lies before it in CUserInfo.
Place == -3 * MaxDatagrams .. PacketSize
Blank == [size |-> 0, at |-> 0]

\* No constructor sets the count; it is taken to be zero.
Init ==
    /\ queue = <<>>
    /\ buffer = [i \in Place |-> Blank]
    /\ bytes = 0 /\ offset = 0 /\ extracting = FALSE
    /\ received = 0 /\ extracted = 0 /\ datagrams = 0

Write(n) ==
    [i \in Place |-> IF i \in bytes .. bytes + n - 1 THEN [size |-> n, at |-> i - bytes]
                                                      ELSE buffer[i]]

(* The answers of ikcp_recv that are not a size: nothing there, a message  *)
(* not all there, or one too large for the room that is left.              *)
Refusal ==
    IF queue = <<>> THEN {-1, -2}
    ELSE IF Head(queue) > PacketSize - bytes THEN {-3} ELSE {}

(* KcpServer::OnRecv and CUserInfo::OnReceivedMsg, up to ExtractPacket.    *)
OnReceivedMsg ==
    /\ ~ extracting /\ datagrams < MaxDatagrams
    /\ extracting' = TRUE /\ offset' = 0
    /\ datagrams' = datagrams + 1
    /\ IF Refusal # {}
       THEN /\ \E refusal \in Refusal : bytes' = bytes + refusal
            /\ UNCHANGED <<queue, buffer, received>>
       ELSE /\ bytes' = bytes + Head(queue)
            /\ buffer' = Write(Head(queue))
            /\ received' = received + Head(queue)
            /\ queue' = Tail(queue)
    /\ UNCHANGED extracted

(* ikcp_input: the datagram completes a message, perhaps several.          *)
KcpInput ==
    /\ ~ extracting /\ Len(queue) < MaxDatagrams
    /\ \E n \in Sizes : queue' = Append(queue, n)
    /\ UNCHANGED <<buffer, bytes, offset, extracting, received, extracted, datagrams>>

(* What pMsg->Size reads: the size where a packet begins, anything else    *)
(* elsewhere.                                                              *)
SizeAt(i) ==
    IF buffer[i] # Blank /\ buffer[i].at = 0 THEN {buffer[i].size} ELSE 0 .. PacketSize

(* One round of the loop of ExtractPacket: with a packet that is not       *)
(* smaller than what is there it begins again with nothing changed.        *)
ExtractPacket ==
    /\ extracting /\ bytes > HeaderSize
    /\ \E size \in SizeAt(offset) :
        IF size < bytes
        THEN /\ bytes' = bytes - size
             /\ offset' = offset + size
             /\ extracted' = extracted + size
        ELSE UNCHANGED <<bytes, offset, extracted>>
    /\ UNCHANGED <<queue, buffer, extracting, received, datagrams>>

(* The loop ends and the rest moves to the front of the buffer.            *)
MoveTail ==
    /\ extracting /\ bytes <= HeaderSize
    /\ extracting' = FALSE
    /\ buffer' = IF bytes # 0 /\ offset # 0
                 THEN [i \in Place |-> IF i \in 0 .. bytes - 1 THEN buffer[offset + i]
                                                               ELSE buffer[i]]
                 ELSE buffer
    /\ UNCHANGED <<queue, bytes, offset, received, extracted, datagrams>>

Next == OnReceivedMsg \/ KcpInput \/ ExtractPacket \/ MoveTail

Spec == Init /\ [][Next]_vars

-----------------------------------------------------------------------------
(* m_nKcpReveivedBytes counts what ikcp_recv has returned and              *)
(* ExtractPacket has left.  (ikcp_recv answers below zero when it has no   *)
(* message, ikcp.c:354; the code adds that answer to the count.)           *)
CountIsData == bytes = received - extracted

=============================================================================
