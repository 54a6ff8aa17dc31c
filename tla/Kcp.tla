-------------------------------- MODULE Kcp --------------------------------
(***************************************************************************)
(* The KCP protocol of ikcp.c, which carries a player's battle messages    *)
(* over UDP: two ends, each with the send and the receive half of one      *)
(* control block, and a network between them that loses, duplicates and    *)
(* reorders datagrams.  The ends are configured as CUserInfo::InitKcp      *)
(* does it: no congestion window, message mode, a fast resend.  Clocks are *)
(* left out: whether a timer has run out is a choice of the step that      *)
(* looks at it.  Lengths are counted in units of the segment header.       *)
(***************************************************************************)
EXTENDS Integers, FiniteSets, SequencesExt

CONSTANTS
    Messages,    \* for each end, the lengths of the messages ikcp_send takes;
                 \* a call it refuses changes nothing and is left out
    Window,      \* snd_wnd and rcv_wnd, in segments (128)
    Mtu,         \* the size of the largest datagram, in headers
    FastResend,  \* fastresend, acks that skip a segment (2)
    MaxAcks,     \* bound: acks an end collects before it flushes
    MaxInFlight, \* bound: datagrams the network holds for one end
    MaxFaults    \* bound: datagrams lost or duplicated, timers that run out early

End == {"client", "server"}
Peer(e) == IF e = "client" THEN "server" ELSE "client"

Overhead == 1               \* IKCP_OVERHEAD, the unit of length
Mss == Mtu - Overhead

ASSUME KcpAssumption ==
    /\ Messages \in [End -> Seq(Nat)]
    /\ {Window, FastResend, MaxAcks, MaxInFlight} \subseteq Nat \ {0}
    /\ Mtu \in Nat /\ Mtu > Overhead
    /\ MaxFaults \in Nat

VARIABLES
    kcp,    \* the control block of each end
    sent,   \* how many messages each end has given to ikcp_send
    got,    \* the messages each end's ikcp_recv has returned
    net,    \* the datagrams on their way to each end
    input,  \* what ikcp_input has still to do at each end
    faults  \* how many datagrams were lost or duplicated, timers early

vars == <<kcp, sent, got, net, input, faults>>

Least(m, n) == IF m <= n THEN m ELSE n

(***************************************************************************)
(* ikcp_create.  A segment of the send buffer carries its number, how      *)
(* often it went out and how many later segments were acknowledged before  *)
(* it; the timer of the window probe only runs while probe_wait is set.    *)
(***************************************************************************)
Created ==
    [snd_una |-> 0, snd_nxt |-> 0, rcv_nxt |-> 0, rmt_wnd |-> Window,
     probe |-> {}, probe_wait |-> FALSE, acklist |-> <<>>,
     snd_queue |-> <<>>, snd_buf |-> <<>>,
     rcv_buf |-> <<>>, rcv_queue |-> <<>>]

(* ikcp_input between two datagrams; a maxack of -1 stands for flag = 0.    *)
NoInput == [rest |-> <<>>, maxack |-> -1]

Init ==
    /\ kcp = [e \in End |-> Created]
    /\ sent = [e \in End |-> 0]
    /\ got = [e \in End |-> <<>>]
    /\ net = [e \in End |-> {}]
    /\ input = [e \in End |-> NoInput]
    /\ faults = 0

-----------------------------------------------------------------------------
(***************************************************************************)
(* ikcp_send.  Message number m becomes Count(len) segments, the last with *)
(* frg 0.  A message of a whole window of segments is refused with -2,     *)
(* which changes nothing: what the caller sends after it is then the next  *)
(* of Messages.                                                            *)
(***************************************************************************)
Count(len) == IF len <= Mss THEN 1 ELSE (len + Mss - 1) \div Mss

Fragments(m, len) ==
    [i \in 1 .. Count(len) |->
        [msg |-> m, frg |-> Count(len) - i, len |-> Least(Mss, len - (i - 1) * Mss)]]

(* The elements of s at the indexes in chosen, in order. *)
Selected(s, chosen) ==
    LET rank(i) == Cardinality({j \in chosen : j <= i})
    IN [n \in 1 .. Cardinality(chosen) |-> s[CHOOSE i \in chosen : rank(i) = n]]

Send(e) ==
    /\ sent[e] < Len(Messages[e])
    /\ LET m == sent[e] + 1
           len == Messages[e][m]
       IN /\ Count(len) < Window
          /\ kcp' = [kcp EXCEPT ![e].snd_queue = @ \o Fragments(m, len)]
          /\ sent' = [sent EXCEPT ![e] = m]
    /\ UNCHANGED <<got, net, input, faults>>

-----------------------------------------------------------------------------
(***************************************************************************)
(* The receiving half.  MoveToQueue is the loop that ikcp_parse_data and   *)
(* ikcp_recv end with: the segments that continue the queue leave the      *)
(* buffer as long as the queue has room.                                   *)
(***************************************************************************)
MoveToQueue(k) ==
    LET follows(n) == \A i \in 1 .. n : k.rcv_buf[i].sn = k.rcv_nxt + i - 1
        fits(n) == n = 0 \/ Len(k.rcv_queue) + n <= Window
        n == CHOOSE n \in 0 .. Len(k.rcv_buf) :
                /\ follows(n) /\ fits(n)
                /\ n < Len(k.rcv_buf) => ~ (follows(n + 1) /\ fits(n + 1))
    IN [k EXCEPT !.rcv_queue = @ \o SubSeq(k.rcv_buf, 1, n),
                 !.rcv_buf = SubSeq(@, n + 1, Len(@)),
                 !.rcv_nxt = @ + n]

(* The first place, from the end of the buffer, behind a lower number. *)
Place(k, sn) ==
    CHOOSE i \in 1 .. Len(k.rcv_buf) + 1 :
        /\ i > 1 => k.rcv_buf[i - 1].sn < sn
        /\ \A j \in i .. Len(k.rcv_buf) : k.rcv_buf[j].sn >= sn

Inserted(k, seg) ==
    [k EXCEPT !.rcv_buf = InsertAt(@, Place(k, seg.sn), [sn |-> seg.sn, data |-> seg.data])]

(* A mutant: a segment that came before is put in again. *)
ParseDataTwice(k, seg) == MoveToQueue(Inserted(k, seg))

(* ikcp_parse_data: a segment not seen yet goes to its place by number. *)
ParseData(k, seg) ==
    IF \E i \in DOMAIN k.rcv_buf : k.rcv_buf[i].sn = seg.sn
    THEN MoveToQueue(k)
    ELSE MoveToQueue(Inserted(k, seg))

(* The PUSH case of ikcp_input: every segment below the end of the window  *)
(* is acknowledged, one below rcv_nxt for the sake of a lost ack.          *)
InputPush(k, seg) ==
    IF seg.sn >= k.rcv_nxt + Window THEN k
    ELSE LET acked == [k EXCEPT !.acklist = Append(@, seg.sn)]
         IN IF seg.sn < k.rcv_nxt THEN acked ELSE ParseData(acked, seg)

(* A mutant: the first fragment passes for the message. *)
PeekFirst(k) == Len(k.rcv_queue)

(* ikcp_peeksize: how many segments the first message of the queue has, or *)
(* 0 when it is not all there.                                             *)
Peek(k) ==
    IF k.rcv_queue = <<>> THEN 0
    ELSE LET first == k.rcv_queue[1].data.frg + 1
         IN IF Len(k.rcv_queue) < first THEN 0 ELSE first

(***************************************************************************)
(* ikcp_recv with a buffer large enough.  It merges segments up to one     *)
(* with frg 0; a queue that was full and has room again makes the next     *)
(* flush tell the other end its window.                                    *)
(***************************************************************************)
Merged(k) ==
    CHOOSE n \in 1 .. Len(k.rcv_queue) :
        /\ k.rcv_queue[n].data.frg = 0 \/ n = Len(k.rcv_queue)
        /\ \A i \in 1 .. n - 1 : k.rcv_queue[i].data.frg # 0

Drained(k, n) ==
    LET taken == MoveToQueue([k EXCEPT !.rcv_queue = SubSeq(@, n + 1, Len(@))])
        recover == Len(k.rcv_queue) >= Window /\ Len(taken.rcv_queue) < Window
    IN IF recover THEN [taken EXCEPT !.probe = @ \cup {"tell"}] ELSE taken

Recv(e) ==
    LET k == kcp[e]
        n == Merged(k)
    IN /\ input[e].rest = <<>> /\ Peek(k) > 0
       /\ got' = [got EXCEPT ![e] = Append(@,
                    [i \in 1 .. n |-> [msg |-> k.rcv_queue[i].data.msg,
                                        frg |-> k.rcv_queue[i].data.frg]])]
       /\ kcp' = [kcp EXCEPT ![e] = Drained(k, n)]
       /\ UNCHANGED <<sent, net, input, faults>>

-----------------------------------------------------------------------------
(***************************************************************************)
(* The sending half of ikcp_input: what an incoming segment says of the    *)
(* segments this end has sent.                                             *)
(***************************************************************************)

(* ikcp_shrink_buf *)
Shrink(k) ==
    [k EXCEPT !.snd_una = IF k.snd_buf = <<>> THEN k.snd_nxt ELSE k.snd_buf[1].sn]

(* A mutant: una itself is taken for received. *)
ParseUnaToo(k, una) ==
    LET n == CHOOSE n \in 0 .. Len(k.snd_buf) :
                /\ \A i \in 1 .. n : k.snd_buf[i].sn <= una
                /\ n < Len(k.snd_buf) => k.snd_buf[n + 1].sn > una
    IN [k EXCEPT !.snd_buf = SubSeq(@, n + 1, Len(@))]

(* ikcp_parse_una: the other end has everything below una. *)
ParseUna(k, una) ==
    LET n == CHOOSE n \in 0 .. Len(k.snd_buf) :
                /\ \A i \in 1 .. n : k.snd_buf[i].sn < una
                /\ n < Len(k.snd_buf) => k.snd_buf[n + 1].sn >= una
    IN [k EXCEPT !.snd_buf = SubSeq(@, n + 1, Len(@))]

(* The check both ikcp_parse_ack and ikcp_parse_fastack begin with. *)
InFlight(k, sn) == k.snd_una <= sn /\ sn < k.snd_nxt

(* ikcp_parse_ack: the other end has sn. *)
ParseAck(k, sn) ==
    LET at == {i \in DOMAIN k.snd_buf : k.snd_buf[i].sn = sn}
    IN IF InFlight(k, sn) /\ at # {}
       THEN [k EXCEPT !.snd_buf = RemoveAt(@, CHOOSE i \in at : TRUE)]
       ELSE k

(* ikcp_parse_fastack: the segments before sn were skipped once more. *)
Skipped(s, sn) ==
    IF s.sn < sn THEN [s EXCEPT !.fastack = Least(FastResend, @ + 1)] ELSE s

ParseFastack(k, sn) ==
    IF InFlight(k, sn)
    THEN [k EXCEPT !.snd_buf = [i \in DOMAIN @ |-> Skipped(@[i], sn)]]
    ELSE k

(* One round of the loop of ikcp_input. *)
InputSegment(k, seg) ==
    LET heard == Shrink(ParseUna([k EXCEPT !.rmt_wnd = seg.wnd], seg.una))
    IN CASE seg.cmd = "ack"  -> Shrink(ParseAck(heard, seg.sn))
         [] seg.cmd = "push" -> InputPush(heard, seg)
         [] seg.cmd = "wask" -> [heard EXCEPT !.probe = @ \cup {"tell"}]
         [] seg.cmd = "wins" -> heard

(* The loop takes in the first of segs.  After the last one the highest    *)
(* ack of the datagram counts for the fast resend.                         *)
Round(e, segs, maxack) ==
    /\ Len(kcp[e].acklist) < MaxAcks
    /\ \E k \in {InputSegment(kcp[e], Head(segs))} :
       LET high == IF Head(segs).cmd = "ack" /\ Head(segs).sn > maxack
                   THEN Head(segs).sn ELSE maxack
       IN IF Tail(segs) = <<>>
          THEN /\ kcp' = [kcp EXCEPT ![e] = ParseFastack(k, high)]
               /\ input' = [input EXCEPT ![e] = NoInput]
          ELSE /\ kcp' = [kcp EXCEPT ![e] = k]
               /\ input' = [input EXCEPT ![e] = [rest |-> Tail(segs), maxack |-> high]]
    /\ UNCHANGED <<sent, got>>

(* ikcp_input takes a datagram and, while the main loop may call            *)
(* ikcp_update, its segments one after the other.                          *)
Input(e) ==
    \/ /\ input[e].rest = <<>>
       /\ \E d \in net[e] :
            /\ Round(e, d, -1)
            /\ \/ net' = [net EXCEPT ![e] = @ \ {d}] /\ UNCHANGED faults
               \/ faults < MaxFaults /\ faults' = faults + 1 /\ UNCHANGED net
    \/ /\ input[e].rest # <<>>
       /\ Round(e, input[e].rest, input[e].maxack)
       /\ UNCHANGED <<net, faults>>

(* A datagram that does not arrive. *)
Lose(e) ==
    \E d \in net[e] :
        /\ faults < MaxFaults
        /\ faults' = faults + 1
        /\ net' = [net EXCEPT ![e] = @ \ {d}]
        /\ UNCHANGED <<kcp, sent, got, input>>

-----------------------------------------------------------------------------
(***************************************************************************)
(* ikcp_update and ikcp_flush.  late: the numbers of the segments whose    *)
(* resend timer has run out; asking: whether the probe timer has.          *)
(***************************************************************************)
Unused(k) == IF Len(k.rcv_queue) < Window THEN Window - Len(k.rcv_queue) ELSE 0


(* The window probe: the first flush with a closed window only starts the  *)
(* timer.                                                                  *)
Probe(k, asking) ==
    IF k.rmt_wnd # 0 THEN [k EXCEPT !.probe_wait = FALSE]
    ELSE IF ~ k.probe_wait THEN [k EXCEPT !.probe_wait = TRUE]
    ELSE IF asking THEN [k EXCEPT !.probe = @ \cup {"ask"}]
    ELSE k

NoData == [msg |-> 0, frg |-> 0, len |-> 0]

Control(k, cmd, sn) ==
    [cmd |-> cmd, sn |-> sn, wnd |-> Unused(k), una |-> k.rcv_nxt, data |-> NoData]

Controls(k) ==
    [i \in DOMAIN k.acklist |-> Control(k, "ack", k.acklist[i])]
    \o (IF "ask" \in k.probe THEN <<Control(k, "wask", 0)>> ELSE <<>>)
    \o (IF "tell" \in k.probe THEN <<Control(k, "wins", 0)>> ELSE <<>>)

(* snd_queue to snd_buf, as far as both windows reach. *)
Admit(k) ==
    LET room == k.snd_una + Least(Window, k.rmt_wnd)
        n == Least(Len(k.snd_queue), IF k.snd_nxt < room THEN room - k.snd_nxt ELSE 0)
    IN [k EXCEPT !.snd_nxt = @ + n,
                 !.snd_queue = SubSeq(@, n + 1, Len(@)),
                 !.snd_buf = @ \o [i \in 1 .. n |->
                    [sn |-> k.snd_nxt + i - 1, data |-> k.snd_queue[i],
                     xmit |-> FALSE, fastack |-> 0]]]

NeedSend(s, late) == ~ s.xmit \/ s.sn \in late \/ s.fastack >= FastResend

(* A segment that goes out because of its acks starts to count afresh. *)
Resent(s, late) ==
    IF ~ NeedSend(s, late) THEN s
    ELSE [s EXCEPT !.xmit = TRUE,
                   !.fastack = IF s.xmit /\ s.sn \notin late THEN 0 ELSE @]

Resend(k, late) == [k EXCEPT !.snd_buf = [i \in DOMAIN @ |-> Resent(@[i], late)]]

Push(k, s) ==
    [cmd |-> "push", sn |-> s.sn, wnd |-> Unused(k), una |-> k.rcv_nxt, data |-> s.data]

Pushes(k, late) ==
    LET due == Selected(k.snd_buf, {i \in DOMAIN k.snd_buf : NeedSend(k.snd_buf[i], late)})
    IN [i \in DOMAIN due |-> Push(k, due[i])]

(* Segments share a datagram as long as it stays within the mtu: of each   *)
(* segment, the first one of its datagram.                                 *)
Total(d) == FoldLeft(LAMBDA sum, seg : sum + Overhead + seg.data.len, 0, d)
First(segs) ==
    LET first[i \in DOMAIN segs] ==
            IF i > 1 /\ Total(SubSeq(segs, first[i - 1], i)) <= Mtu THEN first[i - 1] ELSE i
    IN first

Datagram(segs, n) == Selected(segs, {i \in DOMAIN segs : First(segs)[i] = n})

(* The network drops what it has no room for. *)
Carry(datagrams, segs) ==
    LET firsts == {i \in DOMAIN segs : First(segs)[i] = i}
        room == MaxInFlight - Cardinality(datagrams)
    IN datagrams \cup {Datagram(segs, n) :
                        n \in {i \in firsts : Cardinality({j \in firsts : j <= i}) <= room}}

(* (\E x \in {v} is a LET that TLC evaluates once when it computes ENABLED.) *)
Flush(e, late, asking) ==
    /\ UNCHANGED <<sent, got, input>>
    /\ \E probing \in {Probe(kcp[e], asking)} :
       \E full \in {Admit([probing EXCEPT !.acklist = <<>>, !.probe = {}])} :
       \E segments \in {Controls(probing) \o Pushes(full, late)} :
        /\ kcp' = [kcp EXCEPT ![e] = Resend(full, late)]
        /\ net' = [net EXCEPT ![Peer(e)] = Carry(@, segments)]

OnTheWay(e) == {kcp[e].snd_buf[i].sn : i \in {j \in DOMAIN kcp[e].snd_buf : kcp[e].snd_buf[j].xmit}}

(* A timer that runs out while a datagram is on its way is a fault too: it *)
(* may send again what arrives anyhow.                                     *)
Quiet == \A e \in End : net[e] = {} /\ input[e].rest = <<>>

Update(e) ==
    \/ Flush(e, {}, FALSE) /\ UNCHANGED faults
    \/ \E late \in SUBSET OnTheWay(e), asking \in BOOLEAN :
        /\ late # {} \/ asking
        /\ asking => kcp[e].probe_wait
        /\ \/ Quiet /\ UNCHANGED faults
           \/ ~ Quiet /\ faults < MaxFaults /\ faults' = faults + 1
        /\ Flush(e, late, asking)

Next ==
    \E e \in End : Send(e) \/ Recv(e) \/ Input(e) \/ Lose(e) \/ Update(e)

Spec == Init /\ [][Next]_vars

(* Each end is updated again and again and its timers run out in the end,  *)
(* and what the network delivers is taken in.  Nothing is said of when an  *)
(* end reads: the game server calls ikcp_recv once for each datagram it    *)
(* has taken in, which may complete no message or several.                 *)
OnTime(e) == UNCHANGED faults /\ Flush(e, {}, FALSE)
TimersRunOut(e) == Quiet /\ UNCHANGED faults /\ Flush(e, OnTheWay(e), TRUE)

FairSpec ==
    /\ Spec
    /\ \A e \in End : WF_vars(OnTime(e) \/ TimersRunOut(e))
    /\ WF_vars(\E e \in End : Input(e))

-----------------------------------------------------------------------------
SegmentData == [msg : Nat, frg : Nat, len : Nat]
Segment == [cmd : {"ack", "push", "wask", "wins"}, sn : Nat, wnd : Nat, una : Nat,
            data : SegmentData]
Numbers(segs) == {segs[i].sn : i \in DOMAIN segs}
Sorted(segs) == \A i, j \in DOMAIN segs : i < j => segs[i].sn < segs[j].sn

Outgoing == [sn : Nat, data : SegmentData, xmit : BOOLEAN, fastack : Nat]
Incoming == [sn : Nat, data : SegmentData]

ControlBlock ==
    [snd_una : Nat, snd_nxt : Nat, rcv_nxt : Nat, rmt_wnd : Nat,
     probe : SUBSET {"ask", "tell"}, probe_wait : BOOLEAN, acklist : Seq(Nat),
     snd_queue : Seq(SegmentData), snd_buf : Seq(Outgoing),
     rcv_buf : Seq(Incoming), rcv_queue : Seq(Incoming)]

(* The control blocks are well formed: both buffers in the order of their  *)
(* numbers, each number once, within what is in flight and the window.     *)
WellFormed(k) ==
    /\ k.snd_una <= k.snd_nxt /\ Len(k.acklist) <= MaxAcks
    /\ Len(k.rcv_queue) <= Window
    /\ Sorted(k.snd_buf) /\ Numbers(k.snd_buf) \subseteq k.snd_una .. k.snd_nxt - 1
    /\ Sorted(k.rcv_buf)
    /\ Numbers(k.rcv_buf) \subseteq k.rcv_nxt .. k.rcv_nxt + Window - 1

TypeOK ==
    /\ kcp \in [End -> ControlBlock] /\ \A e \in End : WellFormed(kcp[e])
    /\ sent \in [End -> Nat]
    /\ got \in [End -> Seq(Seq([msg : Nat, frg : Nat]))]
    /\ net \in [End -> SUBSET (Seq(Segment) \ {<<>>})]
    /\ input \in [End -> [rest : Seq(Segment), maxack : Int]]
    /\ faults \in 0 .. MaxFaults

(* ikcp_parse_una and ikcp_parse_ack never drop the only copy: a numbered  *)
(* segment is in the send buffer until the other end has it, whatever      *)
(* windows and acks arrived late, twice or out of order.                   *)
Remembered ==
    \A e \in End :
        LET peer == kcp[Peer(e)]
        IN \A sn \in 0 .. kcp[e].snd_nxt - 1 :
                \/ sn \in Numbers(kcp[e].snd_buf)
                \/ sn < peer.rcv_nxt
                \/ sn \in Numbers(peer.rcv_buf)

(* A whole message, its fragments in order. *)
Whole(e, m) ==
    LET n == Count(Messages[e][m]) IN [i \in 1 .. n |-> [msg |-> m, frg |-> n - i]]

(* Two ends implement two channels: what ikcp_recv returns at one are the  *)
(* messages ikcp_send took at the other, whole, once each and in order.    *)
Received(e) ==
    LET read == got[Peer(e)]
    IN [i \in DOMAIN read |->
            IF read[i] = Whole(e, read[i][1].msg) THEN read[i][1].msg ELSE 0]
Transfer == INSTANCE Channel WITH Session <- End, got <- [e \in End |-> Received(e)]
TransferSpec == Transfer!Spec

(* Message n of e waits whole on the receive queue of the other end, or    *)
(* has been read there.                                                    *)
Within(e, n) ==
    \/ Len(got[Peer(e)]) >= n
    \/ \E seg \in Range(kcp[Peer(e)].rcv_queue) : seg.data.msg = n /\ seg.data.frg = 0

(* Whatever ikcp_send took gets to where ikcp_recv takes it from, however  *)
(* late and seldom the other end reads, unless it leaves its queue full    *)
(* for good: a lost ack, a lost window update or a window closed by a      *)
(* stale datagram never stops the two ends (ikcp_flush asks for the window *)
(* and sends again).                                                       *)
Arrives ==
    \A e \in End :
        []<>(Len(kcp[Peer(e)].rcv_queue) < Window) =>
            \A n \in 1 .. Len(Messages[e]) : (sent[e] >= n) ~> Within(e, n)

=============================================================================
