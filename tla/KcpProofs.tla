----------------------------- MODULE KcpProofs -----------------------------
(***************************************************************************)
(* KCP, for every message, window and mtu, and any number of lost,         *)
(* doubled and overtaken datagrams: the control blocks stay well formed, a *)
(* segment leaves the send buffer only when the other end has it, and what *)
(* one end reads is what the other one sent, whole and in order.           *)
(***************************************************************************)
EXTENDS Kcp, TableLemmas, FiniteSetTheorems

USE KcpAssumption

-----------------------------------------------------------------------------
(* Sequences.                                                              *)

\* t is s without its first n elements.
Cut(s, t, n) ==
    /\ n \in 0 .. Len(s) /\ Len(t) = Len(s) - n
    /\ \A i \in 1 .. Len(s) - n : t[i] = s[n + i]

LEMMA CutIs ==
    ASSUME NEW S, NEW s \in Seq(S), NEW n \in 0 .. Len(s)
    PROVE  SubSeq(s, n + 1, Len(s)) \in Seq(S) /\ Cut(s, SubSeq(s, n + 1, Len(s)), n)
<1> DEFINE t == SubSeq(s, n + 1, Len(s))
<1>1. Len(s) \in Nat /\ \A j \in 1 .. Len(s) : s[j] \in S
    BY LenProperties, ElementOfSeq
<1>2. \A j \in n + 1 .. Len(s) : s[j] \in S
    BY <1>1
<1>3. /\ t \in Seq(S) /\ Len(t) = IF n + 1 <= Len(s) THEN Len(s) - (n + 1) + 1 ELSE 0
      /\ \A j \in 1 .. Len(s) - (n + 1) + 1 : t[j] = s[n + 1 + j - 1]
    BY <1>1, <1>2, SubSeqProperties
<1> HIDE DEF t
<1>4. t \in Seq(S) /\ Cut(s, t, n)
    BY <1>1, <1>3 DEF Cut
<1>5. QED
    BY <1>4 DEF t

\* The first n elements of s.
LEMMA FirstOf ==
    ASSUME NEW S, NEW s \in Seq(S), NEW n \in 0 .. Len(s)
    PROVE  /\ SubSeq(s, 1, n) \in Seq(S) /\ Len(SubSeq(s, 1, n)) = n
           /\ \A i \in 1 .. n : SubSeq(s, 1, n)[i] = s[i]
<1> DEFINE t == SubSeq(s, 1, n)
<1>1. Len(s) \in Nat /\ \A j \in 1 .. Len(s) : s[j] \in S
    BY LenProperties, ElementOfSeq
<1>2. \A j \in 1 .. n : s[j] \in S
    BY <1>1
<1>3. /\ t \in Seq(S) /\ Len(t) = IF 1 <= n THEN n - 1 + 1 ELSE 0
      /\ \A j \in 1 .. n - 1 + 1 : t[j] = s[1 + j - 1]
    BY <1>1, <1>2, SubSeqProperties
<1> HIDE DEF t
<1>4. t \in Seq(S) /\ Len(t) = n /\ \A i \in 1 .. n : t[i] = s[i]
    BY <1>1, <1>3
<1>5. QED
    BY <1>4 DEF t

\* t is s and then u.
Joined(s, u, t) ==
    /\ Len(t) = Len(s) + Len(u)
    /\ \A i \in 1 .. Len(s) : t[i] = s[i]
    /\ \A i \in 1 .. Len(u) : t[Len(s) + i] = u[i]

LEMMA ConcatIs ==
    ASSUME NEW S, NEW s \in Seq(S), NEW u \in Seq(S)
    PROVE  s \o u \in Seq(S) /\ Joined(s, u, s \o u)
<1> DEFINE t == s \o u
<1>1. /\ t \in Seq(S) /\ Len(t) = Len(s) + Len(u)
      /\ \A i \in 1 .. Len(s) + Len(u) : t[i] = IF i <= Len(s) THEN s[i] ELSE u[i - Len(s)]
    BY ConcatProperties
<1>2. Len(s) \in Nat /\ Len(u) \in Nat
    BY LenProperties
<1> HIDE DEF t
<1>3. \A i \in 1 .. Len(s) : t[i] = s[i]
    BY <1>1, <1>2
<1>4. ASSUME NEW i \in 1 .. Len(u) PROVE t[Len(s) + i] = u[i]
    <2> DEFINE j == Len(s) + i
    <2>1. j \in 1 .. Len(s) + Len(u) /\ ~ (j <= Len(s)) /\ j - Len(s) = i
        BY <1>2
    <2> HIDE DEF j
    <2>2. t[j] = u[i]
        BY <1>1, <2>1
    <2>3. QED
        BY <2>2 DEF j
<1>5. t \in Seq(S) /\ Joined(s, u, t)
    BY <1>1, <1>3, <1>4 DEF Joined
<1>6. QED
    BY <1>5 DEF t

\* What is true of no number or of the numbers up to some n ends at that n.
LEMMA Greatest ==
    ASSUME NEW L \in Nat, NEW G \in SUBSET (0 .. L), 0 \in G
    PROVE  \E n \in 0 .. L : n \in G /\ n + 1 \notin G
<1> DEFINE M == {m \in Nat : m \notin G}
           m == Min(M)
<1>1. M # {} /\ M \in SUBSET Nat
    <2>1. L + 1 \in M
        OBVIOUS
    <2>2. QED
        BY <2>1
<1> HIDE DEF M
<1>2. m \in M /\ \A y \in M : m <= y
    BY <1>1, MinOfNaturals
<1> HIDE DEF m
<1>3. m \in Nat /\ m \notin G /\ m # 0
    BY <1>2 DEF M
<1>4. m - 1 \in Nat /\ m - 1 \notin M
    BY <1>1, <1>2, <1>3
<1>5. m - 1 \in G /\ (m - 1) + 1 = m
    BY <1>3, <1>4 DEF M
<1>6. QED
    BY <1>3, <1>5

\* Selected: each element of it is one of the chosen.
LEMMA SelectedIs ==
    ASSUME NEW S, NEW s \in Seq(S), NEW chosen \in SUBSET (1 .. Len(s))
    PROVE  /\ Selected(s, chosen) \in Seq(S)
           /\ \A n \in 1 .. Len(Selected(s, chosen)) : \E i \in chosen : Selected(s, chosen)[n] = s[i]
           /\ chosen # {} => Selected(s, chosen) # <<>>
<1> DEFINE rank(i) == Cardinality({j \in chosen : j <= i})
           c == Cardinality(chosen)
           at(n) == CHOOSE i \in chosen : rank(i) = n
           t == [n \in 1 .. c |-> s[at(n)]]
<1>1. Len(s) \in Nat /\ IsFiniteSet(1 .. Len(s)) /\ \A j \in chosen : j \in 1 .. Len(s)
    BY LenProperties, FS_Interval
<1>2. IsFiniteSet(chosen) /\ c \in Nat
    BY <1>1, FS_Subset, FS_CardinalityType
<1>3. rank(0) = 0 /\ rank(Len(s)) = c
    <2>1. \A j \in chosen : ~ (j <= 0) /\ j <= Len(s)
        BY <1>1
    <2>2. {j \in chosen : j <= 0} = {} /\ {j \in chosen : j <= Len(s)} = chosen
        BY <2>1
    <2>3. QED
        BY <2>2, FS_EmptySet
<1>4. ASSUME NEW i \in Nat
      PROVE  /\ rank(i) \in Nat
             /\ i + 1 \in chosen => rank(i + 1) = rank(i) + 1
             /\ i + 1 \notin chosen => rank(i + 1) = rank(i)
    <2> DEFINE A == {j \in chosen : j <= i}
    <2>1. IsFiniteSet(A) /\ Cardinality(A) \in Nat
        BY <1>2, FS_Subset, FS_CardinalityType
    <2>0. \A j \in chosen : (j <= i + 1 <=> j <= i \/ j = i + 1) /\ ~ (i + 1 <= i)
        BY <1>1
    <2>2. CASE i + 1 \in chosen
        <3>1. {j \in chosen : j <= i + 1} = A \cup {i + 1} /\ i + 1 \notin A
            BY <2>0, <2>2
        <3> HIDE DEF A
        <3>2. Cardinality(A \cup {i + 1}) = Cardinality(A) + 1
            BY <2>1, <3>1, FS_AddElement
        <3>3. QED
            BY <2>1, <2>2, <3>1, <3>2 DEF A
    <2>3. CASE i + 1 \notin chosen
        <3>1. {j \in chosen : j <= i + 1} = A
            BY <2>0, <2>3
        <3>2. QED
            BY <2>1, <2>3, <3>1
    <2>4. QED
        BY <2>2, <2>3
<1> HIDE DEF rank, c
<1>5. ASSUME NEW n \in 1 .. c PROVE at(n) \in chosen
    <2> DEFINE G == {i \in 0 .. Len(s) : rank(i) < n}
    <2>1. 0 \in G /\ Len(s) \notin G
        BY <1>1, <1>2, <1>3
    <2>2. PICK i \in 0 .. Len(s) : i \in G /\ i + 1 \notin G
        BY <1>1, <2>1, Greatest
    <2>3. i \in Nat /\ i + 1 \in 0 .. Len(s) /\ rank(i) < n /\ ~ (rank(i + 1) < n)
        BY <1>1, <2>1, <2>2
    <2>4. /\ rank(i) \in Nat
          /\ i + 1 \in chosen => rank(i + 1) = rank(i) + 1
          /\ i + 1 \notin chosen => rank(i + 1) = rank(i)
        BY <1>4, <2>3
    <2>5. rank(i + 1) = n /\ i + 1 \in chosen
        BY <1>2, <2>3, <2>4
    <2>6. QED
        BY <2>5
<1> HIDE DEF at
<1>6. \A n \in 1 .. c : s[at(n)] \in S
    <2>1. \A i \in chosen : s[i] \in S
        BY ElementOfSeq
    <2>2. QED
        BY <1>5, <2>1
<1>7. t \in Seq(S) /\ Len(t) = c
    BY <1>2, <1>6
<1>8. chosen # {} => c # 0
    BY <1>2, FS_EmptySet DEF c
<1>9. t = Selected(s, chosen)
    BY DEF Selected, t, at, rank, c
<1>10. \A n \in 1 .. c : t[n] = s[at(n)]
    OBVIOUS
<1> HIDE DEF t
<1>11. t = <<>> => Len(t) = 0
    OBVIOUS
<1>12. QED
    BY <1>5, <1>7, <1>8, <1>9, <1>10, <1>11

-----------------------------------------------------------------------------
(* Control blocks.                                                         *)

\* What WellFormed says of the two halves, and where snd_una stands after
\* ikcp_shrink_buf.
SenderOK(k) ==
    /\ Sorted(k.snd_buf)
    /\ \A i \in 1 .. Len(k.snd_buf) : k.snd_buf[i].sn < k.snd_nxt

UnaIs(k) == k.snd_una = IF k.snd_buf = <<>> THEN k.snd_nxt ELSE k.snd_buf[1].sn

ReceiverOK(k) ==
    /\ Len(k.rcv_queue) <= Window
    /\ Sorted(k.rcv_buf)
    /\ \A i \in 1 .. Len(k.rcv_buf) :
          k.rcv_nxt <= k.rcv_buf[i].sn /\ k.rcv_buf[i].sn < k.rcv_nxt + Window

\* An end has segment sn.
Has(k, sn) == sn < k.rcv_nxt \/ \E i \in 1 .. Len(k.rcv_buf) : k.rcv_buf[i].sn = sn

\* An end keeps segment sn to send it again.
Keeps(k, sn) == \E i \in 1 .. Len(k.snd_buf) : k.snd_buf[i].sn = sn

LEMMA BlockTypes ==
    ASSUME NEW k \in ControlBlock
    PROVE  /\ k.snd_una \in Nat /\ k.snd_nxt \in Nat /\ k.rcv_nxt \in Nat /\ k.rmt_wnd \in Nat
           /\ k.acklist \in Seq(Nat) /\ Len(k.acklist) \in Nat
           /\ k.snd_queue \in Seq(SegmentData) /\ Len(k.snd_queue) \in Nat
           /\ k.snd_buf \in Seq(Outgoing) /\ Len(k.snd_buf) \in Nat
           /\ DOMAIN k.snd_buf = 1 .. Len(k.snd_buf)
           /\ k.rcv_buf \in Seq(Incoming) /\ Len(k.rcv_buf) \in Nat
           /\ DOMAIN k.rcv_buf = 1 .. Len(k.rcv_buf)
           /\ k.rcv_queue \in Seq(Incoming) /\ Len(k.rcv_queue) \in Nat
           /\ DOMAIN k.rcv_queue = 1 .. Len(k.rcv_queue)
           /\ \A i \in 1 .. Len(k.snd_buf) : k.snd_buf[i] \in Outgoing /\ k.snd_buf[i].sn \in Nat
           /\ \A i \in 1 .. Len(k.rcv_buf) : k.rcv_buf[i] \in Incoming /\ k.rcv_buf[i].sn \in Nat
<1>1. /\ k.snd_una \in Nat /\ k.snd_nxt \in Nat /\ k.rcv_nxt \in Nat /\ k.rmt_wnd \in Nat
      /\ k.acklist \in Seq(Nat) /\ k.snd_queue \in Seq(SegmentData)
      /\ k.snd_buf \in Seq(Outgoing)
      /\ k.rcv_buf \in Seq(Incoming) /\ k.rcv_queue \in Seq(Incoming)
    BY DEF ControlBlock
<1>2. Len(k.acklist) \in Nat /\ Len(k.snd_queue) \in Nat
    BY <1>1, LenProperties
<1>3. Len(k.snd_buf) \in Nat /\ DOMAIN k.snd_buf = 1 .. Len(k.snd_buf)
    BY <1>1, LenProperties
<1>4. Len(k.rcv_buf) \in Nat /\ DOMAIN k.rcv_buf = 1 .. Len(k.rcv_buf)
    BY <1>1, LenProperties
<1>5. Len(k.rcv_queue) \in Nat /\ DOMAIN k.rcv_queue = 1 .. Len(k.rcv_queue)
    BY <1>1, LenProperties
<1>6. \A i \in 1 .. Len(k.snd_buf) : k.snd_buf[i] \in Outgoing
    BY <1>1, ElementOfSeq
<1>7. \A i \in 1 .. Len(k.rcv_buf) : k.rcv_buf[i] \in Incoming
    BY <1>1, ElementOfSeq
<1>8. /\ \A x \in Outgoing : x.sn \in Nat
      /\ \A x \in Incoming : x.sn \in Nat
    BY DEF Outgoing, Incoming
<1>9. QED
    BY <1>1, <1>2, <1>3, <1>4, <1>5, <1>6, <1>7, <1>8

LEMMA Between ==
    /\ \A x \in Nat, a \in Nat, b \in Nat : x \in a .. b - 1 <=> a <= x /\ x < b
    /\ \A x \in Nat, a \in Nat, b \in Nat : x \in a .. a + b - 1 <=> a <= x /\ x < a + b
OBVIOUS

LEMMA WellFormedIs ==
    ASSUME NEW k \in ControlBlock, SenderOK(k), UnaIs(k), ReceiverOK(k), Len(k.acklist) <= MaxAcks
    PROVE  WellFormed(k)
<1>1. /\ k.snd_una \in Nat /\ k.snd_nxt \in Nat /\ k.rcv_nxt \in Nat
      /\ Len(k.snd_buf) \in Nat /\ DOMAIN k.snd_buf = 1 .. Len(k.snd_buf)
      /\ DOMAIN k.rcv_buf = 1 .. Len(k.rcv_buf)
      /\ k.snd_buf = <<>> \/ Len(k.snd_buf) # 0
      /\ \A i \in 1 .. Len(k.snd_buf) : k.snd_buf[i].sn \in Nat
      /\ \A i \in 1 .. Len(k.rcv_buf) : k.rcv_buf[i].sn \in Nat
    BY BlockTypes, EmptySeq
<1>2. /\ Sorted(k.snd_buf) /\ \A i \in 1 .. Len(k.snd_buf) : k.snd_buf[i].sn < k.snd_nxt
      /\ k.snd_una = IF k.snd_buf = <<>> THEN k.snd_nxt ELSE k.snd_buf[1].sn
    BY DEF SenderOK, UnaIs
<1>3. k.snd_una <= k.snd_nxt
    <2>1. CASE k.snd_buf = <<>>
        BY <1>1, <1>2, <2>1
    <2>2. CASE k.snd_buf # <<>>
        <3>1. 1 \in 1 .. Len(k.snd_buf)
            BY <1>1, <2>2
        <3>2. QED
            BY <1>1, <1>2, <2>2, <3>1
    <2>3. QED
        BY <2>1, <2>2
<1>4. ASSUME NEW i \in DOMAIN k.snd_buf PROVE k.snd_buf[i].sn \in k.snd_una .. k.snd_nxt - 1
    <2>1. i \in 1 .. Len(k.snd_buf) /\ 1 \in 1 .. Len(k.snd_buf) /\ (i = 1 \/ 1 < i)
        BY <1>1, <1>4
    <2>2. k.snd_buf # <<>>
        BY <1>4
    <2>3. 1 < i => k.snd_buf[1].sn < k.snd_buf[i].sn
        BY <1>1, <1>2, <2>1 DEF Sorted
    <2>4. k.snd_una <= k.snd_buf[i].sn /\ k.snd_buf[i].sn < k.snd_nxt
        BY <1>1, <1>2, <2>1, <2>2, <2>3
    <2>5. k.snd_buf[i].sn \in Nat
        BY <1>1, <2>1
    <2>6. QED
        BY <1>1, <2>4, <2>5, Between
<1>5. ASSUME NEW i \in DOMAIN k.rcv_buf
      PROVE  k.rcv_buf[i].sn \in k.rcv_nxt .. k.rcv_nxt + Window - 1
    <2>1. /\ i \in 1 .. Len(k.rcv_buf) /\ k.rcv_nxt <= k.rcv_buf[i].sn
          /\ k.rcv_buf[i].sn < k.rcv_nxt + Window
        BY <1>1, <1>5 DEF ReceiverOK
    <2>2. k.rcv_buf[i].sn \in Nat /\ Window \in Nat
        BY <1>1, <2>1
    <2>3. QED
        BY <1>1, <2>1, <2>2, Between
<1>6. QED
    BY <1>3, <1>4, <1>5 DEF WellFormed, SenderOK, ReceiverOK, Numbers

LEMMA WellFormedParts ==
    ASSUME NEW k \in ControlBlock, WellFormed(k)
    PROVE  SenderOK(k) /\ ReceiverOK(k) /\ Len(k.acklist) <= MaxAcks
<1>1. k \in ControlBlock
    OBVIOUS
<1>2. /\ k.snd_una \in Nat /\ k.snd_nxt \in Nat /\ k.rcv_nxt \in Nat
      /\ DOMAIN k.snd_buf = 1 .. Len(k.snd_buf) /\ DOMAIN k.rcv_buf = 1 .. Len(k.rcv_buf)
    BY <1>1, BlockTypes
<1>3. \A i \in 1 .. Len(k.snd_buf) : k.snd_buf[i].sn \in k.snd_una .. k.snd_nxt - 1
    BY <1>2 DEF WellFormed, Numbers
<1>4. \A i \in 1 .. Len(k.rcv_buf) : k.rcv_buf[i].sn \in k.rcv_nxt .. k.rcv_nxt + Window - 1
    BY <1>2 DEF WellFormed, Numbers
<1>5. ASSUME NEW i \in 1 .. Len(k.snd_buf)
      PROVE  k.snd_buf[i].sn < k.snd_nxt
    <2>1. k.snd_buf[i].sn \in Nat
        BY BlockTypes
    <2>2. QED
        BY <1>2, <1>3, <2>1, Between
<1>6. ASSUME NEW i \in 1 .. Len(k.rcv_buf)
      PROVE  k.rcv_nxt <= k.rcv_buf[i].sn /\ k.rcv_buf[i].sn < k.rcv_nxt + Window
    <2>1. k.rcv_buf[i].sn \in Nat /\ Window \in Nat
        BY <1>1, BlockTypes
    <2>2. k.rcv_buf[i].sn \in k.rcv_nxt .. k.rcv_nxt + Window - 1
        BY <1>4
    <2>3. QED
        BY <1>2, <2>1, <2>2, Between
<1>7. Sorted(k.snd_buf) /\ Sorted(k.rcv_buf) /\ Len(k.rcv_queue) <= Window /\ Len(k.acklist) <= MaxAcks
    BY DEF WellFormed
<1>8. QED
    BY <1>1, <1>5, <1>6, <1>7 DEF SenderOK, ReceiverOK

-----------------------------------------------------------------------------
(* The receiving half.                                                     *)

\* The numbers in the queue of the receiving end follow one another up to
\* rcv_nxt.
MoveToQueueBy(k, r, n) ==
    /\ n \in 0 .. Len(k.rcv_buf)
    /\ \A i \in 1 .. n : k.rcv_buf[i].sn = k.rcv_nxt + i - 1
    /\ n = 0 \/ Len(k.rcv_queue) + n <= Window
    /\ r.rcv_nxt = k.rcv_nxt + n
    /\ Cut(k.rcv_buf, r.rcv_buf, n)
    /\ Joined(k.rcv_queue, SubSeq(k.rcv_buf, 1, n), r.rcv_queue)

\* Two control blocks with the same sending half.
SameSender(k, r) ==
    /\ r.snd_una = k.snd_una /\ r.snd_nxt = k.snd_nxt
    /\ r.snd_queue = k.snd_queue /\ r.snd_buf = k.snd_buf

SameReceiver(k, r) ==
    /\ r.rcv_nxt = k.rcv_nxt /\ r.rcv_buf = k.rcv_buf /\ r.rcv_queue = k.rcv_queue

LEMMA MoveToQueueIs ==
    ASSUME NEW k \in ControlBlock
    PROVE  LET r == MoveToQueue(k)
           IN  /\ r \in ControlBlock /\ SameSender(k, r) /\ r.acklist = k.acklist
               /\ \E n \in Nat : MoveToQueueBy(k, r, n)
<1> DEFINE follows(n) == \A i \in 1 .. n : k.rcv_buf[i].sn = k.rcv_nxt + i - 1
           fits(n) == n = 0 \/ Len(k.rcv_queue) + n <= Window
           good(n) == /\ follows(n) /\ fits(n)
                      /\ n < Len(k.rcv_buf) => ~ (follows(n + 1) /\ fits(n + 1))
           m == CHOOSE n \in 0 .. Len(k.rcv_buf) : good(n)
           q == k.rcv_queue \o SubSeq(k.rcv_buf, 1, m)
           b == SubSeq(k.rcv_buf, m + 1, Len(k.rcv_buf))
           r == [k EXCEPT !.rcv_queue = q, !.rcv_buf = b, !.rcv_nxt = k.rcv_nxt + m]
<1>1. m \in 0 .. Len(k.rcv_buf) /\ good(m)
    <2> DEFINE G == {n \in 0 .. Len(k.rcv_buf) : follows(n) /\ fits(n)}
    <2>1. 0 \in G /\ Len(k.rcv_buf) \in Nat
        BY BlockTypes
    <2>2. PICK n \in 0 .. Len(k.rcv_buf) : n \in G /\ n + 1 \notin G
        BY <2>1, Greatest
    <2>3. n < Len(k.rcv_buf) => n + 1 \in 0 .. Len(k.rcv_buf)
        BY <2>1
    <2>4. good(n)
        BY <2>2, <2>3
    <2> HIDE DEF good
    <2>5. QED
        BY <2>4
<1>2. MoveToQueue(k) = r
    BY DEF MoveToQueue
<1> HIDE DEF m
<1>3. /\ SubSeq(k.rcv_buf, 1, m) \in Seq(Incoming)
      /\ b \in Seq(Incoming) /\ Cut(k.rcv_buf, b, m)
    BY <1>1, BlockTypes, FirstOf, CutIs
<1>4. q \in Seq(Incoming) /\ Joined(k.rcv_queue, SubSeq(k.rcv_buf, 1, m), q)
    BY <1>3, BlockTypes, ConcatIs
<1>5. m \in Nat /\ k.rcv_nxt + m \in Nat
    BY <1>1, BlockTypes
<1>6. follows(m) /\ fits(m)
    BY <1>1
<1> HIDE DEF q, b
<1>7. /\ r \in ControlBlock /\ SameSender(k, r) /\ r.acklist = k.acklist
      /\ r.rcv_nxt = k.rcv_nxt + m /\ r.rcv_buf = b /\ r.rcv_queue = q
    BY <1>3, <1>4, <1>5 DEF ControlBlock, SameSender
<1> HIDE DEF r
<1>8. MoveToQueueBy(k, r, m)
    BY <1>1, <1>3, <1>4, <1>6, <1>7 DEF MoveToQueueBy
<1>9. QED
    BY <1>2, <1>5, <1>7, <1>8

\* Moving segments on loses none and keeps the buffer in the window.
LEMMA MoveKeeps ==
    ASSUME NEW k \in ControlBlock, NEW r \in ControlBlock, NEW n \in Nat,
           ReceiverOK(k), MoveToQueueBy(k, r, n)
    PROVE  ReceiverOK(r) /\ \A sn \in Nat : Has(r, sn) <=> Has(k, sn)
<1> DEFINE s == k.rcv_buf
           t == r.rcv_buf
           a == k.rcv_nxt
           c == Len(k.rcv_buf)
<1>1. /\ a \in Nat /\ c \in Nat /\ n \in 0 .. c /\ r.rcv_nxt = a + n /\ Window \in Nat
      /\ DOMAIN s = 1 .. c /\ DOMAIN t = 1 .. Len(t)
      /\ \A i \in 1 .. c : s[i].sn \in Nat
      /\ Len(k.rcv_queue) \in Nat
    BY BlockTypes DEF MoveToQueueBy
<1>2. /\ \A i \in 1 .. n : s[i].sn = a + i - 1
      /\ Len(t) = c - n /\ \A i \in 1 .. c - n : t[i] = s[n + i]
    BY DEF MoveToQueueBy, Cut
<1>3. /\ \A i, j \in 1 .. c : i < j => s[i].sn < s[j].sn
      /\ \A i \in 1 .. c : a <= s[i].sn /\ s[i].sn < a + Window
    BY <1>1 DEF ReceiverOK, Sorted
<1>4. Len(r.rcv_queue) <= Window
    <2>1. SubSeq(s, 1, n) \in Seq(Incoming) /\ Len(SubSeq(s, 1, n)) = n
        BY <1>1, BlockTypes, FirstOf
    <2>2. Len(r.rcv_queue) = Len(k.rcv_queue) + n
        BY <2>1 DEF MoveToQueueBy, Joined
    <2>3. Len(k.rcv_queue) <= Window /\ (n = 0 \/ Len(k.rcv_queue) + n <= Window)
        BY DEF ReceiverOK, MoveToQueueBy
    <2>4. QED
        BY <1>1, <2>2, <2>3
<1> HIDE DEF s, t, a, c
<1>5. \A i \in 1 .. c - n : n + i \in 1 .. c
    BY <1>1
<1>6. Sorted(t)
    <2>1. ASSUME NEW i \in 1 .. c - n, NEW j \in 1 .. c - n, i < j PROVE t[i].sn < t[j].sn
        <3>1. n + i \in 1 .. c /\ n + j \in 1 .. c /\ n + i < n + j
            BY <1>1, <2>1
        <3>2. s[n + i].sn < s[n + j].sn
            BY <1>3, <3>1
        <3>3. QED
            BY <1>2, <3>2
    <2>2. QED
        BY <1>1, <1>2, <2>1 DEF Sorted
<1>7. ASSUME NEW i \in 1 .. c - n PROVE a + n <= t[i].sn /\ t[i].sn < a + n + Window
    <2>1. n + i \in 1 .. c /\ t[i] = s[n + i]
        BY <1>2, <1>5
    <2>2. s[n + i].sn \in Nat /\ a <= s[n + i].sn /\ s[n + i].sn < a + Window
        BY <1>1, <1>3, <2>1
    <2>3. CASE n = 0
        BY <1>1, <2>1, <2>2, <2>3
    <2>4. CASE n # 0
        <3>1. n \in 1 .. n /\ n \in 1 .. c /\ n < n + i
            BY <1>1, <2>4
        <3>2. s[n].sn = a + n - 1 /\ s[n].sn < s[n + i].sn
            BY <1>2, <1>3, <2>1, <3>1
        <3> DEFINE x == s[n + i].sn
        <3>3. x \in Nat /\ a + n - 1 < x /\ x < a + Window
            BY <2>2, <3>2
        <3>0. a \in Nat /\ Window \in Nat
            BY <1>1
        <3> HIDE DEF x
        <3>4. a + n <= x /\ x < a + n + Window
            BY <3>0, <3>3
        <3>5. QED
            BY <2>1, <3>4 DEF x
    <2>5. QED
        BY <2>3, <2>4
<1>8. ReceiverOK(r)
    <2>1. \A i \in 1 .. Len(t) : a + n <= t[i].sn /\ t[i].sn < a + n + Window
        BY <1>2, <1>7
    <2>2. QED
        BY <1>1, <1>4, <1>6, <2>1 DEF ReceiverOK, t
<1>9. ASSUME NEW sn \in Nat PROVE Has(r, sn) <=> Has(k, sn)
    <2>1. Has(k, sn) <=> sn < a \/ \E i \in 1 .. c : s[i].sn = sn
        BY DEF Has, a, c, s
    <2>2. Has(r, sn) <=> sn < a + n \/ \E i \in 1 .. c - n : t[i].sn = sn
        BY <1>1, <1>2 DEF Has, t
    <2>3. ASSUME NEW i \in 1 .. c, s[i].sn = sn PROVE Has(r, sn)
        <3>1. CASE i <= n
            <4>1. i \in 1 .. n
                BY <1>1, <3>1
            <4>2. sn = a + i - 1
                BY <1>2, <2>3, <4>1
            <4>3. QED
                BY <1>1, <2>2, <4>1, <4>2
        <3>2. CASE ~ (i <= n)
            <4>1. i - n \in 1 .. c - n /\ n + (i - n) = i
                BY <1>1, <3>2
            <4>2. t[i - n].sn = sn
                BY <1>2, <2>3, <4>1
            <4>3. QED
                BY <2>2, <4>1, <4>2
        <3>3. QED
            BY <3>1, <3>2
    <2>4. ASSUME sn < a + n, ~ (sn < a) PROVE Has(k, sn)
        <3>1. sn - a + 1 \in 1 .. n /\ a + (sn - a + 1) - 1 = sn
            BY <1>1, <2>4
        <3>2. sn - a + 1 \in 1 .. c
            BY <1>1, <3>1
        <3>3. s[sn - a + 1].sn = sn
            BY <1>2, <3>1
        <3>4. QED
            BY <2>1, <3>2, <3>3
    <2>5. ASSUME NEW i \in 1 .. c - n, t[i].sn = sn PROVE Has(k, sn)
        <3>1. n + i \in 1 .. c /\ s[n + i].sn = sn
            BY <1>2, <1>5, <2>5
        <3>2. QED
            BY <2>1, <3>1
    <2>6. sn < a => sn < a + n
        BY <1>1
    <2>7. QED
        BY <2>1, <2>2, <2>3, <2>4, <2>5, <2>6
<1>10. QED
    BY <1>8, <1>9

\* t is s with x put in at place p.
Wider(s, t, p, x) ==
    /\ p \in 1 .. Len(s) + 1 /\ Len(t) = Len(s) + 1 /\ t[p] = x
    /\ \A i \in 1 .. Len(s) : t[IF i < p THEN i ELSE i + 1] = s[i]

LEMMA InsertAtIsWider ==
    ASSUME NEW S, NEW s \in Seq(S), NEW p \in 1 .. Len(s) + 1, NEW x \in S
    PROVE  InsertAt(s, p, x) \in Seq(S) /\ Wider(s, InsertAt(s, p, x), p, x)
<1> DEFINE a == SubSeq(s, 1, p - 1)
           b == SubSeq(s, p, Len(s))
           o == <<x>>
           u == a \o o
           t == u \o b
           c == Len(s)
<1>1. c \in Nat /\ p - 1 \in 0 .. c /\ p \in Nat /\ (p - 1) + 1 = p
    BY LenProperties
<1>2. a \in Seq(S) /\ Len(a) = p - 1 /\ \A i \in 1 .. p - 1 : a[i] = s[i]
    BY <1>1, FirstOf
<1>3. b \in Seq(S) /\ Cut(s, b, p - 1)
    <2>1. SubSeq(s, (p - 1) + 1, Len(s)) \in Seq(S) /\ Cut(s, SubSeq(s, (p - 1) + 1, Len(s)), p - 1)
        BY <1>1, CutIs
    <2>2. QED
        BY <1>1, <2>1
<1>4. o \in Seq(S) /\ Len(o) = 1 /\ o[1] = x
    OBVIOUS
<1>5. InsertAt(s, p, x) = t
    BY DEF InsertAt
<1> HIDE DEF a, b, o
<1>6. u \in Seq(S) /\ Joined(a, o, u)
    BY <1>2, <1>4, ConcatIs
<1> HIDE DEF u
<1>7. t \in Seq(S) /\ Joined(u, b, t)
    BY <1>3, <1>6, ConcatIs
<1> HIDE DEF t
<1>8. /\ Len(u) = p /\ u[p] = x /\ \A i \in 1 .. p - 1 : u[i] = s[i]
    <2>1. /\ Len(u) = (p - 1) + 1 /\ u[(p - 1) + 1] = o[1] /\ \A i \in 1 .. p - 1 : u[i] = a[i]
        <3>1. 1 \in 1 .. 1
            OBVIOUS
        <3>2. QED
            BY <1>2, <1>4, <1>6, <3>1 DEF Joined
    <2>2. QED
        BY <1>1, <1>2, <1>4, <2>1
<1>9. /\ Len(b) = c - (p - 1) /\ \A i \in 1 .. c - (p - 1) : b[i] = s[(p - 1) + i]
    BY <1>3 DEF Cut
<1>10. /\ Len(t) = p + Len(b) /\ \A i \in 1 .. p : t[i] = u[i]
       /\ \A i \in 1 .. Len(b) : t[p + i] = b[i]
    BY <1>7, <1>8 DEF Joined
<1> HIDE DEF c
<1>11. Len(t) = c + 1 /\ t[p] = x
    <2>1. p \in 1 .. p
        BY <1>1
    <2>2. QED
        BY <1>1, <1>8, <1>9, <1>10, <2>1
<1>12. ASSUME NEW i \in 1 .. c PROVE t[IF i < p THEN i ELSE i + 1] = s[i]
    <2>1. CASE i < p
        <3>1. i \in 1 .. p /\ i \in 1 .. p - 1
            BY <1>1, <2>1
        <3>2. QED
            BY <1>8, <1>10, <2>1, <3>1
    <2>2. CASE ~ (i < p)
        <3>1. i - (p - 1) \in 1 .. c - (p - 1) /\ (p - 1) + (i - (p - 1)) = i
              /\ p + (i - (p - 1)) = i + 1
            BY <1>1, <2>2
        <3>2. b[i - (p - 1)] = s[i] /\ t[i + 1] = b[i - (p - 1)]
            BY <1>9, <1>10, <3>1
        <3>3. QED
            BY <2>2, <3>2
    <2>3. QED
        BY <2>1, <2>2
<1>13. QED
    BY <1>5, <1>7, <1>11, <1>12 DEF Wider, c

\* The segment goes between the lower and the higher numbers.
LEMMA InsertedIs ==
    ASSUME NEW k \in ControlBlock, NEW seg, seg.sn \in Nat, seg.data \in SegmentData,
           Sorted(k.rcv_buf), \A i \in 1 .. Len(k.rcv_buf) : k.rcv_buf[i].sn # seg.sn
    PROVE  LET r == Inserted(k, seg)
               p == Place(k, seg.sn)
           IN  /\ r \in ControlBlock /\ SameSender(k, r) /\ r.acklist = k.acklist
               /\ r.rcv_nxt = k.rcv_nxt /\ r.rcv_queue = k.rcv_queue
               /\ Wider(k.rcv_buf, r.rcv_buf, p, [sn |-> seg.sn, data |-> seg.data])
               /\ \A i \in 1 .. Len(k.rcv_buf) :
                     IF i < p THEN k.rcv_buf[i].sn < seg.sn ELSE seg.sn < k.rcv_buf[i].sn
<1> DEFINE s == k.rcv_buf
           c == Len(k.rcv_buf)
           good(i) == /\ i > 1 => s[i - 1].sn < seg.sn
                      /\ \A j \in i .. c : s[j].sn >= seg.sn
           p == CHOOSE i \in 1 .. c + 1 : good(i)
           x == [sn |-> seg.sn, data |-> seg.data]
           t == InsertAt(s, p, x)
           r == [k EXCEPT !.rcv_buf = t]
<1>1. /\ s \in Seq(Incoming) /\ c \in Nat /\ DOMAIN s = 1 .. c
      /\ \A i \in 1 .. c : s[i].sn \in Nat
    BY BlockTypes
<1>2. \A i, j \in 1 .. c : i < j => s[i].sn < s[j].sn
    BY <1>1 DEF Sorted
<1>3. p \in 1 .. c + 1 /\ good(p)
    <2> HIDE DEF c, s
    <2> DEFINE G == {i \in 0 .. c : i = 0 \/ s[i].sn < seg.sn}
    <2>1. 0 \in G
        BY <1>1
    <2>2. PICK n \in 0 .. c : n \in G /\ n + 1 \notin G
        BY <1>1, <2>1, Greatest
    <2>3. n + 1 \in 1 .. c + 1 /\ (n + 1) - 1 = n /\ (n + 1 > 1 => n # 0)
        BY <1>1
    <2>4. ASSUME NEW j \in n + 1 .. c PROVE s[j].sn >= seg.sn
        <3>1. j \in 1 .. c /\ n + 1 \in 1 .. c /\ n + 1 \in 0 .. c /\ n + 1 # 0 /\ (j = n + 1 \/ n + 1 < j)
            BY <1>1
        <3>2. ~ (s[n + 1].sn < seg.sn)
            BY <2>2, <3>1
        <3>3. s[n + 1].sn \in Nat /\ s[j].sn \in Nat /\ (j = n + 1 \/ s[n + 1].sn < s[j].sn)
            BY <1>1, <1>2, <3>1
        <3>4. QED
            BY <3>2, <3>3
    <2>5. good(n + 1)
        BY <2>2, <2>3, <2>4
    <2> HIDE DEF good
    <2>6. QED
        BY <2>3, <2>5
<1>4. p = Place(k, seg.sn)
    BY DEF Place
<1> HIDE DEF p
<1>5. x \in Incoming
    BY DEF Incoming
<1>6. t \in Seq(Incoming) /\ Wider(s, t, p, x)
    BY <1>1, <1>3, <1>5, InsertAtIsWider
<1>7. r = Inserted(k, seg)
    BY <1>4 DEF Inserted
<1> HIDE DEF t
<1>8. /\ r \in ControlBlock /\ SameSender(k, r) /\ r.acklist = k.acklist
      /\ r.rcv_nxt = k.rcv_nxt /\ r.rcv_queue = k.rcv_queue /\ r.rcv_buf = t
    BY <1>6 DEF ControlBlock, SameSender
<1> HIDE DEF r
<1>9. ASSUME NEW i \in 1 .. c
      PROVE  IF i < p THEN s[i].sn < seg.sn ELSE seg.sn < s[i].sn
    <2> HIDE DEF c, s
    <2>1. CASE i < p
        <3>1. p > 1 /\ p - 1 \in 1 .. c /\ (i = p - 1 \/ i < p - 1)
            BY <1>1, <1>3, <2>1
        <3>2. s[p - 1].sn < seg.sn
            BY <1>3, <3>1
        <3>3. s[i].sn \in Nat /\ s[p - 1].sn \in Nat /\ (i = p - 1 \/ s[i].sn < s[p - 1].sn)
            BY <1>1, <1>2, <3>1
        <3>4. QED
            BY <2>1, <3>2, <3>3
    <2>2. CASE ~ (i < p)
        <3>1. i \in p .. c
            BY <1>1, <1>3, <2>2
        <3>2. s[i].sn >= seg.sn /\ s[i].sn # seg.sn /\ s[i].sn \in Nat
            BY <1>1, <1>3, <3>1 DEF s, c
        <3>3. QED
            BY <2>2, <3>2
    <2>3. QED
        BY <2>1, <2>2
<1>10. QED
    BY <1>4, <1>6, <1>7, <1>8, <1>9

LEMMA InsertedKeeps ==
    ASSUME NEW k \in ControlBlock, NEW seg, seg.sn \in Nat, seg.data \in SegmentData,
           ReceiverOK(k), \A i \in 1 .. Len(k.rcv_buf) : k.rcv_buf[i].sn # seg.sn,
           k.rcv_nxt <= seg.sn, seg.sn < k.rcv_nxt + Window
    PROVE  LET r == Inserted(k, seg)
           IN  ReceiverOK(r) /\ \A sn \in Nat : Has(r, sn) <=> Has(k, sn) \/ sn = seg.sn
<1> DEFINE r == Inserted(k, seg)
           p == Place(k, seg.sn)
           s == k.rcv_buf
           t == r.rcv_buf
           c == Len(k.rcv_buf)
           place(i) == IF i < p THEN i ELSE i + 1
<1>1. /\ r \in ControlBlock /\ r.rcv_nxt = k.rcv_nxt /\ r.rcv_queue = k.rcv_queue
      /\ Wider(s, t, p, [sn |-> seg.sn, data |-> seg.data])
      /\ \A i \in 1 .. c : IF i < p THEN s[i].sn < seg.sn ELSE seg.sn < s[i].sn
    BY InsertedIs DEF ReceiverOK
<1>2. /\ c \in Nat /\ DOMAIN s = 1 .. c /\ \A i \in 1 .. c : s[i].sn \in Nat
    BY BlockTypes
<1> HIDE DEF r
<1>3. DOMAIN t = 1 .. Len(t) /\ k.rcv_nxt \in Nat /\ Window \in Nat
    BY <1>1, BlockTypes
<1>4. /\ p \in 1 .. c + 1 /\ Len(t) = c + 1 /\ t[p].sn = seg.sn
      /\ \A i \in 1 .. c : t[place(i)] = s[i]
    BY <1>1 DEF Wider
<1>5. /\ \A i, j \in 1 .. c : i < j => s[i].sn < s[j].sn
      /\ \A i \in 1 .. c : k.rcv_nxt <= s[i].sn /\ s[i].sn < k.rcv_nxt + Window
      /\ Len(k.rcv_queue) <= Window
    BY <1>2 DEF ReceiverOK, Sorted
<1> HIDE DEF p, s, t, c, place
<1>6. ASSUME NEW j \in 1 .. c + 1, j # p
      PROVE  \E i \in 1 .. c : j = place(i)
    <2>1. CASE j < p
        <3>1. j \in 1 .. c /\ place(j) = j
            BY <1>2, <1>4, <2>1 DEF place
        <3>2. QED
            BY <3>1
    <2>2. CASE ~ (j < p)
        <3>1. j - 1 \in 1 .. c /\ place(j - 1) = j
            BY <1>2, <1>4, <1>6, <2>2 DEF place
        <3>2. QED
            BY <3>1
    <2>3. QED
        BY <2>1, <2>2
<1>7. ASSUME NEW i \in 1 .. c
      PROVE  /\ place(i) \in 1 .. c + 1 /\ place(i) # p
             /\ place(i) < p => s[i].sn < seg.sn
             /\ p < place(i) => seg.sn < s[i].sn
    <2>1. CASE i < p
        <3>1. place(i) = i /\ place(i) \in 1 .. c + 1 /\ place(i) < p
            BY <1>2, <1>4, <2>1 DEF place
        <3>2. s[i].sn < seg.sn
            BY <1>1, <2>1 DEF p, c, s
        <3>3. QED
            BY <1>2, <1>4, <3>1, <3>2
    <2>2. CASE ~ (i < p)
        <3>1. place(i) = i + 1 /\ place(i) \in 1 .. c + 1 /\ p < place(i)
            BY <1>2, <1>4, <2>2 DEF place
        <3>2. seg.sn < s[i].sn
            BY <1>1, <2>2 DEF p, c, s
        <3>3. QED
            BY <1>2, <1>4, <3>1, <3>2
    <2>3. QED
        BY <2>1, <2>2
<1>8. \A i, j \in 1 .. c : place(i) < place(j) => i < j
    BY <1>2, <1>4 DEF place
<1>9. ASSUME NEW i \in 1 .. c + 1, NEW j \in 1 .. c + 1, i < j
      PROVE  t[i].sn < t[j].sn
    <2>1. CASE i = p
        <3>0. j # p
            BY <1>9, <2>1
        <3>1. PICK m \in 1 .. c : j = place(m)
            BY <1>6, <3>0
        <3>2. QED
            BY <1>4, <1>7, <1>9, <2>1, <3>1
    <2>2. CASE j = p
        <3>0. i # p
            BY <1>9, <2>2
        <3>1. PICK m \in 1 .. c : i = place(m)
            BY <1>6, <3>0
        <3>2. QED
            BY <1>4, <1>7, <1>9, <2>2, <3>1
    <2>3. CASE i # p /\ j # p
        <3>1. PICK l \in 1 .. c : i = place(l)
            BY <1>6, <2>3
        <3>2. PICK m \in 1 .. c : j = place(m)
            BY <1>6, <2>3
        <3>3. l < m
            BY <1>8, <1>9, <3>1, <3>2
        <3>4. QED
            BY <1>4, <1>5, <3>1, <3>2, <3>3
    <2>4. QED
        BY <2>1, <2>2, <2>3
<1>10. ASSUME NEW j \in 1 .. c + 1
       PROVE  k.rcv_nxt <= t[j].sn /\ t[j].sn < k.rcv_nxt + Window
    <2>1. CASE j = p
        BY <1>4, <2>1
    <2>2. CASE j # p
        <3>1. PICK i \in 1 .. c : j = place(i)
            BY <1>6, <2>2
        <3>2. QED
            BY <1>4, <1>5, <3>1
    <2>3. QED
        BY <2>1, <2>2
<1>11. ReceiverOK(r)
    <2>1. Sorted(t)
        BY <1>3, <1>4, <1>9 DEF Sorted
    <2>2. QED
        BY <1>1, <1>4, <1>5, <1>10, <2>1 DEF ReceiverOK, t
<1>12. ASSUME NEW sn \in Nat PROVE Has(r, sn) <=> Has(k, sn) \/ sn = seg.sn
    <2>1. Has(k, sn) <=> sn < k.rcv_nxt \/ \E i \in 1 .. c : s[i].sn = sn
        BY DEF Has, c, s
    <2>2. Has(r, sn) <=> sn < k.rcv_nxt \/ \E j \in 1 .. c + 1 : t[j].sn = sn
        BY <1>1, <1>4 DEF Has, t
    <2>3. ASSUME NEW i \in 1 .. c, s[i].sn = sn PROVE \E j \in 1 .. c + 1 : t[j].sn = sn
        BY <1>4, <1>7, <2>3
    <2>4. ASSUME NEW j \in 1 .. c + 1, t[j].sn = sn, sn # seg.sn
          PROVE  \E i \in 1 .. c : s[i].sn = sn
        <3>1. PICK i \in 1 .. c : j = place(i)
            BY <1>4, <1>6, <2>4
        <3>2. QED
            BY <1>4, <2>4, <3>1
    <2>5. sn = seg.sn => \E j \in 1 .. c + 1 : t[j].sn = sn
        BY <1>4
    <2>6. QED
        BY <2>1, <2>2, <2>3, <2>4, <2>5
<1>13. QED
    BY <1>11, <1>12 DEF r

\* Every number of acklist is that of a segment the end has.
Listed(k) == \A i \in 1 .. Len(k.acklist) : Has(k, k.acklist[i])

\* What the receiving half of a segment does to a control block: it may take in
\* segment sn, never loses one, and lists at most one ack.
Takes(k, r, sn) ==
    /\ r \in ControlBlock /\ SameSender(k, r) /\ ReceiverOK(r) /\ Listed(r)
    /\ Len(r.acklist) <= Len(k.acklist) + 1
    /\ \A n \in Nat : /\ Has(k, n) => Has(r, n)
                      /\ Has(r, n) => Has(k, n) \/ n = sn

LEMMA ParseDataIs ==
    ASSUME NEW k \in ControlBlock, NEW seg, seg.sn \in Nat, seg.data \in SegmentData,
           ReceiverOK(k), k.rcv_nxt <= seg.sn, seg.sn < k.rcv_nxt + Window
    PROVE  LET r == ParseData(k, seg)
           IN  /\ r \in ControlBlock /\ SameSender(k, r) /\ r.acklist = k.acklist /\ ReceiverOK(r)
               /\ \A sn \in Nat : Has(r, sn) <=> Has(k, sn) \/ sn = seg.sn
<1> DEFINE r == ParseData(k, seg)
<1>1. CASE \E i \in DOMAIN k.rcv_buf : k.rcv_buf[i].sn = seg.sn
    <2>1. r = MoveToQueue(k) /\ DOMAIN k.rcv_buf = 1 .. Len(k.rcv_buf)
        BY <1>1, BlockTypes DEF ParseData
    <2> HIDE DEF r
    <2>2. r \in ControlBlock /\ SameSender(k, r) /\ r.acklist = k.acklist
        BY <2>1, MoveToQueueIs
    <2>3. PICK n \in Nat : MoveToQueueBy(k, r, n)
        BY <2>1, MoveToQueueIs
    <2>4. ReceiverOK(r) /\ \A sn \in Nat : Has(r, sn) <=> Has(k, sn)
        BY <2>2, <2>3, MoveKeeps
    <2>5. Has(k, seg.sn)
        BY <1>1, <2>1 DEF Has
    <2>6. QED
        BY <2>2, <2>4, <2>5 DEF r
<1>2. CASE ~ \E i \in DOMAIN k.rcv_buf : k.rcv_buf[i].sn = seg.sn
    <2> DEFINE j == Inserted(k, seg)
    <2>1. r = MoveToQueue(j) /\ DOMAIN k.rcv_buf = 1 .. Len(k.rcv_buf)
        BY <1>2, BlockTypes DEF ParseData
    <2> HIDE DEF r
    <2>2. \A i \in 1 .. Len(k.rcv_buf) : k.rcv_buf[i].sn # seg.sn
        BY <1>2, <2>1
    <2>3. j \in ControlBlock /\ SameSender(k, j) /\ j.acklist = k.acklist
        BY <2>2, InsertedIs DEF ReceiverOK
    <2>4. ReceiverOK(j) /\ \A sn \in Nat : Has(j, sn) <=> Has(k, sn) \/ sn = seg.sn
        BY <2>2, InsertedKeeps
    <2> HIDE DEF j
    <2>5. r \in ControlBlock /\ SameSender(j, r) /\ r.acklist = j.acklist
        BY <2>1, <2>3, MoveToQueueIs
    <2>6. PICK n \in Nat : MoveToQueueBy(j, r, n)
        BY <2>1, <2>3, MoveToQueueIs
    <2>7. ReceiverOK(r) /\ \A sn \in Nat : Has(r, sn) <=> Has(j, sn)
        BY <2>3, <2>4, <2>5, <2>6, MoveKeeps
    <2>8. SameSender(k, r)
        BY <2>3, <2>5 DEF SameSender
    <2>9. QED
        BY <2>3, <2>4, <2>5, <2>7, <2>8 DEF r
<1>3. QED
    BY <1>1, <1>2

LEMMA InputPushIs ==
    ASSUME NEW k \in ControlBlock, NEW seg, seg.sn \in Nat, seg.data \in SegmentData,
           ReceiverOK(k), Listed(k)
    PROVE  Takes(k, InputPush(k, seg), seg.sn)
<1> DEFINE acked == [k EXCEPT !.acklist = Append(@, seg.sn)]
           r == InputPush(k, seg)
<1>1. k.acklist \in Seq(Nat) /\ Len(k.acklist) \in Nat /\ k.rcv_nxt \in Nat /\ Window \in Nat
    BY BlockTypes
<1>2. CASE seg.sn >= k.rcv_nxt + Window
    <2>1. r = k
        BY <1>2 DEF InputPush
    <2>2. QED
        BY <1>1, <2>1 DEF Takes, SameSender
<1>3. CASE ~ (seg.sn >= k.rcv_nxt + Window)
    <2>1. r = IF seg.sn < k.rcv_nxt THEN acked ELSE ParseData(acked, seg)
        BY <1>3 DEF InputPush
    <2>2. Append(k.acklist, seg.sn) \in Seq(Nat)
        BY <1>1
    <2>3. /\ acked \in ControlBlock /\ SameSender(k, acked) /\ SameReceiver(k, acked)
          /\ acked.acklist = Append(k.acklist, seg.sn)
        BY <2>2 DEF ControlBlock, SameSender, SameReceiver
    <2> HIDE DEF acked, r
    <2>4. ReceiverOK(acked) /\ acked.rcv_nxt = k.rcv_nxt /\ \A sn \in Nat : Has(acked, sn) <=> Has(k, sn)
        BY <2>3 DEF ReceiverOK, SameReceiver, Has
    <2>5. /\ r \in ControlBlock /\ SameSender(k, r) /\ ReceiverOK(r) /\ r.acklist = acked.acklist
          /\ \A sn \in Nat : Has(r, sn) <=> Has(k, sn) \/ sn = seg.sn
        <3>1. CASE seg.sn < k.rcv_nxt
            <4>1. r = acked /\ Has(k, seg.sn)
                BY <2>1, <3>1 DEF Has
            <4>2. QED
                BY <2>3, <2>4, <4>1
        <3>2. CASE ~ (seg.sn < k.rcv_nxt)
            <4>1. r = ParseData(acked, seg) /\ acked.rcv_nxt <= seg.sn /\ seg.sn < acked.rcv_nxt + Window
                BY <1>1, <1>3, <2>1, <2>4, <3>2
            <4>2. /\ r \in ControlBlock /\ SameSender(acked, r) /\ r.acklist = acked.acklist /\ ReceiverOK(r)
                  /\ \A sn \in Nat : Has(r, sn) <=> Has(acked, sn) \/ sn = seg.sn
                BY <2>3, <2>4, <4>1, ParseDataIs
            <4>3. SameSender(k, r)
                BY <2>3, <4>2 DEF SameSender
            <4>4. QED
                BY <2>4, <4>2, <4>3
        <3>3. QED
            BY <3>1, <3>2
    <2> DEFINE a == k.acklist
    <2>60. \A i \in 1 .. Len(a) : a[i] \in Nat
        BY <1>1, ElementOfSeq
    <2>61. Longer(a, Append(a, seg.sn), seg.sn)
        BY <1>1, AppendIsLonger
    <2>62. Longer(a, r.acklist, seg.sn) /\ Len(a) \in Nat
        BY <1>1, <2>3, <2>5, <2>61
    <2> HIDE DEF a
    <2>63. /\ Len(r.acklist) = Len(a) + 1 /\ r.acklist[Len(a) + 1] = seg.sn
           /\ \A i \in 1 .. Len(a) : r.acklist[i] = a[i]
        BY <2>62 DEF Longer
    <2>6. ASSUME NEW i \in 1 .. Len(r.acklist)
          PROVE  r.acklist[i] = seg.sn \/ (i \in 1 .. Len(a) /\ r.acklist[i] = a[i])
        <3>1. i = Len(a) + 1 \/ i \in 1 .. Len(a)
            BY <2>62, <2>63
        <3>2. QED
            BY <2>63, <3>1
    <2>7. Listed(r)
        <3>1. \A i \in 1 .. Len(a) : Has(k, a[i])
            BY DEF Listed, a
        <3>2. ASSUME NEW i \in 1 .. Len(r.acklist) PROVE Has(r, r.acklist[i])
            BY <2>5, <2>6, <2>60, <3>1
        <3>3. QED
            BY <3>2 DEF Listed
    <2>8. QED
        BY <1>1, <2>5, <2>63, <2>7 DEF Takes, r, a
<1>4. QED
    BY <1>2, <1>3

-----------------------------------------------------------------------------
(* The sending half.                                                       *)

\* Send buffer t is s without some of the segments whose numbers are in gone.
Lessens(s, t, gone) ==
    /\ Sorted(t)
    /\ \A i \in 1 .. Len(t) : \E j \in 1 .. Len(s) : t[i].sn = s[j].sn /\ t[i].data = s[j].data
    /\ \A j \in 1 .. Len(s) : s[j].sn \in gone \/ \E i \in 1 .. Len(t) : t[i].sn = s[j].sn

\* What an incoming segment does to the sending half of a control block.
Relieved(k, r, gone) ==
    /\ r \in ControlBlock /\ SameReceiver(k, r) /\ r.acklist = k.acklist
    /\ r.snd_nxt = k.snd_nxt /\ r.snd_queue = k.snd_queue
    /\ Lessens(k.snd_buf, r.snd_buf, gone)

LEMMA RelievedSame ==
    ASSUME NEW k \in ControlBlock, NEW r \in ControlBlock, SenderOK(k),
           SameReceiver(k, r), r.acklist = k.acklist,
           r.snd_nxt = k.snd_nxt, r.snd_queue = k.snd_queue, r.snd_buf = k.snd_buf
    PROVE  Relieved(k, r, {})
<1>1. Lessens(k.snd_buf, r.snd_buf, {})
    BY DEF Lessens, SenderOK
<1>2. QED
    BY <1>1 DEF Relieved

LEMMA RelievedTwice ==
    ASSUME NEW k, NEW q, NEW r, NEW A, NEW B, Relieved(k, q, A), Relieved(q, r, B)
    PROVE  Relieved(k, r, A \cup B)
<1> DEFINE s == k.snd_buf
           t == q.snd_buf
           u == r.snd_buf
<1>1. Lessens(s, t, A) /\ Lessens(t, u, B)
    BY DEF Relieved
<1> HIDE DEF s, t, u
<1>2. ASSUME NEW i \in 1 .. Len(u)
      PROVE  \E j \in 1 .. Len(s) : u[i].sn = s[j].sn /\ u[i].data = s[j].data
    <2>1. PICK m \in 1 .. Len(t) : u[i].sn = t[m].sn /\ u[i].data = t[m].data
        BY <1>1 DEF Lessens
    <2>2. PICK j \in 1 .. Len(s) : t[m].sn = s[j].sn /\ t[m].data = s[j].data
        BY <1>1 DEF Lessens
    <2>3. QED
        BY <2>1, <2>2
<1>3. ASSUME NEW j \in 1 .. Len(s), s[j].sn \notin A \cup B
      PROVE  \E i \in 1 .. Len(u) : u[i].sn = s[j].sn
    <2>1. PICK m \in 1 .. Len(t) : t[m].sn = s[j].sn
        BY <1>1, <1>3 DEF Lessens
    <2>2. QED
        BY <1>1, <1>3, <2>1 DEF Lessens
<1>4. Lessens(s, u, A \cup B)
    BY <1>1, <1>2, <1>3 DEF Lessens
<1>5. QED
    BY <1>4 DEF Relieved, SameReceiver, s, u

LEMMA RelievedKeeps ==
    ASSUME NEW k \in ControlBlock, NEW r, NEW gone, SenderOK(k), Relieved(k, r, gone)
    PROVE  SenderOK(r) /\ \A n \in Nat \ gone : Keeps(k, n) => Keeps(r, n)
<1> DEFINE s == k.snd_buf
           t == r.snd_buf
<1>1. Lessens(s, t, gone) /\ r.snd_nxt = k.snd_nxt
    BY DEF Relieved
<1>2. \A i \in 1 .. Len(s) : s[i].sn < k.snd_nxt
    BY DEF SenderOK
<1>3. \A n \in Nat : Keeps(k, n) <=> \E i \in 1 .. Len(s) : s[i].sn = n
    BY DEF Keeps
<1>4. \A n \in Nat : Keeps(r, n) <=> \E i \in 1 .. Len(t) : t[i].sn = n
    BY DEF Keeps
<1>5. SenderOK(r) <=> Sorted(t) /\ \A i \in 1 .. Len(t) : t[i].sn < r.snd_nxt
    BY DEF SenderOK
<1> HIDE DEF s, t
<1>6. \A i \in 1 .. Len(t) : t[i].sn < k.snd_nxt
    BY <1>1, <1>2 DEF Lessens
<1>7. SenderOK(r)
    BY <1>1, <1>5, <1>6 DEF Lessens
<1>8. ASSUME NEW n \in Nat \ gone, Keeps(k, n) PROVE Keeps(r, n)
    <2>1. PICK j \in 1 .. Len(s) : s[j].sn = n
        BY <1>3, <1>8
    <2>2. QED
        BY <1>1, <1>4, <2>1 DEF Lessens
<1>9. QED
    BY <1>7, <1>8

\* ikcp_parse_una takes segments below una only.
LEMMA ParseUnaIs ==
    ASSUME NEW k \in ControlBlock, NEW una \in Nat, SenderOK(k)
    PROVE  Relieved(k, ParseUna(k, una), {n \in Nat : n < una})
<1> DEFINE s == k.snd_buf
           good(n) == /\ \A i \in 1 .. n : k.snd_buf[i].sn < una
                      /\ n < Len(k.snd_buf) => k.snd_buf[n + 1].sn >= una
           m == CHOOSE n \in 0 .. Len(k.snd_buf) : good(n)
           t == SubSeq(k.snd_buf, m + 1, Len(k.snd_buf))
           r == [k EXCEPT !.snd_buf = t]
           c == Len(s)
<1>1. /\ s \in Seq(Outgoing) /\ c \in Nat /\ DOMAIN s = 1 .. c
      /\ \A i \in 1 .. c : s[i].sn \in Nat
    BY BlockTypes
<1>2. \A i, j \in 1 .. c : i < j => s[i].sn < s[j].sn
    BY <1>1 DEF SenderOK, Sorted
<1>3. m \in 0 .. c /\ good(m)
    <2> DEFINE G == {n \in 0 .. c : \A i \in 1 .. n : s[i].sn < una}
    <2>1. 0 \in G
        BY <1>1
    <2>2. PICK n \in 0 .. c : n \in G /\ n + 1 \notin G
        BY <1>1, <2>1, Greatest
    <2>3. \A i \in 1 .. n : s[i].sn < una
        BY <2>2
    <2>4. ASSUME n < c PROVE s[n + 1].sn >= una
        <3>1. n + 1 \in 0 .. c /\ n + 1 \in 1 .. c /\ \A i \in 1 .. n + 1 : i \in 1 .. n \/ i = n + 1
            BY <1>1, <2>4
        <3>2. PICK i \in 1 .. n + 1 : ~ (s[i].sn < una)
            BY <2>2, <3>1
        <3>3. i = n + 1
            BY <2>3, <3>1, <3>2
        <3>4. PICK x \in Nat : x = s[n + 1].sn
            BY <1>1, <3>1
        <3>5. ~ (x < una)
            BY <3>2, <3>3, <3>4
        <3>6. x >= una
            BY <3>5
        <3>7. QED
            BY <3>4, <3>6
    <2>5. good(n)
        BY <2>3, <2>4
    <2> HIDE DEF good
    <2>6. QED
        BY <2>5
<1>4. r = ParseUna(k, una)
    BY DEF ParseUna
<1> HIDE DEF m
<1>5. t \in Seq(Outgoing) /\ Cut(s, t, m)
    BY <1>1, <1>3, CutIs
<1>6. \A i \in 1 .. m : s[i].sn < una
    BY <1>3
<1> HIDE DEF t
<1>7. /\ r \in ControlBlock /\ SameReceiver(k, r) /\ r.acklist = k.acklist
      /\ r.snd_nxt = k.snd_nxt /\ r.snd_queue = k.snd_queue /\ r.snd_buf = t
    BY <1>5 DEF ControlBlock, SameReceiver
<1>8. Len(t) = c - m /\ \A i \in 1 .. c - m : t[i] = s[m + i]
    BY <1>5 DEF Cut
<1>9. DOMAIN t = 1 .. c - m
    BY <1>5, <1>8, LenProperties
<1> HIDE DEF r, s, c, good
<1>10. \A i \in 1 .. c - m : m + i \in 1 .. c
    BY <1>1, <1>3
<1>11. Sorted(t)
    <2>1. SUFFICES ASSUME NEW i \in 1 .. c - m, NEW j \in 1 .. c - m, i < j
                   PROVE  t[i].sn < t[j].sn
        BY <1>9 DEF Sorted
    <2>2. m + i \in 1 .. c /\ m + j \in 1 .. c /\ m + i < m + j
        BY <1>1, <1>3, <2>1
    <2>3. s[m + i].sn < s[m + j].sn
        BY <1>2, <2>2
    <2>4. QED
        BY <1>8, <2>3
<1>12. \A i \in 1 .. Len(t) : \E j \in 1 .. Len(s) : t[i].sn = s[j].sn /\ t[i].data = s[j].data
    BY <1>8, <1>10 DEF c
<1>13. ASSUME NEW j \in 1 .. Len(s)
       PROVE  s[j].sn \in {n \in Nat : n < una} \/ \E i \in 1 .. Len(t) : t[i].sn = s[j].sn
    <2>1. j \in 1 .. c /\ s[j].sn \in Nat
        BY <1>1 DEF c
    <2>2. CASE j \in 1 .. m
        BY <1>6, <2>1, <2>2
    <2>3. CASE j \notin 1 .. m
        <3>1. j - m \in 1 .. c - m /\ m + (j - m) = j
            BY <1>1, <1>3, <2>1, <2>3
        <3>2. t[j - m] = s[j]
            BY <1>8, <3>1
        <3>3. QED
            BY <1>8, <3>1, <3>2
    <2>4. QED
        BY <2>2, <2>3
<1>14. Lessens(s, t, {n \in Nat : n < una})
    BY <1>11, <1>12, <1>13 DEF Lessens
<1>15. QED
    BY <1>4, <1>7, <1>14 DEF Relieved, s

\* ikcp_parse_ack takes segment sn at most.
LEMMA ParseAckIs ==
    ASSUME NEW k \in ControlBlock, NEW sn \in Nat, SenderOK(k)
    PROVE  Relieved(k, ParseAck(k, sn), {sn})
<1> DEFINE s == k.snd_buf
           at == {i \in DOMAIN k.snd_buf : k.snd_buf[i].sn = sn}
           p == CHOOSE i \in at : TRUE
           t == RemoveAt(k.snd_buf, p)
           r == [k EXCEPT !.snd_buf = t]
           c == Len(s)
<1>1. CASE ~ (InFlight(k, sn) /\ at # {})
    <2>1. ParseAck(k, sn) = k
        BY <1>1 DEF ParseAck
    <2>2. QED
        BY <2>1 DEF Relieved, Lessens, SameReceiver, SenderOK
<1>2. CASE InFlight(k, sn) /\ at # {}
    <2>1. r = ParseAck(k, sn)
        BY <1>2 DEF ParseAck
    <2>2. /\ s \in Seq(Outgoing) /\ c \in Nat /\ DOMAIN s = 1 .. c
          /\ \A i \in 1 .. c : s[i].sn \in Nat
        BY BlockTypes
    <2>3. p \in 1 .. c /\ s[p].sn = sn
        BY <1>2, <2>2
    <2>4. \A i, j \in 1 .. c : i < j => s[i].sn < s[j].sn
        BY <2>2 DEF SenderOK, Sorted
    <2> HIDE DEF p
    <2>5. t \in Seq(Outgoing) /\ Shorter(s, t, p)
        BY <2>2, <2>3, RemoveAtIsShorter
    <2> HIDE DEF t
    <2>6. /\ r \in ControlBlock /\ SameReceiver(k, r) /\ r.acklist = k.acklist
          /\ r.snd_nxt = k.snd_nxt /\ r.snd_queue = k.snd_queue /\ r.snd_buf = t
        BY <2>5 DEF ControlBlock, SameReceiver
    <2> DEFINE place(i) == IF i < p THEN i ELSE i + 1
    <2>7. Len(t) = c - 1 /\ \A i \in 1 .. c - 1 : t[i] = s[place(i)]
        <3>1. /\ Len(t) = c - 1
              /\ \A i \in 1 .. c - 1 : t[i] = IF i < p THEN s[i] ELSE s[i + 1]
            BY <2>5 DEF Shorter
        <3>2. QED
            BY <3>1
    <2>8. DOMAIN t = 1 .. c - 1
        BY <2>5, <2>7, LenProperties
    <2> HIDE DEF r, s, c, at
    <2>9. \A i \in 1 .. c - 1 : place(i) \in 1 .. c
        BY <2>2, <2>3
    <2>10. \A i, j \in 1 .. c - 1 : i < j => place(i) < place(j)
        BY <2>2, <2>3
    <2>11. \A j \in 1 .. c : j = p \/ \E i \in 1 .. c - 1 : place(i) = j
        <3>1. SUFFICES ASSUME NEW j \in 1 .. c, j # p PROVE \E i \in 1 .. c - 1 : place(i) = j
            OBVIOUS
        <3>2. CASE j < p
            <4>1. j \in 1 .. c - 1 /\ place(j) = j
                BY <2>2, <2>3, <3>2
            <4>2. QED
                BY <4>1
        <3>3. CASE ~ (j < p)
            <4>1. j - 1 \in 1 .. c - 1 /\ place(j - 1) = j
                BY <2>2, <2>3, <3>1, <3>3
            <4>2. QED
                BY <4>1
        <3>4. QED
            BY <3>2, <3>3
    <2> HIDE DEF place
    <2>12. Sorted(t)
        <3>1. \A i, j \in 1 .. c - 1 : i < j => t[i].sn < t[j].sn
            BY <2>4, <2>7, <2>9, <2>10
        <3>2. QED
            BY <2>8, <3>1 DEF Sorted
    <2>13. \A i \in 1 .. Len(t) : \E j \in 1 .. Len(s) : t[i].sn = s[j].sn /\ t[i].data = s[j].data
        BY <2>7, <2>9 DEF c
    <2>14. \A j \in 1 .. Len(s) : s[j].sn \in {sn} \/ \E i \in 1 .. Len(t) : t[i].sn = s[j].sn
        BY <2>3, <2>7, <2>11 DEF c
    <2>15. Lessens(s, t, {sn})
        BY <2>12, <2>13, <2>14 DEF Lessens
    <2>16. QED
        BY <2>1, <2>6, <2>15 DEF Relieved, s
<1>3. QED
    BY <1>1, <1>2

\* Counting an ack, or a resend, on the segments of the send buffer.
LEMMA Recounted ==
    ASSUME NEW k \in ControlBlock, SenderOK(k), NEW t \in Seq(Outgoing),
           Len(t) = Len(k.snd_buf),
           \A i \in 1 .. Len(t) : t[i].sn = k.snd_buf[i].sn /\ t[i].data = k.snd_buf[i].data
    PROVE  LET r == [k EXCEPT !.snd_buf = t]
           IN  Relieved(k, r, {}) /\ (UnaIs(k) => UnaIs(r)) /\ r.probe = k.probe /\ r.rmt_wnd = k.rmt_wnd
<1> DEFINE s == k.snd_buf
           c == Len(s)
           r == [k EXCEPT !.snd_buf = t]
<1>1. /\ s \in Seq(Outgoing) /\ c \in Nat /\ DOMAIN s = 1 .. c /\ DOMAIN t = 1 .. c
    BY BlockTypes, LenProperties
<1>2. \A i, j \in 1 .. c : i < j => s[i].sn < s[j].sn
    BY <1>1 DEF SenderOK, Sorted
<1>3. /\ r \in ControlBlock /\ SameReceiver(k, r) /\ r.acklist = k.acklist
      /\ r.snd_nxt = k.snd_nxt /\ r.snd_queue = k.snd_queue /\ r.snd_buf = t
      /\ r.snd_una = k.snd_una /\ r.probe = k.probe /\ r.rmt_wnd = k.rmt_wnd
    BY DEF ControlBlock, SameReceiver
<1>4. Len(t) = c /\ \A i \in 1 .. c : t[i].sn = s[i].sn /\ t[i].data = s[i].data
    OBVIOUS
<1> HIDE DEF s, c, r
<1>5. Sorted(t)
    BY <1>1, <1>2, <1>4 DEF Sorted
<1>6. Lessens(s, t, {})
    BY <1>4, <1>5 DEF Lessens, c
<1>7. UnaIs(k) => UnaIs(r)
    <2>1. CASE c = 0
        <3>1. s = <<>> /\ t = <<>>
            BY <1>1, <1>4, <2>1, EmptySeq DEF c
        <3>2. QED
            BY <1>3, <3>1 DEF UnaIs, s
    <2>2. CASE c # 0
        <3>1. s # <<>> /\ t # <<>>
            BY <1>4, <2>2 DEF c
        <3>2. 1 \in 1 .. c
            BY <1>1, <2>2
        <3>3. t[1].sn = s[1].sn
            BY <1>4, <3>2
        <3>4. QED
            BY <1>3, <3>1, <3>3 DEF UnaIs, s
    <2>3. QED
        BY <2>1, <2>2
<1>8. QED
    BY <1>3, <1>6, <1>7 DEF Relieved, s, r

LEMMA ParseFastackIs ==
    ASSUME NEW k \in ControlBlock, NEW sn, SenderOK(k), UnaIs(k)
    PROVE  Relieved(k, ParseFastack(k, sn), {}) /\ UnaIs(ParseFastack(k, sn))
<1> DEFINE s == k.snd_buf
           t == [i \in DOMAIN s |-> Skipped(s[i], sn)]
           r == [k EXCEPT !.snd_buf = t]
<1>1. CASE ~ InFlight(k, sn)
    <2>1. ParseFastack(k, sn) = k
        BY <1>1 DEF ParseFastack
    <2>2. Relieved(k, k, {})
        BY RelievedSame DEF SameReceiver
    <2>3. QED
        BY <2>1, <2>2
<1>2. CASE InFlight(k, sn)
    <2>1. r = ParseFastack(k, sn)
        BY <1>2 DEF ParseFastack
    <2>2. /\ DOMAIN s = 1 .. Len(s) /\ Len(s) \in Nat
          /\ \A i \in 1 .. Len(s) : s[i] \in Outgoing
        BY BlockTypes
    <2>3. ASSUME NEW x \in Outgoing
          PROVE  Skipped(x, sn) \in Outgoing /\ Skipped(x, sn).sn = x.sn /\ Skipped(x, sn).data = x.data
        <3>1. x.fastack \in Nat /\ FastResend \in Nat
            BY DEF Outgoing
        <3>2. Least(FastResend, x.fastack + 1) \in Nat
            BY <3>1 DEF Least
        <3>3. QED
            BY <3>2 DEF Outgoing, Skipped
    <2>4. /\ t \in Seq(Outgoing) /\ Len(t) = Len(s)
          /\ \A i \in 1 .. Len(s) : t[i] = Skipped(s[i], sn)
        BY <2>2, <2>3
    <2> HIDE DEF t
    <2>5. \A i \in 1 .. Len(t) : t[i].sn = k.snd_buf[i].sn /\ t[i].data = k.snd_buf[i].data
        BY <2>2, <2>3, <2>4
    <2>6. QED
        BY <2>1, <2>4, <2>5, Recounted
<1>3. QED
    BY <1>1, <1>2

\* After ikcp_shrink_buf snd_una is where UnaIs says.
LEMMA ShrinkIs ==
    ASSUME NEW k \in ControlBlock, SenderOK(k)
    PROVE  Relieved(k, Shrink(k), {}) /\ UnaIs(Shrink(k))
<1> DEFINE u == IF k.snd_buf = <<>> THEN k.snd_nxt ELSE k.snd_buf[1].sn
           r == [k EXCEPT !.snd_una = u]
<1>1. u \in Nat
    <2>1. CASE k.snd_buf = <<>>
        BY <2>1, BlockTypes
    <2>2. CASE k.snd_buf # <<>>
        <3>1. 1 \in 1 .. Len(k.snd_buf)
            BY <2>2, BlockTypes, EmptySeq
        <3>2. QED
            BY <2>2, <3>1, BlockTypes
    <2>3. QED
        BY <2>1, <2>2
<1>2. r = Shrink(k)
    BY DEF Shrink
<1> HIDE DEF u
<1>3. /\ r \in ControlBlock /\ SameReceiver(k, r) /\ r.acklist = k.acklist
      /\ r.snd_nxt = k.snd_nxt /\ r.snd_queue = k.snd_queue /\ r.snd_buf = k.snd_buf
      /\ r.snd_una = u
    BY <1>1 DEF ControlBlock, SameReceiver
<1> HIDE DEF r
<1>4. Relieved(k, r, {})
    BY <1>3, RelievedSame
<1>5. QED
    BY <1>2, <1>3, <1>4 DEF UnaIs, u

\* One segment: the sending half loses what the segment acknowledges, the
\* receiving half takes in the segment or nothing.
Heard(k, r, gone, taken) ==
    /\ r \in ControlBlock /\ SenderOK(r) /\ UnaIs(r) /\ ReceiverOK(r) /\ Listed(r)
    /\ r.snd_nxt = k.snd_nxt /\ r.snd_queue = k.snd_queue
    /\ Len(r.acklist) <= Len(k.acklist) + 1
    /\ \A n \in Nat \ gone : Keeps(k, n) => Keeps(r, n)
    /\ \A n \in Nat : Has(k, n) => Has(r, n)
    /\ \A n \in Nat \ taken : Has(r, n) => Has(k, n)

LEMMA InputSegmentIs ==
    ASSUME NEW k \in ControlBlock, WellFormed(k), Listed(k), NEW seg \in Segment
    PROVE  Heard(k, InputSegment(k, seg),
                 {n \in Nat : n < seg.una} \cup (IF seg.cmd = "ack" THEN {seg.sn} ELSE {}),
                 IF seg.cmd = "push" THEN {seg.sn} ELSE {})
<1> DEFINE a == [k EXCEPT !.rmt_wnd = seg.wnd]
           b == ParseUna(a, seg.una)
           heard == Shrink(b)
           below == {n \in Nat : n < seg.una}
           r == InputSegment(k, seg)
<1>0. k \in ControlBlock /\ SenderOK(k) /\ ReceiverOK(k) /\ Len(k.acklist) \in Nat
    BY WellFormedParts, BlockTypes
<1>1. /\ seg.wnd \in Nat /\ seg.una \in Nat /\ seg.sn \in Nat /\ seg.data \in SegmentData
      /\ seg.cmd \in {"ack", "push", "wask", "wins"}
    BY DEF Segment
<1>2. a \in ControlBlock /\ Relieved(k, a, {}) /\ SenderOK(a)
    <2>1. /\ a \in ControlBlock /\ SameReceiver(k, a) /\ a.acklist = k.acklist
          /\ a.snd_nxt = k.snd_nxt /\ a.snd_queue = k.snd_queue /\ a.snd_buf = k.snd_buf
        BY <1>0, <1>1 DEF ControlBlock, SameReceiver
    <2> HIDE DEF a
    <2>2. Relieved(k, a, {})
        BY <1>0, <2>1, RelievedSame
    <2>3. QED
        BY <1>0, <2>1, <2>2, RelievedKeeps
<1> HIDE DEF a
<1>3. b \in ControlBlock /\ Relieved(a, b, below) /\ SenderOK(b)
    <2>1. Relieved(a, b, below)
        BY <1>1, <1>2, ParseUnaIs
    <2> HIDE DEF b, below
    <2>2. QED
        BY <1>2, <2>1, RelievedKeeps DEF Relieved
<1> HIDE DEF b
<1>4. heard \in ControlBlock /\ Relieved(b, heard, {}) /\ UnaIs(heard) /\ SenderOK(heard)
    <2>1. Relieved(b, heard, {}) /\ UnaIs(heard)
        BY <1>3, ShrinkIs
    <2> HIDE DEF heard
    <2>2. QED
        BY <1>3, <2>1, RelievedKeeps DEF Relieved
<1> HIDE DEF heard, below
<1>5. Relieved(k, heard, below)
    <2>1. Relieved(k, b, {} \cup below)
        BY <1>2, <1>3, RelievedTwice
    <2>2. Relieved(k, heard, ({} \cup below) \cup {})
        BY <1>4, <2>1, RelievedTwice
    <2>3. ({} \cup below) \cup {} = below
        OBVIOUS
    <2>4. QED
        BY <2>2, <2>3
<1>6. ReceiverOK(heard) /\ Listed(heard) /\ heard.acklist = k.acklist
      /\ \A n : Has(heard, n) <=> Has(k, n)
    <2>1. SameReceiver(k, heard) /\ heard.acklist = k.acklist
        BY <1>5 DEF Relieved
    <2>2. \A n : Has(heard, n) <=> Has(k, n)
        BY <2>1 DEF SameReceiver, Has
    <2>3. QED
        BY <1>0, <2>1, <2>2 DEF SameReceiver, ReceiverOK, Listed
<1>7. heard.snd_nxt = k.snd_nxt /\ heard.snd_queue = k.snd_queue
    BY <1>5 DEF Relieved
<1>8. \A n \in Nat \ below : Keeps(k, n) => Keeps(heard, n)
    BY <1>0, <1>5, RelievedKeeps
<1>9. CASE seg.cmd = "ack"
    <2> DEFINE c == ParseAck(heard, seg.sn)
    <2>1. r = Shrink(c)
        BY <1>9 DEF InputSegment, heard, b, a
    <2>2. Relieved(heard, c, {seg.sn}) /\ c \in ControlBlock
        BY <1>1, <1>4, ParseAckIs DEF Relieved
    <2> HIDE DEF c
    <2>3. SenderOK(c) /\ \A n \in Nat \ {seg.sn} : Keeps(heard, n) => Keeps(c, n)
        BY <1>4, <2>2, RelievedKeeps
    <2> HIDE DEF r
    <2>4. Relieved(c, r, {}) /\ UnaIs(r)
        BY <2>1, <2>2, <2>3, ShrinkIs
    <2>5. SenderOK(r) /\ \A n \in Nat : Keeps(c, n) => Keeps(r, n)
        <3>1. \A n \in Nat \ {} : Keeps(c, n) => Keeps(r, n)
            BY <2>2, <2>3, <2>4, RelievedKeeps
        <3>2. QED
            BY <2>2, <2>3, <2>4, <3>1, RelievedKeeps
    <2>6. SameReceiver(heard, r) /\ r.acklist = heard.acklist /\ r \in ControlBlock
          /\ r.snd_nxt = heard.snd_nxt /\ r.snd_queue = heard.snd_queue
        BY <2>2, <2>4 DEF Relieved, SameReceiver
    <2>7. \A n : Has(r, n) <=> Has(heard, n)
        BY <2>6 DEF SameReceiver, Has
    <2>8. ReceiverOK(r) /\ Listed(r)
        BY <1>6, <2>6, <2>7 DEF SameReceiver, ReceiverOK, Listed
    <2>9. ASSUME NEW n \in Nat \ (below \cup {seg.sn}), Keeps(k, n) PROVE Keeps(r, n)
        BY <1>8, <2>3, <2>5, <2>9
    <2>10. Heard(k, r, below \cup {seg.sn}, {})
        BY <1>0, <1>6, <1>7, <2>4, <2>5, <2>6, <2>7, <2>8, <2>9 DEF Heard
    <2>11. QED
        BY <1>9, <2>10 DEF r, below
<1>10. CASE seg.cmd = "push"
    <2>1. r = InputPush(heard, seg)
        BY <1>10 DEF InputSegment, heard, b, a
    <2> HIDE DEF r
    <2>2. Takes(heard, r, seg.sn)
        BY <1>1, <1>4, <1>6, <2>1, InputPushIs
    <2>3. SameSender(heard, r) /\ r \in ControlBlock /\ ReceiverOK(r) /\ Listed(r)
          /\ Len(r.acklist) <= Len(k.acklist) + 1
          /\ \A n \in Nat : /\ Has(heard, n) => Has(r, n)
                            /\ Has(r, n) => Has(heard, n) \/ n = seg.sn
        BY <1>6, <2>2 DEF Takes
    <2>4. SenderOK(r) /\ UnaIs(r) /\ r.snd_nxt = heard.snd_nxt /\ r.snd_queue = heard.snd_queue
        BY <1>4, <2>3 DEF SameSender, SenderOK, UnaIs
    <2>5. \A n : Keeps(r, n) <=> Keeps(heard, n)
        BY <2>3 DEF SameSender, Keeps
    <2>6. Heard(k, r, below \cup {}, {seg.sn})
        BY <1>6, <1>7, <1>8, <2>3, <2>4, <2>5 DEF Heard
    <2>7. QED
        BY <1>10, <2>6 DEF r, below
<1>11. CASE seg.cmd \in {"wask", "wins"}
    <2>1. r = (IF seg.cmd = "wask" THEN [heard EXCEPT !.probe = @ \cup {"tell"}] ELSE heard)
        BY <1>11 DEF InputSegment, heard, b, a
    <2> HIDE DEF r
    <2>2. heard.probe \in SUBSET {"ask", "tell"}
        BY <1>4 DEF ControlBlock
    <2>3. /\ r \in ControlBlock /\ SameSender(heard, r) /\ SameReceiver(heard, r)
          /\ r.acklist = heard.acklist
        BY <1>4, <2>1, <2>2 DEF ControlBlock, SameSender, SameReceiver
    <2>4. SenderOK(r) /\ UnaIs(r) /\ r.snd_nxt = heard.snd_nxt /\ r.snd_queue = heard.snd_queue
        BY <1>4, <2>3 DEF SameSender, SenderOK, UnaIs
    <2>5. \A n : Keeps(r, n) <=> Keeps(heard, n)
        BY <2>3 DEF SameSender, Keeps
    <2>6. \A n : Has(r, n) <=> Has(heard, n)
        BY <2>3 DEF SameReceiver, Has
    <2>7. ReceiverOK(r) /\ Listed(r)
        BY <1>6, <2>3, <2>6 DEF SameReceiver, ReceiverOK, Listed
    <2>8. Heard(k, r, below \cup {}, {})
        BY <1>0, <1>6, <1>7, <1>8, <2>3, <2>4, <2>5, <2>6, <2>7 DEF Heard
    <2>9. QED
        BY <1>11, <2>8 DEF r, below
<1>12. QED
    BY <1>1, <1>9, <1>10, <1>11

-----------------------------------------------------------------------------
(* ikcp_flush.                                                             *)

\* The window probe and an emptied acklist leave both halves alone.
LEMMA ProbeIs ==
    ASSUME NEW k \in ControlBlock, NEW asking
    PROVE  LET r == Probe(k, asking)
           IN  r \in ControlBlock /\ SameSender(k, r) /\ SameReceiver(k, r) /\ r.acklist = k.acklist
<1>1. k.probe \in SUBSET {"ask", "tell"}
    BY DEF ControlBlock
<1>2. CASE k.rmt_wnd # 0
    <2>1. Probe(k, asking) = [k EXCEPT !.probe_wait = FALSE]
        BY <1>2 DEF Probe
    <2>2. QED
        BY <2>1 DEF ControlBlock, SameSender, SameReceiver
<1>3. CASE k.rmt_wnd = 0 /\ ~ k.probe_wait
    <2>1. Probe(k, asking) = [k EXCEPT !.probe_wait = TRUE]
        BY <1>3 DEF Probe
    <2>2. QED
        BY <2>1 DEF ControlBlock, SameSender, SameReceiver
<1>4. CASE k.rmt_wnd = 0 /\ k.probe_wait
    <2>1. Probe(k, asking) = IF asking THEN [k EXCEPT !.probe = k.probe \cup {"ask"}] ELSE k
        BY <1>4 DEF Probe
    <2>2. k.probe \cup {"ask"} \in SUBSET {"ask", "tell"}
        BY <1>1
    <2>3. CASE asking
        <3>1. Probe(k, asking) = [k EXCEPT !.probe = k.probe \cup {"ask"}]
            BY <2>1, <2>3
        <3>2. QED
            BY <2>2, <3>1 DEF ControlBlock, SameSender, SameReceiver
    <2>4. CASE ~ asking
        <3>1. Probe(k, asking) = k
            BY <2>1, <2>4
        <3>2. QED
            BY <3>1 DEF SameSender, SameReceiver
    <2>5. QED
        BY <2>3, <2>4
<1>5. QED
    BY <1>2, <1>3, <1>4

LEMMA ForgetIs ==
    ASSUME NEW k \in ControlBlock
    PROVE  LET r == [k EXCEPT !.acklist = <<>>, !.probe = {}]
           IN  r \in ControlBlock /\ SameSender(k, r) /\ SameReceiver(k, r) /\ r.acklist = <<>>
<1>1. <<>> \in Seq(Nat)
    OBVIOUS
<1>2. QED
    BY <1>1 DEF ControlBlock, SameSender, SameReceiver

\* n segments of snd_queue get the next numbers and join snd_buf.
Admits(k, r, n) ==
    /\ r \in ControlBlock /\ SameReceiver(k, r) /\ r.acklist = k.acklist
    /\ n \in 0 .. Len(k.snd_queue)
    /\ r.snd_una = k.snd_una /\ r.snd_nxt = k.snd_nxt + n
    /\ Cut(k.snd_queue, r.snd_queue, n)
    /\ Len(r.snd_buf) = Len(k.snd_buf) + n
    /\ \A i \in 1 .. Len(k.snd_buf) : r.snd_buf[i] = k.snd_buf[i]
    /\ \A i \in 1 .. n : /\ r.snd_buf[Len(k.snd_buf) + i].sn = k.snd_nxt + i - 1
                         /\ r.snd_buf[Len(k.snd_buf) + i].data = k.snd_queue[i]

LEMMA AdmitIs ==
    ASSUME NEW k \in ControlBlock
    PROVE  \E n \in Nat : Admits(k, Admit(k), n)
<1> DEFINE room == k.snd_una + Least(Window, k.rmt_wnd)
           n == Least(Len(k.snd_queue), IF k.snd_nxt < room THEN room - k.snd_nxt ELSE 0)
           new == [i \in 1 .. n |-> [sn |-> k.snd_nxt + i - 1, data |-> k.snd_queue[i],
                                     xmit |-> FALSE, fastack |-> 0]]
           q == SubSeq(k.snd_queue, n + 1, Len(k.snd_queue))
           b == k.snd_buf \o new
           r == [k EXCEPT !.snd_nxt = k.snd_nxt + n, !.snd_queue = q, !.snd_buf = b]
<1>1. /\ k.snd_una \in Nat /\ k.snd_nxt \in Nat /\ k.rmt_wnd \in Nat /\ Window \in Nat
      /\ k.snd_queue \in Seq(SegmentData) /\ Len(k.snd_queue) \in Nat
      /\ k.snd_buf \in Seq(Outgoing) /\ Len(k.snd_buf) \in Nat
    BY BlockTypes
<1>2. n \in 0 .. Len(k.snd_queue)
    <2>1. \A x \in Nat, y \in Nat : Least(x, y) \in Nat /\ Least(x, y) \in 0 .. x
        BY DEF Least
    <2>2. room \in Nat
        <3>1. Least(Window, k.rmt_wnd) \in Nat
            BY <1>1, <2>1
        <3>2. QED
            BY <1>1, <3>1
    <2> HIDE DEF room
    <2>3. (IF k.snd_nxt < room THEN room - k.snd_nxt ELSE 0) \in Nat
        BY <1>1, <2>2
    <2>4. QED
        BY <1>1, <2>1, <2>3
<1>3. r = Admit(k)
    BY DEF Admit
<1> HIDE DEF n
<1>4. q \in Seq(SegmentData) /\ Cut(k.snd_queue, q, n)
    BY <1>1, <1>2, CutIs
<1>5. new \in Seq(Outgoing) /\ Len(new) = n
      /\ \A i \in 1 .. n : new[i].sn = k.snd_nxt + i - 1 /\ new[i].data = k.snd_queue[i]
    <2>1. ASSUME NEW i \in 1 .. n
          PROVE  [sn |-> k.snd_nxt + i - 1, data |-> k.snd_queue[i], xmit |-> FALSE, fastack |-> 0]
                    \in Outgoing
        <3>1. i \in 1 .. Len(k.snd_queue) /\ k.snd_nxt + i - 1 \in Nat
            BY <1>1, <1>2
        <3>2. k.snd_queue[i] \in SegmentData
            BY <1>1, <3>1, ElementOfSeq
        <3>3. QED
            BY <3>1, <3>2 DEF Outgoing
    <2>2. n \in Nat
        BY <1>2
    <2>3. new \in Seq(Outgoing) /\ Len(new) = n
        BY <2>1, <2>2
    <2>4. QED
        BY <2>3
<1> HIDE DEF new
<1>6. b \in Seq(Outgoing) /\ Joined(k.snd_buf, new, b)
    BY <1>1, <1>5, ConcatIs
<1>7. k.snd_nxt + n \in Nat /\ n \in Nat
    BY <1>1, <1>2
<1> HIDE DEF q, b
<1>8. /\ r \in ControlBlock /\ SameReceiver(k, r) /\ r.acklist = k.acklist
      /\ r.snd_una = k.snd_una /\ r.snd_nxt = k.snd_nxt + n /\ r.snd_queue = q /\ r.snd_buf = b
    BY <1>4, <1>6, <1>7 DEF ControlBlock, SameReceiver
<1> HIDE DEF r
<1>9. /\ Len(b) = Len(k.snd_buf) + n
      /\ \A i \in 1 .. Len(k.snd_buf) : b[i] = k.snd_buf[i]
      /\ \A i \in 1 .. n : b[Len(k.snd_buf) + i] = new[i]
    BY <1>5, <1>6 DEF Joined
<1>10. Admits(k, r, n)
    BY <1>2, <1>4, <1>5, <1>8, <1>9 DEF Admits
<1>11. QED
    BY <1>3, <1>7, <1>10

LEMMA AdmitKeeps ==
    ASSUME NEW k \in ControlBlock, NEW r, NEW n \in Nat, SenderOK(k), UnaIs(k), Admits(k, r, n)
    PROVE  /\ SenderOK(r) /\ UnaIs(r) /\ k.snd_nxt <= r.snd_nxt
           /\ \A sn \in Nat : /\ Keeps(k, sn) => Keeps(r, sn)
                              /\ k.snd_nxt <= sn /\ sn < r.snd_nxt => Keeps(r, sn)
<1> DEFINE s == k.snd_buf
           t == r.snd_buf
           c == Len(s)
           a == k.snd_nxt
<1>1. /\ s \in Seq(Outgoing) /\ c \in Nat /\ DOMAIN s = 1 .. c /\ a \in Nat
      /\ \A i \in 1 .. c : s[i].sn \in Nat
    BY BlockTypes
<1>2. /\ \A i, j \in 1 .. c : i < j => s[i].sn < s[j].sn
      /\ \A i \in 1 .. c : s[i].sn < a
    BY <1>1 DEF SenderOK, Sorted
<1>3. /\ r \in ControlBlock /\ r.snd_una = k.snd_una /\ r.snd_nxt = a + n
      /\ Len(t) = c + n
      /\ \A i \in 1 .. c : t[i] = s[i]
      /\ \A i \in 1 .. n : t[c + i].sn = a + i - 1
    BY DEF Admits
<1>4. t \in Seq(Outgoing) /\ DOMAIN t = 1 .. c + n
    BY <1>3, BlockTypes
<1>5. \A m \in Nat : Keeps(k, m) <=> \E i \in 1 .. c : s[i].sn = m
    BY DEF Keeps
<1>6. \A m \in Nat : Keeps(r, m) <=> \E i \in 1 .. c + n : t[i].sn = m
    BY <1>3 DEF Keeps
<1>7. s = <<>> <=> c = 0
    BY <1>1, EmptySeq
<1>8. t = <<>> <=> c + n = 0
    BY <1>3, <1>4, EmptySeq
<1>9. k.snd_una = IF s = <<>> THEN a ELSE s[1].sn
    BY DEF UnaIs
<1>10. UnaIs(r) <=> r.snd_una = IF t = <<>> THEN r.snd_nxt ELSE t[1].sn
    BY DEF UnaIs
<1>11. SenderOK(r) <=> Sorted(t) /\ \A i \in 1 .. c + n : t[i].sn < r.snd_nxt
    BY <1>3 DEF SenderOK
<1> HIDE DEF s, t, c, a
<1>12. ASSUME NEW i \in 1 .. c + n
       PROVE  \/ i \in 1 .. c /\ t[i].sn = s[i].sn /\ t[i].sn < a /\ t[i].sn \in Nat
              \/ i - c \in 1 .. n /\ t[i].sn = a + (i - c) - 1
    <2>1. CASE i \in 1 .. c
        BY <1>1, <1>2, <1>3, <2>1
    <2>2. CASE i \notin 1 .. c
        <3>1. i - c \in 1 .. n /\ c + (i - c) = i
            BY <1>1, <2>2
        <3>2. t[c + (i - c)].sn = a + (i - c) - 1
            BY <1>3, <3>1
        <3>3. QED
            BY <3>1, <3>2
    <2>3. QED
        BY <2>1, <2>2
<1>13. Sorted(t)
    <2>1. SUFFICES ASSUME NEW i \in 1 .. c + n, NEW j \in 1 .. c + n, i < j PROVE t[i].sn < t[j].sn
        BY <1>4 DEF Sorted
    <2>2. CASE j \in 1 .. c
        <3>1. i \in 1 .. c
            BY <1>1, <2>1, <2>2
        <3>2. QED
            BY <1>2, <1>3, <2>1, <2>2, <3>1
    <2>3. CASE j \notin 1 .. c /\ i \in 1 .. c
        <3>1. j - c \in 1 .. n /\ t[j].sn = a + (j - c) - 1
            BY <1>12, <2>3
        <3>2. t[i].sn < a /\ t[i].sn \in Nat
            BY <1>1, <1>2, <1>3, <2>3
        <3>3. QED
            BY <1>1, <3>1, <3>2
    <2>4. CASE j \notin 1 .. c /\ i \notin 1 .. c
        <3>1. j - c \in 1 .. n /\ t[j].sn = a + (j - c) - 1
            BY <1>12, <2>4
        <3>2. i - c \in 1 .. n /\ t[i].sn = a + (i - c) - 1
            BY <1>12, <2>4
        <3>3. QED
            BY <1>1, <2>1, <3>1, <3>2
    <2>5. QED
        BY <2>2, <2>3, <2>4
<1>14. ASSUME NEW i \in 1 .. c + n PROVE t[i].sn < a + n
    <2>1. CASE i \in 1 .. c
        <3>1. t[i].sn \in Nat /\ t[i].sn < a
            BY <1>1, <1>2, <1>3, <2>1
        <3>2. QED
            BY <1>1, <3>1
    <2>2. CASE i \notin 1 .. c
        <3>1. i - c \in 1 .. n /\ t[i].sn = a + (i - c) - 1
            BY <1>12, <2>2
        <3>2. QED
            BY <1>1, <3>1
    <2>3. QED
        BY <2>1, <2>2
<1>15. UnaIs(r)
    <2>1. CASE c = 0 /\ n = 0
        BY <1>1, <1>3, <1>7, <1>8, <1>9, <1>10, <2>1
    <2>2. CASE c = 0 /\ n # 0
        <3>1. 1 \in 1 .. n /\ c + 1 = 1 /\ a + 1 - 1 = a /\ c + n # 0
            BY <1>1, <2>2
        <3>2. t[1].sn = a
            BY <1>3, <3>1
        <3>3. QED
            BY <1>3, <1>7, <1>8, <1>9, <1>10, <2>2, <3>1, <3>2
    <2>3. CASE c # 0
        <3>1. 1 \in 1 .. c /\ c + n # 0
            BY <1>1, <2>3
        <3>2. t[1] = s[1]
            BY <1>3, <3>1
        <3>3. QED
            BY <1>3, <1>7, <1>8, <1>9, <1>10, <2>3, <3>1, <3>2
    <2>4. QED
        BY <2>1, <2>2, <2>3
<1>16. SenderOK(r)
    BY <1>3, <1>11, <1>13, <1>14
<1>17. ASSUME NEW sn \in Nat, Keeps(k, sn) PROVE Keeps(r, sn)
    <2>1. PICK i \in 1 .. c : s[i].sn = sn
        BY <1>5, <1>17
    <2>2. i \in 1 .. c + n /\ t[i].sn = sn
        BY <1>1, <1>3, <2>1
    <2>3. QED
        BY <1>6, <2>2
<1>18. ASSUME NEW sn \in Nat, a <= sn, sn < a + n PROVE Keeps(r, sn)
    <2>1. sn - a + 1 \in 1 .. n /\ a + (sn - a + 1) - 1 = sn /\ c + (sn - a + 1) \in 1 .. c + n
        BY <1>1, <1>18
    <2>2. t[c + (sn - a + 1)].sn = sn
        BY <1>3, <2>1
    <2>3. QED
        BY <1>6, <2>1, <2>2
<1>19. a <= a + n
    BY <1>1
<1>20. QED
    BY <1>3, <1>15, <1>16, <1>17, <1>18, <1>19 DEF a

LEMMA ResendIs ==
    ASSUME NEW k \in ControlBlock, NEW late, SenderOK(k), UnaIs(k)
    PROVE  Relieved(k, Resend(k, late), {}) /\ UnaIs(Resend(k, late))
<1> DEFINE s == k.snd_buf
           t == [i \in DOMAIN s |-> Resent(s[i], late)]
           r == [k EXCEPT !.snd_buf = t]
<1>1. r = Resend(k, late)
    BY DEF Resend
<1>2. /\ DOMAIN s = 1 .. Len(s) /\ Len(s) \in Nat
      /\ \A i \in 1 .. Len(s) : s[i] \in Outgoing
    BY BlockTypes
<1>3. ASSUME NEW x \in Outgoing
      PROVE  Resent(x, late) \in Outgoing /\ Resent(x, late).sn = x.sn
             /\ Resent(x, late).data = x.data
    BY DEF Resent, Outgoing
<1>4. /\ t \in Seq(Outgoing) /\ Len(t) = Len(s)
      /\ \A i \in 1 .. Len(s) : t[i] = Resent(s[i], late)
    BY <1>2, <1>3
<1> HIDE DEF t
<1>5. \A i \in 1 .. Len(t) : t[i].sn = k.snd_buf[i].sn /\ t[i].data = k.snd_buf[i].data
    BY <1>2, <1>3, <1>4
<1>6. QED
    BY <1>1, <1>4, <1>5, Recounted

\* What a segment sent by k says: k has what the segment acknowledges, and has
\* given out the number of the segment it carries.
Told(k, seg) ==
    /\ \A n \in Nat : n < seg.una => Has(k, n)
    /\ seg.cmd = "ack" => Has(k, seg.sn)
    /\ seg.cmd = "push" => seg.sn < k.snd_nxt

AllTold(k, segs) == segs \in Seq(Segment) /\ \A i \in 1 .. Len(segs) : Told(k, segs[i])

\* It stays true: k forgets nothing it had and takes no number back.
LEMMA ToldLater ==
    ASSUME NEW k \in ControlBlock, NEW r \in ControlBlock, k.snd_nxt <= r.snd_nxt,
           \A n \in Nat : Has(k, n) => Has(r, n), NEW segs, AllTold(k, segs)
    PROVE  AllTold(r, segs)
<1>1. SUFFICES ASSUME NEW i \in 1 .. Len(segs) PROVE Told(r, segs[i])
    BY DEF AllTold
<1>2. Told(k, segs[i])
    BY DEF AllTold
<1>3. segs[i] \in Segment
    BY ElementOfSeq DEF AllTold
<1>4. segs[i].sn \in Nat /\ k.snd_nxt \in Nat /\ r.snd_nxt \in Nat
    BY <1>3, BlockTypes DEF Segment
<1>5. QED
    BY <1>2, <1>4 DEF Told

LEMMA ToldTogether ==
    ASSUME NEW k, NEW s, NEW t, AllTold(k, s), AllTold(k, t)
    PROVE  AllTold(k, s \o t)
<1> DEFINE u == s \o t
<1>1. /\ s \in Seq(Segment) /\ t \in Seq(Segment) /\ Len(s) \in Nat /\ Len(t) \in Nat
      /\ \A i \in 1 .. Len(s) : Told(k, s[i])
      /\ \A i \in 1 .. Len(t) : Told(k, t[i])
    BY LenProperties DEF AllTold
<1>2. u \in Seq(Segment) /\ Joined(s, t, u)
    BY <1>1, ConcatIs
<1> HIDE DEF u
<1>3. /\ Len(u) = Len(s) + Len(t)
      /\ \A i \in 1 .. Len(s) : u[i] = s[i]
      /\ \A i \in 1 .. Len(t) : u[Len(s) + i] = t[i]
    BY <1>2 DEF Joined
<1>4. ASSUME NEW i \in 1 .. Len(u) PROVE Told(k, u[i])
    <2>1. CASE i \in 1 .. Len(s)
        BY <1>1, <1>3, <2>1
    <2>2. CASE i \notin 1 .. Len(s)
        <3>1. i - Len(s) \in 1 .. Len(t) /\ Len(s) + (i - Len(s)) = i
            BY <1>1, <1>3, <2>2
        <3>2. u[i] = t[i - Len(s)]
            BY <1>3, <3>1
        <3>3. QED
            BY <1>1, <3>1, <3>2
    <2>3. QED
        BY <2>1, <2>2
<1>5. QED
    BY <1>2, <1>4 DEF AllTold, u

LEMMA ControlIs ==
    ASSUME NEW k \in ControlBlock, NEW cmd \in {"ack", "wask", "wins"}, NEW sn \in Nat,
           cmd = "ack" => Has(k, sn)
    PROVE  Control(k, cmd, sn) \in Segment /\ Told(k, Control(k, cmd, sn))
<1>1. k.rcv_nxt \in Nat /\ Len(k.rcv_queue) \in Nat /\ Window \in Nat
    BY BlockTypes
<1>2. Unused(k) \in Nat
    BY <1>1 DEF Unused
<1>3. NoData \in SegmentData
    BY DEF NoData, SegmentData
<1>4. Control(k, cmd, sn) \in Segment
    BY <1>1, <1>2, <1>3 DEF Control, Segment
<1>5. /\ Control(k, cmd, sn).una = k.rcv_nxt /\ Control(k, cmd, sn).cmd = cmd
      /\ Control(k, cmd, sn).sn = sn
    BY DEF Control
<1>6. \A n \in Nat : n < k.rcv_nxt => Has(k, n)
    BY DEF Has
<1>7. QED
    BY <1>4, <1>5, <1>6 DEF Told

LEMMA ControlsTold ==
    ASSUME NEW k \in ControlBlock, Listed(k)
    PROVE  AllTold(k, Controls(k))
<1> DEFINE acks == [i \in DOMAIN k.acklist |-> Control(k, "ack", k.acklist[i])]
           ask == IF "ask" \in k.probe THEN <<Control(k, "wask", 0)>> ELSE <<>>
           tell == IF "tell" \in k.probe THEN <<Control(k, "wins", 0)>> ELSE <<>>
<1>1. /\ Len(k.acklist) \in Nat /\ DOMAIN k.acklist = 1 .. Len(k.acklist)
      /\ \A i \in 1 .. Len(k.acklist) : k.acklist[i] \in Nat
    BY BlockTypes, LenProperties, ElementOfSeq
<1>2. \A i \in 1 .. Len(k.acklist) : Has(k, k.acklist[i])
    BY DEF Listed
<1>3. \A i \in 1 .. Len(k.acklist) :
          Control(k, "ack", k.acklist[i]) \in Segment /\ Told(k, Control(k, "ack", k.acklist[i]))
    BY <1>1, <1>2, ControlIs
<1>4. AllTold(k, acks)
    <2>1. acks \in Seq(Segment) /\ Len(acks) = Len(k.acklist)
        BY <1>1, <1>3
    <2>2. \A i \in 1 .. Len(k.acklist) : acks[i] = Control(k, "ack", k.acklist[i])
        BY <1>1
    <2> HIDE DEF acks
    <2>3. QED
        BY <1>3, <2>1, <2>2 DEF AllTold
<1>5. AllTold(k, <<>>)
    <2>1. <<>> \in Seq(Segment) /\ \A i \in 1 .. Len(<<>>) : FALSE
        OBVIOUS
    <2>2. QED
        BY <2>1 DEF AllTold
<1>6. ASSUME NEW cmd \in {"wask", "wins"} PROVE AllTold(k, <<Control(k, cmd, 0)>>)
    <2> DEFINE x == Control(k, cmd, 0)
    <2>1. x \in Segment /\ Told(k, x)
        BY ControlIs
    <2> HIDE DEF x
    <2>2. <<x>> \in Seq(Segment) /\ Len(<<x>>) = 1 /\ <<x>>[1] = x
        BY <2>1
    <2>3. \A i \in 1 .. Len(<<x>>) : Told(k, <<x>>[i])
        BY <2>1, <2>2
    <2>4. QED
        BY <2>2, <2>3 DEF AllTold, x
<1>7. AllTold(k, ask) /\ AllTold(k, tell)
    BY <1>5, <1>6
<1>8. Controls(k) = acks \o ask \o tell
    BY DEF Controls
<1> HIDE DEF acks, ask, tell
<1>9. AllTold(k, acks \o ask)
    BY <1>4, <1>7, ToldTogether
<1>10. QED
    BY <1>7, <1>8, <1>9, ToldTogether

LEMMA PushesTold ==
    ASSUME NEW k \in ControlBlock, SenderOK(k), NEW late
    PROVE  AllTold(k, Pushes(k, late))
<1> DEFINE chosen == {i \in DOMAIN k.snd_buf : NeedSend(k.snd_buf[i], late)}
           due == Selected(k.snd_buf, chosen)
           t == [i \in DOMAIN due |-> Push(k, due[i])]
<1>1. /\ k.snd_buf \in Seq(Outgoing) /\ DOMAIN k.snd_buf = 1 .. Len(k.snd_buf)
      /\ k.rcv_nxt \in Nat /\ Len(k.rcv_queue) \in Nat /\ Window \in Nat
    BY BlockTypes
<1>2. chosen \in SUBSET (1 .. Len(k.snd_buf))
    BY <1>1
<1> HIDE DEF chosen
<1>3. /\ due \in Seq(Outgoing)
      /\ \A n \in 1 .. Len(due) : \E i \in chosen : due[n] = k.snd_buf[i]
    BY <1>1, <1>2, SelectedIs
<1>4. t = Pushes(k, late)
    BY DEF Pushes, chosen
<1> HIDE DEF due
<1>5. DOMAIN due = 1 .. Len(due) /\ Len(due) \in Nat
    BY <1>3, LenProperties
<1>6. Unused(k) \in Nat
    BY <1>1 DEF Unused
<1>7. \A n \in Nat : n < k.rcv_nxt => Has(k, n)
    BY DEF Has
<1>8. ASSUME NEW n \in 1 .. Len(due) PROVE Push(k, due[n]) \in Segment /\ Told(k, Push(k, due[n]))
    <2>1. PICK i \in chosen : due[n] = k.snd_buf[i]
        BY <1>3
    <2>2. i \in 1 .. Len(k.snd_buf)
        BY <1>2, <2>1
    <2>3. due[n] \in Outgoing /\ due[n].sn < k.snd_nxt
        BY <2>1, <2>2, BlockTypes DEF SenderOK
    <2>4. Push(k, due[n]) \in Segment
        BY <1>1, <1>6, <2>3 DEF Push, Segment, Outgoing
    <2>5. /\ Push(k, due[n]).una = k.rcv_nxt /\ Push(k, due[n]).cmd = "push"
          /\ Push(k, due[n]).sn = due[n].sn
        BY DEF Push
    <2>6. QED
        BY <1>7, <2>3, <2>4, <2>5 DEF Told
<1>9. t \in Seq(Segment) /\ Len(t) = Len(due) /\ \A i \in 1 .. Len(due) : t[i] = Push(k, due[i])
    BY <1>5, <1>8
<1> HIDE DEF t
<1>10. AllTold(k, t)
    BY <1>8, <1>9 DEF AllTold
<1>11. QED
    BY <1>4, <1>10

\* Every datagram the network takes is a non-empty choice of the segments.
LEMMA CarryIs ==
    ASSUME NEW S, NEW segs \in Seq(S), NEW datagrams, NEW d \in Carry(datagrams, segs)
    PROVE  \/ d \in datagrams
           \/ /\ d \in Seq(S) /\ d # <<>>
              /\ \A j \in 1 .. Len(d) : \E i \in 1 .. Len(segs) : d[j] = segs[i]
<1> DEFINE firsts == {i \in DOMAIN segs : First(segs)[i] = i}
           room == MaxInFlight - Cardinality(datagrams)
<1>1. SUFFICES ASSUME d \notin datagrams
               PROVE  /\ d \in Seq(S) /\ d # <<>>
                      /\ \A j \in 1 .. Len(d) : \E i \in 1 .. Len(segs) : d[j] = segs[i]
    OBVIOUS
<1>2. PICK n \in {i \in firsts : Cardinality({j \in firsts : j <= i}) <= room} :
          d = Datagram(segs, n)
    BY <1>1 DEF Carry
<1> DEFINE chosen == {i \in DOMAIN segs : First(segs)[i] = n}
<1>3. n \in chosen /\ chosen \in SUBSET (1 .. Len(segs))
    BY <1>2, LenProperties
<1>4. d = Selected(segs, chosen)
    BY <1>2 DEF Datagram
<1> HIDE DEF chosen
<1>5. chosen # {}
    BY <1>3
<1> DEFINE t == Selected(segs, chosen)
<1>6. /\ t \in Seq(S) /\ t # <<>>
      /\ \A j \in 1 .. Len(t) : \E i \in chosen : t[j] = segs[i]
    BY <1>3, <1>5, SelectedIs
<1> HIDE DEF t
<1>7. \A j \in 1 .. Len(t) : \E i \in 1 .. Len(segs) : t[j] = segs[i]
    BY <1>3, <1>6
<1>8. QED
    BY <1>4, <1>6, <1>7 DEF t

LEMMA CarryTold ==
    ASSUME NEW k, NEW segs, AllTold(k, segs), NEW datagrams, NEW d \in Carry(datagrams, segs)
    PROVE  d \in datagrams \/ (d # <<>> /\ AllTold(k, d))
<1>1. segs \in Seq(Segment)
    BY DEF AllTold
<1>2. SUFFICES ASSUME d \notin datagrams PROVE d # <<>> /\ AllTold(k, d)
    OBVIOUS
<1>3. /\ d \in Seq(Segment) /\ d # <<>>
      /\ \A j \in 1 .. Len(d) : \E i \in 1 .. Len(segs) : d[j] = segs[i]
    BY <1>1, <1>2, CarryIs
<1>4. ASSUME NEW j \in 1 .. Len(d) PROVE Told(k, d[j])
    BY <1>3 DEF AllTold
<1>5. QED
    BY <1>3, <1>4 DEF AllTold

-----------------------------------------------------------------------------
(* ikcp_send and ikcp_recv.                                                *)

LEMMA TimesGrows ==
    ASSUME NEW a \in Nat, NEW b \in Nat, NEW m \in Nat, a <= b
    PROVE  a * m <= b * m
OBVIOUS

LEMMA CountIs ==
    ASSUME NEW len \in Nat
    PROVE  Count(len) \in Nat \ {0} /\ Mss \in Nat \ {0} /\ (Count(len) - 1) * Mss <= len
<1>1. Mss \in Nat \ {0}
    BY DEF Mss, Overhead
<1>2. CASE len <= Mss
    BY <1>1, <1>2 DEF Count
<1>3. CASE ~ (len <= Mss)
    <2> DEFINE x == len + Mss - 1
               q == x \div Mss
    <2> HIDE DEF Mss
    <2>1. Count(len) = q
        BY <1>3 DEF Count
    <2>2. x \in Nat /\ x >= Mss
        BY <1>1, <1>3
    <2> HIDE DEF x
    <2>3. q \in Nat /\ q * Mss <= x /\ q # 0
        BY <1>1, <2>2
    <2> HIDE DEF q
    <2>4. (q - 1) * Mss = q * Mss - Mss
        BY <1>1, <2>3
    <2>5. QED
        BY <1>1, <2>1, <2>3, <2>4 DEF x
<1>4. QED
    BY <1>2, <1>3

LEMMA FragmentsIs ==
    ASSUME NEW m \in Nat, NEW len \in Nat
    PROVE  /\ Fragments(m, len) \in Seq(SegmentData) /\ Len(Fragments(m, len)) = Count(len)
           /\ \A i \in 1 .. Count(len) : /\ Fragments(m, len)[i].msg = m
                                         /\ Fragments(m, len)[i].frg = Count(len) - i
<1> DEFINE c == Count(len)
           piece(i) == [msg |-> m, frg |-> c - i, len |-> Least(Mss, len - (i - 1) * Mss)]
           t == [i \in 1 .. c |-> piece(i)]
<1>1. c \in Nat \ {0} /\ Mss \in Nat \ {0} /\ (c - 1) * Mss <= len
    BY CountIs
<1>2. t = Fragments(m, len)
    BY DEF Fragments
<1> HIDE DEF c
<1>3. ASSUME NEW i \in 1 .. c PROVE piece(i) \in SegmentData
    <2> DEFINE done == (i - 1) * Mss
    <2>1. i - 1 \in Nat /\ c - 1 \in Nat /\ i - 1 <= c - 1
        BY <1>1
    <2>2. done \in Nat /\ done <= (c - 1) * Mss
        BY <1>1, <2>1, TimesGrows
    <2>3. (c - 1) * Mss \in Nat
        BY <1>1, <2>1
    <2> HIDE DEF done
    <2>4. len - done \in Nat
        BY <1>1, <2>2, <2>3
    <2>5. Least(Mss, len - done) \in Nat
        BY <1>1, <2>4 DEF Least
    <2>6. c - i \in Nat
        BY <1>1
    <2>7. QED
        BY <2>5, <2>6 DEF SegmentData, done
<1> HIDE DEF piece
<1>4. t \in Seq(SegmentData) /\ Len(t) = c
    BY <1>1, <1>3
<1>5. \A i \in 1 .. c : t[i] = piece(i)
    OBVIOUS
<1> HIDE DEF t
<1>6. QED
    BY <1>2, <1>4, <1>5 DEF piece, c

\* ikcp_recv takes the segments up to the end of a message, or the whole queue.
LEMMA MergedIs ==
    ASSUME NEW k \in ControlBlock, k.rcv_queue # <<>>
    PROVE  LET n == Merged(k)
           IN  /\ n \in 1 .. Len(k.rcv_queue)
               /\ k.rcv_queue[n].data.frg = 0 \/ n = Len(k.rcv_queue)
               /\ \A i \in 1 .. n - 1 : k.rcv_queue[i].data.frg # 0
<1> DEFINE c == Len(k.rcv_queue)
           good(n) == /\ k.rcv_queue[n].data.frg = 0 \/ n = Len(k.rcv_queue)
                      /\ \A i \in 1 .. n - 1 : k.rcv_queue[i].data.frg # 0
           M == {n \in 1 .. c : k.rcv_queue[n].data.frg = 0 \/ n = c}
<1>1. c \in Nat /\ c # 0
    BY BlockTypes, EmptySeq
<1>2. M # {} /\ M \in SUBSET Nat
    <2>1. c \in M
        BY <1>1
    <2>2. QED
        BY <1>1, <2>1
<1> DEFINE n == Min(M)
<1>3. n \in M /\ \A y \in M : n <= y
    BY <1>2, MinOfNaturals
<1> HIDE DEF n
<1>4. \A i \in 1 .. n - 1 : k.rcv_queue[i].data.frg # 0
    BY <1>1, <1>3
<1>5. n \in 1 .. c /\ good(n)
    BY <1>3, <1>4
<1>6. Merged(k) = CHOOSE m \in 1 .. c : good(m)
    BY DEF Merged
<1> HIDE DEF good
<1>7. Merged(k) \in 1 .. c /\ good(Merged(k))
    BY <1>5, <1>6
<1>8. QED
    BY <1>7 DEF good

LEMMA DrainedIs ==
    ASSUME NEW k \in ControlBlock, ReceiverOK(k), NEW n \in 1 .. Len(k.rcv_queue)
    PROVE  LET r == Drained(k, n)
           IN  /\ r \in ControlBlock /\ SameSender(k, r) /\ r.acklist = k.acklist /\ ReceiverOK(r)
               /\ \A sn \in Nat : Has(r, sn) <=> Has(k, sn)
<1> DEFINE q == SubSeq(k.rcv_queue, n + 1, Len(k.rcv_queue))
           a == [k EXCEPT !.rcv_queue = q]
           b == MoveToQueue(a)
           r == Drained(k, n)
<1>1. q \in Seq(Incoming) /\ Len(q) <= Window
    <2>1. k.rcv_queue \in Seq(Incoming) /\ Len(k.rcv_queue) \in Nat /\ n \in 0 .. Len(k.rcv_queue)
        BY BlockTypes
    <2>2. q \in Seq(Incoming) /\ Cut(k.rcv_queue, q, n)
        BY <2>1, CutIs
    <2> HIDE DEF q
    <2>3. Len(q) = Len(k.rcv_queue) - n /\ Len(k.rcv_queue) <= Window /\ Window \in Nat
        BY <2>2 DEF Cut, ReceiverOK
    <2>4. QED
        BY <2>1, <2>2, <2>3
<1> HIDE DEF q
<1>2. /\ a \in ControlBlock /\ SameSender(k, a) /\ a.acklist = k.acklist
      /\ a.rcv_nxt = k.rcv_nxt /\ a.rcv_buf = k.rcv_buf /\ a.rcv_queue = q
    BY <1>1 DEF ControlBlock, SameSender
<1> HIDE DEF a
<1>3. ReceiverOK(a) /\ \A sn \in Nat : Has(a, sn) <=> Has(k, sn)
    BY <1>1, <1>2 DEF ReceiverOK, Has
<1>4. b \in ControlBlock /\ SameSender(a, b) /\ b.acklist = a.acklist
    BY <1>2, MoveToQueueIs
<1>5. PICK m \in Nat : MoveToQueueBy(a, b, m)
    BY <1>2, MoveToQueueIs
<1>6. ReceiverOK(b) /\ \A sn \in Nat : Has(b, sn) <=> Has(a, sn)
    BY <1>2, <1>3, <1>4, <1>5, MoveKeeps
<1>7. r = b \/ r = [b EXCEPT !.probe = b.probe \cup {"tell"}]
    BY DEF Drained, b, a, q
<1> HIDE DEF b, r
<1>8. /\ r \in ControlBlock /\ SameSender(b, r) /\ SameReceiver(b, r) /\ r.acklist = b.acklist
    <2>1. b.probe \cup {"tell"} \in SUBSET {"ask", "tell"}
        BY <1>4 DEF ControlBlock
    <2>2. CASE r = b
        BY <1>4, <2>2 DEF SameSender, SameReceiver
    <2>3. CASE r = [b EXCEPT !.probe = b.probe \cup {"tell"}]
        BY <1>4, <2>1, <2>3 DEF ControlBlock, SameSender, SameReceiver
    <2>4. QED
        BY <1>7, <2>2, <2>3
<1>9. ReceiverOK(r) /\ \A sn \in Nat : Has(r, sn) <=> Has(b, sn)
    BY <1>6, <1>8 DEF SameReceiver, ReceiverOK, Has
<1>10. SameSender(k, r) /\ r.acklist = k.acklist
    BY <1>2, <1>4, <1>8 DEF SameSender
<1>11. QED
    BY <1>3, <1>6, <1>8, <1>9, <1>10 DEF r

-----------------------------------------------------------------------------
(* The two ends.                                                           *)

\* q has nothing k did not number, and k keeps what q does not have.
Met(k, q) ==
    /\ \A n \in Nat : Has(q, n) => n < k.snd_nxt
    /\ \A n \in Nat : n < k.snd_nxt => Keeps(k, n) \/ Has(q, n)

Wire ==
    /\ TypeOK
    /\ \A e \in End : UnaIs(kcp[e]) /\ Listed(kcp[e]) /\ Met(kcp[e], kcp[Peer(e)])
    /\ \A e \in End : \A d \in net[e] : AllTold(kcp[Peer(e)], d)
    /\ \A e \in End : AllTold(kcp[Peer(e)], input[e].rest)

\* A control block that a step of its end leaves behind.
Grows(k, r) ==
    /\ r \in ControlBlock /\ WellFormed(r) /\ UnaIs(r) /\ Listed(r)
    /\ k.snd_nxt <= r.snd_nxt
    /\ \A n \in Nat : Has(k, n) => Has(r, n)

LEMMA Peers ==
    \A e \in End : Peer(e) \in End /\ Peer(e) # e /\ Peer(Peer(e)) = e
                   /\ \A f \in End : f = e \/ f = Peer(e)
BY DEF End, Peer

\* A step that changes one control block and only sends what that block says.
LEMMA WireStep ==
    ASSUME Wire, NEW e \in End, NEW r, Grows(kcp[e], r),
           Met(r, kcp[Peer(e)]), Met(kcp[Peer(e)], r),
           kcp' = [kcp EXCEPT ![e] = r],
           sent' \in [End -> Nat], got' \in [End -> Seq(Seq([msg : Nat, frg : Nat]))],
           net' \in [End -> SUBSET (Seq(Segment) \ {<<>>})],
           \A f \in End : \A d \in net'[f] : d \in net[f] \/ (f = Peer(e) /\ AllTold(r, d)),
           input' \in [End -> [rest : Seq(Segment), maxack : Int]],
           \A f \in End : input'[f].rest = input[f].rest \/ AllTold(kcp[Peer(f)], input'[f].rest),
           faults' \in 0 .. MaxFaults
    PROVE  Wire'
<1> DEFINE p == Peer(e)
<1>1. p \in End /\ p # e /\ Peer(p) = e /\ \A f \in End : f = e \/ f = p
    BY Peers
<1>2. kcp \in [End -> ControlBlock] /\ r \in ControlBlock
    BY DEF Wire, TypeOK, Grows
<1>3. kcp'[e] = r /\ kcp'[p] = kcp[p] /\ kcp' \in [End -> ControlBlock]
    BY <1>1, <1>2
<1>4. \A f \in End : WellFormed(kcp[f]) /\ UnaIs(kcp[f]) /\ Listed(kcp[f])
    BY DEF Wire, TypeOK
<1>5. /\ WellFormed(kcp'[e]) /\ UnaIs(kcp'[e]) /\ Listed(kcp'[e]) /\ Met(kcp'[e], kcp'[p])
      /\ WellFormed(kcp'[p]) /\ UnaIs(kcp'[p]) /\ Listed(kcp'[p]) /\ Met(kcp'[p], kcp'[e])
    BY <1>1, <1>3, <1>4 DEF Grows
<1>6. TypeOK'
    BY <1>1, <1>3, <1>5 DEF TypeOK
<1>7. \A f \in End : UnaIs(kcp'[f]) /\ Listed(kcp'[f]) /\ Met(kcp'[f], kcp'[Peer(f)])
    BY <1>1, <1>5
<1>8. ASSUME NEW f \in End, NEW segs, AllTold(kcp[Peer(f)], segs)
      PROVE  AllTold(kcp'[Peer(f)], segs)
    <2>1. CASE f = e
        BY <1>1, <1>3, <1>8, <2>1
    <2>2. CASE f = p
        <3>1. AllTold(kcp[e], segs) /\ Peer(f) = e
            BY <1>1, <1>8, <2>2
        <3>2. AllTold(r, segs)
            BY <1>2, <3>1, ToldLater DEF Grows
        <3>3. QED
            BY <1>3, <3>1, <3>2
    <2>3. QED
        BY <1>1, <2>1, <2>2
<1>9. ASSUME NEW f \in End, NEW d \in net'[f] PROVE AllTold(kcp'[Peer(f)], d)
    <2>1. CASE d \in net[f]
        <3>1. AllTold(kcp[Peer(f)], d)
            BY <2>1 DEF Wire
        <3>2. QED
            BY <1>8, <3>1
    <2>2. CASE f = p /\ AllTold(r, d)
        BY <1>1, <1>3, <2>2
    <2>3. QED
        BY <2>1, <2>2
<1>10. ASSUME NEW f \in End PROVE AllTold(kcp'[Peer(f)], input'[f].rest)
    <2>1. AllTold(kcp[Peer(f)], input'[f].rest)
        BY DEF Wire
    <2>2. QED
        BY <1>8, <2>1
<1>11. QED
    BY <1>6, <1>7, <1>9, <1>10 DEF Wire

LEMMA MetLater ==
    ASSUME NEW k, NEW q, Met(k, q), NEW k2, NEW q2, k2.snd_nxt = k.snd_nxt,
           \A n \in Nat : Keeps(k, n) => Keeps(k2, n),
           \A n \in Nat : Has(q, n) <=> Has(q2, n)
    PROVE  Met(k2, q2)
BY DEF Met

\* What Wire gives a step of end e.
LEMMA WireParts ==
    ASSUME Wire, NEW e \in End
    PROVE  /\ kcp \in [End -> ControlBlock] /\ kcp[e] \in ControlBlock /\ WellFormed(kcp[e])
           /\ SenderOK(kcp[e]) /\ ReceiverOK(kcp[e]) /\ Len(kcp[e].acklist) <= MaxAcks
           /\ UnaIs(kcp[e]) /\ Listed(kcp[e]) /\ Met(kcp[e], kcp[Peer(e)])
           /\ Peer(e) \in End /\ kcp[Peer(e)] \in ControlBlock /\ Met(kcp[Peer(e)], kcp[e])
<1>1. Peer(e) \in End /\ Peer(Peer(e)) = e
    BY Peers
<1>2. kcp \in [End -> ControlBlock] /\ \A f \in End : WellFormed(kcp[f])
    BY DEF Wire, TypeOK
<1>3. \A f \in End : UnaIs(kcp[f]) /\ Listed(kcp[f]) /\ Met(kcp[f], kcp[Peer(f)])
    BY DEF Wire
<1>4. /\ kcp[e] \in ControlBlock /\ kcp[Peer(e)] \in ControlBlock
      /\ SenderOK(kcp[e]) /\ ReceiverOK(kcp[e]) /\ Len(kcp[e].acklist) <= MaxAcks
    BY <1>1, <1>2, WellFormedParts
<1>5. Met(kcp[e], kcp[Peer(e)]) /\ Met(kcp[Peer(e)], kcp[e])
    <2>1. Met(kcp[Peer(e)], kcp[Peer(Peer(e))])
        BY <1>1, <1>3
    <2>2. QED
        BY <1>1, <1>3, <2>1
<1>6. QED
    BY <1>1, <1>2, <1>3, <1>4, <1>5

LEMMA SendStep ==
    ASSUME Wire, NEW e \in End, Send(e)
    PROVE  Wire'
<1> DEFINE k == kcp[e]
           m == sent[e] + 1
           len == Messages[e][m]
           q == k.snd_queue \o Fragments(m, len)
           r == [k EXCEPT !.snd_queue = q]
<1>1. /\ k \in ControlBlock /\ kcp \in [End -> ControlBlock] /\ SenderOK(k) /\ ReceiverOK(k)
      /\ Len(k.acklist) <= MaxAcks /\ UnaIs(k) /\ Listed(k)
      /\ Met(k, kcp[Peer(e)]) /\ Met(kcp[Peer(e)], k)
    BY WireParts
<1>2. /\ sent \in [End -> Nat] /\ got \in [End -> Seq(Seq([msg : Nat, frg : Nat]))]
      /\ net \in [End -> SUBSET (Seq(Segment) \ {<<>>})]
      /\ input \in [End -> [rest : Seq(Segment), maxack : Int]]
      /\ faults \in 0 .. MaxFaults
    BY DEF Wire, TypeOK
<1>3. /\ sent[e] < Len(Messages[e])
      /\ kcp' = [kcp EXCEPT ![e] = r] /\ sent' = [sent EXCEPT ![e] = m]
      /\ got' = got /\ net' = net /\ input' = input /\ faults' = faults
    BY DEF Send
<1>4. m \in Nat /\ len \in Nat
    <2>1. Messages[e] \in Seq(Nat) /\ sent[e] \in Nat
        BY <1>2
    <2>2. Len(Messages[e]) \in Nat
        BY <2>1, LenProperties
    <2>3. m \in Nat /\ m \in 1 .. Len(Messages[e])
        BY <1>3, <2>1, <2>2
    <2> HIDE DEF m
    <2>4. QED
        BY <2>1, <2>3, ElementOfSeq
<1> HIDE DEF m, len
<1>5. q \in Seq(SegmentData)
    BY <1>1, <1>4, FragmentsIs, BlockTypes, ConcatIs
<1> HIDE DEF q, k
<1>6. /\ r \in ControlBlock /\ SameReceiver(k, r) /\ r.acklist = k.acklist
      /\ r.snd_una = k.snd_una /\ r.snd_nxt = k.snd_nxt /\ r.snd_buf = k.snd_buf
    BY <1>1, <1>5 DEF ControlBlock, SameReceiver
<1> HIDE DEF r
<1>7. /\ SenderOK(r) /\ UnaIs(r) /\ ReceiverOK(r)
      /\ \A n : Has(r, n) <=> Has(k, n)
      /\ \A n : Keeps(r, n) <=> Keeps(k, n)
    BY <1>1, <1>6 DEF SameReceiver, SenderOK, UnaIs, ReceiverOK, Has, Keeps
<1>8. Listed(r) /\ WellFormed(r)
    BY <1>1, <1>6, <1>7, WellFormedIs DEF Listed
<1>9. Met(r, kcp[Peer(e)]) /\ Met(kcp[Peer(e)], r)
    BY <1>1, <1>6, <1>7, MetLater
<1>10. Grows(k, r)
    <2>1. k.snd_nxt \in Nat
        BY <1>1, BlockTypes
    <2>2. QED
        BY <1>6, <1>7, <1>8, <2>1 DEF Grows
<1>11. sent' \in [End -> Nat]
    BY <1>2, <1>3, <1>4
<1>12. \A f \in End : \A d \in net'[f] : d \in net[f]
    BY <1>3
<1>13. \A f \in End : input'[f].rest = input[f].rest
    BY <1>3
<1>14. QED
    BY <1>2, <1>3, <1>9, <1>10, <1>11, <1>12, <1>13, WireStep DEF k

LEMMA RecvStep ==
    ASSUME Wire, NEW e \in End, Recv(e)
    PROVE  Wire'
<1> DEFINE k == kcp[e]
           n == Merged(k)
           message == [i \in 1 .. n |-> [msg |-> k.rcv_queue[i].data.msg,
                                         frg |-> k.rcv_queue[i].data.frg]]
           r == Drained(k, n)
<1>1. /\ k \in ControlBlock /\ kcp \in [End -> ControlBlock] /\ SenderOK(k) /\ ReceiverOK(k)
      /\ Len(k.acklist) <= MaxAcks /\ UnaIs(k) /\ Listed(k)
      /\ Met(k, kcp[Peer(e)]) /\ Met(kcp[Peer(e)], k)
    BY WireParts
<1>2. /\ sent \in [End -> Nat] /\ got \in [End -> Seq(Seq([msg : Nat, frg : Nat]))]
      /\ net \in [End -> SUBSET (Seq(Segment) \ {<<>>})]
      /\ input \in [End -> [rest : Seq(Segment), maxack : Int]]
      /\ faults \in 0 .. MaxFaults
    BY DEF Wire, TypeOK
<1>3. /\ Peek(k) > 0
      /\ kcp' = [kcp EXCEPT ![e] = r]
      /\ got' = [got EXCEPT ![e] = Append(got[e], message)]
      /\ sent' = sent /\ net' = net /\ input' = input /\ faults' = faults
    BY DEF Recv
<1>4. n \in 1 .. Len(k.rcv_queue)
    <2>1. k.rcv_queue # <<>>
        BY <1>3 DEF Peek
    <2>2. QED
        BY <1>1, <2>1, MergedIs
<1> HIDE DEF n, k
<1>5. message \in Seq([msg : Nat, frg : Nat])
    <2>1. Len(k.rcv_queue) \in Nat /\ n \in Nat /\ \A i \in 1 .. n : i \in 1 .. Len(k.rcv_queue)
        BY <1>1, <1>4, BlockTypes
    <2>2. \A i \in 1 .. n : k.rcv_queue[i] \in Incoming
        BY <1>1, <2>1, BlockTypes, ElementOfSeq
    <2>3. \A i \in 1 .. n : k.rcv_queue[i].data.msg \in Nat /\ k.rcv_queue[i].data.frg \in Nat
        BY <2>2 DEF Incoming, SegmentData
    <2> DEFINE piece(i) == [msg |-> k.rcv_queue[i].data.msg, frg |-> k.rcv_queue[i].data.frg]
    <2>4. \A i \in 1 .. n : piece(i) \in [msg : Nat, frg : Nat]
        BY <2>3
    <2>5. message = [i \in 1 .. n |-> piece(i)]
        OBVIOUS
    <2> HIDE DEF piece, message
    <2>6. QED
        BY <2>1, <2>4, <2>5
<1> HIDE DEF message
<1>6. got' \in [End -> Seq(Seq([msg : Nat, frg : Nat]))]
    <2>1. Append(got[e], message) \in Seq(Seq([msg : Nat, frg : Nat]))
        BY <1>2, <1>5, AppendIsLonger
    <2>2. QED
        BY <1>2, <1>3, <2>1
<1>7. /\ r \in ControlBlock /\ SameSender(k, r) /\ r.acklist = k.acklist /\ ReceiverOK(r)
      /\ \A sn \in Nat : Has(r, sn) <=> Has(k, sn)
    BY <1>1, <1>4, DrainedIs
<1> HIDE DEF r
<1>8. SenderOK(r) /\ UnaIs(r) /\ r.snd_nxt = k.snd_nxt /\ \A sn : Keeps(r, sn) <=> Keeps(k, sn)
    BY <1>1, <1>7 DEF SameSender, SenderOK, UnaIs, Keeps
<1>9. Listed(r)
    <2>1. \A i \in 1 .. Len(k.acklist) : k.acklist[i] \in Nat
        BY <1>1, BlockTypes, ElementOfSeq
    <2>2. QED
        BY <1>1, <1>7, <2>1 DEF Listed
<1>10. WellFormed(r)
    BY <1>1, <1>7, <1>8, WellFormedIs
<1>11. Met(r, kcp[Peer(e)]) /\ Met(kcp[Peer(e)], r)
    BY <1>1, <1>7, <1>8, MetLater
<1>12. Grows(k, r)
    <2>1. k.snd_nxt \in Nat
        BY <1>1, BlockTypes
    <2>2. QED
        BY <1>7, <1>8, <1>9, <1>10, <2>1 DEF Grows
<1>13. \A f \in End : \A d \in net'[f] : d \in net[f]
    BY <1>3
<1>14. \A f \in End : input'[f].rest = input[f].rest
    BY <1>3
<1>15. QED
    BY <1>2, <1>3, <1>6, <1>11, <1>12, <1>13, <1>14, WireStep DEF k

\* One segment of a datagram: what the end forgets the peer has, and what it
\* takes in the peer has numbered.
LEMMA HeardMeets ==
    ASSUME NEW k \in ControlBlock, NEW q \in ControlBlock, Met(k, q), Met(q, k),
           NEW seg \in Segment, Told(q, seg), NEW r,
           Heard(k, r, {n \in Nat : n < seg.una} \cup (IF seg.cmd = "ack" THEN {seg.sn} ELSE {}),
                 IF seg.cmd = "push" THEN {seg.sn} ELSE {})
    PROVE  Met(r, q) /\ Met(q, r)
<1> DEFINE gone == {n \in Nat : n < seg.una} \cup (IF seg.cmd = "ack" THEN {seg.sn} ELSE {})
           taken == IF seg.cmd = "push" THEN {seg.sn} ELSE {}
<1>1. \A n \in gone : Has(q, n)
    BY DEF Told
<1>2. \A n \in taken : n < q.snd_nxt
    BY DEF Told
<1>3. Heard(k, r, gone, taken)
    OBVIOUS
<1> HIDE DEF gone, taken
<1>4. /\ r.snd_nxt = k.snd_nxt
      /\ \A n \in Nat \ gone : Keeps(k, n) => Keeps(r, n)
      /\ \A n \in Nat : Has(k, n) => Has(r, n)
      /\ \A n \in Nat \ taken : Has(r, n) => Has(k, n)
    BY <1>3 DEF Heard
<1>5. ASSUME NEW n \in Nat, n < r.snd_nxt PROVE Keeps(r, n) \/ Has(q, n)
    <2>1. CASE n \in gone
        BY <1>1, <2>1
    <2>2. CASE n \notin gone
        BY <1>4, <1>5, <2>2 DEF Met
    <2>3. QED
        BY <2>1, <2>2
<1>6. ASSUME NEW n \in Nat, Has(r, n) PROVE n < q.snd_nxt
    <2>1. CASE n \in taken
        BY <1>2, <2>1
    <2>2. CASE n \notin taken
        BY <1>4, <1>6, <2>2 DEF Met
    <2>3. QED
        BY <2>1, <2>2
<1>7. Met(r, q)
    BY <1>4, <1>5 DEF Met
<1>8. Met(q, r)
    BY <1>4, <1>6 DEF Met
<1>9. QED
    BY <1>7, <1>8

LEMMA HeadTail ==
    ASSUME NEW S, NEW s \in Seq(S), s # <<>>
    PROVE  /\ Head(s) \in S /\ Head(s) = s[1] /\ 1 \in 1 .. Len(s)
           /\ Tail(s) \in Seq(S) /\ Len(Tail(s)) = Len(s) - 1 /\ Len(s) \in Nat
           /\ \A i \in 1 .. Len(s) - 1 : Tail(s)[i] = s[i + 1]
BY HeadTailProperties, LenProperties, EmptySeq

\* The control block one round of ikcp_input leaves.
LEMMA RoundIs ==
    ASSUME Wire, NEW e \in End, NEW segs \in Seq(Segment), segs # <<>>,
           AllTold(kcp[Peer(e)], segs), NEW maxack \in Int, Round(e, segs, maxack)
    PROVE  /\ \E r : /\ Grows(kcp[e], r) /\ Met(r, kcp[Peer(e)]) /\ Met(kcp[Peer(e)], r)
                     /\ kcp' = [kcp EXCEPT ![e] = r]
           /\ input' \in [End -> [rest : Seq(Segment), maxack : Int]]
           /\ \A f \in End : \/ input'[f].rest = input[f].rest
                             \/ AllTold(kcp[Peer(f)], input'[f].rest)
           /\ sent' = sent /\ got' = got
<1> DEFINE k == kcp[e]
           q == kcp[Peer(e)]
           seg == Head(segs)
           rest == Tail(segs)
           j == InputSegment(k, seg)
           high == IF Head(segs).cmd = "ack" /\ Head(segs).sn > maxack
                   THEN Head(segs).sn ELSE maxack
           gone == {n \in Nat : n < seg.una} \cup (IF seg.cmd = "ack" THEN {seg.sn} ELSE {})
           taken == IF seg.cmd = "push" THEN {seg.sn} ELSE {}
<1>1. /\ k \in ControlBlock /\ kcp \in [End -> ControlBlock] /\ WellFormed(k)
      /\ SenderOK(k) /\ ReceiverOK(k) /\ UnaIs(k) /\ Listed(k)
      /\ q \in ControlBlock /\ Met(k, q) /\ Met(q, k)
    BY WireParts
<1>2. input \in [End -> [rest : Seq(Segment), maxack : Int]]
    BY DEF Wire, TypeOK
<1>3. /\ seg \in Segment /\ seg = segs[1] /\ 1 \in 1 .. Len(segs)
      /\ rest \in Seq(Segment) /\ Len(rest) = Len(segs) - 1 /\ Len(segs) \in Nat
      /\ \A i \in 1 .. Len(segs) - 1 : rest[i] = segs[i + 1]
    BY HeadTail
<1>4. /\ Len(k.acklist) < MaxAcks /\ sent' = sent /\ got' = got
      /\ \/ /\ kcp' = [kcp EXCEPT ![e] = ParseFastack(j, high)]
            /\ input' = [input EXCEPT ![e] = NoInput]
         \/ /\ kcp' = [kcp EXCEPT ![e] = j]
            /\ input' = [input EXCEPT ![e] = [rest |-> rest, maxack |-> high]]
    BY DEF Round
<1>5. high \in Int
    BY <1>3 DEF Segment
<1>6. Told(q, seg)
    BY <1>3 DEF AllTold
<1>7. AllTold(q, rest)
    <2>1. ASSUME NEW i \in 1 .. Len(rest) PROVE Told(q, rest[i])
        <3>1. i \in 1 .. Len(segs) - 1 /\ i + 1 \in 1 .. Len(segs)
            BY <1>3
        <3>2. rest[i] = segs[i + 1]
            BY <1>3, <3>1
        <3>3. QED
            BY <3>1, <3>2 DEF AllTold
    <2>2. QED
        BY <1>3, <2>1 DEF AllTold
<1>8. Heard(k, j, gone, taken)
    BY <1>1, <1>3, InputSegmentIs
<1>9. Met(j, q) /\ Met(q, j)
    BY <1>1, <1>3, <1>6, <1>8, HeardMeets
<1> HIDE DEF gone, taken, j, k, q, seg, rest, high
<1>10. /\ j \in ControlBlock /\ SenderOK(j) /\ UnaIs(j) /\ ReceiverOK(j) /\ Listed(j)
       /\ j.snd_nxt = k.snd_nxt /\ Len(j.acklist) <= MaxAcks
       /\ \A n \in Nat : Has(k, n) => Has(j, n)
    <2>1. /\ j \in ControlBlock /\ SenderOK(j) /\ UnaIs(j) /\ ReceiverOK(j) /\ Listed(j)
          /\ j.snd_nxt = k.snd_nxt /\ Len(j.acklist) <= Len(k.acklist) + 1
          /\ \A n \in Nat : Has(k, n) => Has(j, n)
        BY <1>8 DEF Heard
    <2>2. Len(j.acklist) \in Nat /\ Len(k.acklist) \in Nat /\ MaxAcks \in Nat
        BY <1>1, <2>1, BlockTypes
    <2>3. Len(j.acklist) <= MaxAcks
        BY <1>4, <2>1, <2>2
    <2>4. QED
        BY <2>1, <2>3
<1>11. k.snd_nxt \in Nat
    BY <1>1, BlockTypes
<1>12. Grows(k, j)
    BY <1>10, <1>11, WellFormedIs DEF Grows
<1> DEFINE r == ParseFastack(j, high)
<1>13. Relieved(j, r, {}) /\ UnaIs(r)
    BY <1>10, ParseFastackIs
<1> HIDE DEF r
<1>14. /\ r \in ControlBlock /\ SameReceiver(j, r) /\ r.acklist = j.acklist
       /\ r.snd_nxt = j.snd_nxt
    BY <1>13 DEF Relieved
<1>15. SenderOK(r) /\ \A n \in Nat : Keeps(j, n) => Keeps(r, n)
    <2>1. SenderOK(r) /\ \A n \in Nat \ {} : Keeps(j, n) => Keeps(r, n)
        BY <1>10, <1>13, RelievedKeeps
    <2>2. QED
        BY <2>1
<1>16. ReceiverOK(r) /\ Listed(r) /\ \A n : Has(r, n) <=> Has(j, n)
    <2>1. \A n : Has(r, n) <=> Has(j, n)
        BY <1>14 DEF SameReceiver, Has
    <2>2. QED
        BY <1>10, <1>14, <2>1 DEF SameReceiver, ReceiverOK, Listed
<1>17. Grows(k, r)
    BY <1>10, <1>11, <1>13, <1>14, <1>15, <1>16, WellFormedIs DEF Grows
<1>18. Met(r, q) /\ Met(q, r)
    BY <1>9, <1>14, <1>15, <1>16, MetLater
<1>19. \E b : /\ Grows(k, b) /\ Met(b, q) /\ Met(q, b)
              /\ kcp' = [kcp EXCEPT ![e] = b]
    BY <1>4, <1>9, <1>12, <1>17, <1>18 DEF r
<1>20. AllTold(q, <<>>)
    <2>1. <<>> \in Seq(Segment) /\ \A i \in 1 .. Len(<<>>) : FALSE
        OBVIOUS
    <2>2. QED
        BY <2>1 DEF AllTold
<1>21. PICK w \in [rest : Seq(Segment), maxack : Int] :
           input' = [input EXCEPT ![e] = w] /\ AllTold(q, w.rest)
    <2>1. NoInput \in [rest : Seq(Segment), maxack : Int] /\ NoInput.rest = <<>>
        BY DEF NoInput
    <2>2. [rest |-> rest, maxack |-> high] \in [rest : Seq(Segment), maxack : Int]
        BY <1>3, <1>5
    <2>3. CASE input' = [input EXCEPT ![e] = NoInput]
        BY <1>20, <2>1, <2>3
    <2>4. CASE input' = [input EXCEPT ![e] = [rest |-> rest, maxack |-> high]]
        BY <1>7, <2>2, <2>4
    <2>5. QED
        BY <1>4, <2>3, <2>4
<1>22. input' \in [End -> [rest : Seq(Segment), maxack : Int]]
    BY <1>2, <1>21
<1>23. ASSUME NEW f \in End
       PROVE  input'[f].rest = input[f].rest \/ AllTold(kcp[Peer(f)], input'[f].rest)
    <2>1. CASE f = e
        BY <1>2, <1>21, <2>1 DEF q
    <2>2. CASE f # e
        BY <1>2, <1>21, <2>2
    <2>3. QED
        BY <2>1, <2>2
<1>24. QED
    BY <1>4, <1>19, <1>22, <1>23 DEF k, q

LEMMA InputStep ==
    ASSUME Wire, NEW e \in End, Input(e)
    PROVE  Wire'
<1>1. /\ sent \in [End -> Nat] /\ got \in [End -> Seq(Seq([msg : Nat, frg : Nat]))]
      /\ net \in [End -> SUBSET (Seq(Segment) \ {<<>>})]
      /\ input \in [End -> [rest : Seq(Segment), maxack : Int]]
      /\ faults \in 0 .. MaxFaults /\ MaxFaults \in Nat
    BY DEF Wire, TypeOK
<1>2. PICK segs \in Seq(Segment) \ {<<>>}, maxack \in Int :
          AllTold(kcp[Peer(e)], segs) /\ Round(e, segs, maxack)
    <2>1. CASE input[e].rest = <<>>
        <3>1. PICK d \in net[e] : Round(e, d, -1)
            BY <2>1 DEF Input
        <3>2. d \in Seq(Segment) \ {<<>>} /\ AllTold(kcp[Peer(e)], d) /\ -1 \in Int
            BY <1>1, <3>1 DEF Wire
        <3>3. QED
            BY <3>1, <3>2
    <2>2. CASE input[e].rest # <<>>
        <3>1. Round(e, input[e].rest, input[e].maxack)
            BY <2>2 DEF Input
        <3>2. /\ input[e].rest \in Seq(Segment) /\ input[e].maxack \in Int
              /\ AllTold(kcp[Peer(e)], input[e].rest)
            BY <1>1 DEF Wire
        <3>3. QED
            BY <2>2, <3>1, <3>2
    <2>3. QED
        BY <2>1, <2>2
<1>3. PICK r : /\ Grows(kcp[e], r) /\ Met(r, kcp[Peer(e)]) /\ Met(kcp[Peer(e)], r)
               /\ kcp' = [kcp EXCEPT ![e] = r]
    BY <1>2, RoundIs
<1>4. /\ input' \in [End -> [rest : Seq(Segment), maxack : Int]]
      /\ \A f \in End : \/ input'[f].rest = input[f].rest
                        \/ AllTold(kcp[Peer(f)], input'[f].rest)
      /\ sent' = sent /\ got' = got
    BY <1>2, RoundIs
<1>5. /\ net' \in [End -> SUBSET (Seq(Segment) \ {<<>>})]
      /\ \A f \in End : \A d \in net'[f] : d \in net[f]
      /\ faults' \in 0 .. MaxFaults
    <2>1. \/ net' = net /\ faults' = faults
          \/ faults < MaxFaults /\ faults' = faults + 1 /\ net' = net
          \/ \E d : net' = [net EXCEPT ![e] = net[e] \ {d}] /\ faults' = faults
        BY DEF Input
    <2>2. CASE net' = net /\ faults' = faults
        BY <1>1, <2>2
    <2>3. CASE faults < MaxFaults /\ faults' = faults + 1 /\ net' = net
        <3>1. faults' \in 0 .. MaxFaults
            BY <1>1, <2>3
        <3>2. QED
            BY <1>1, <2>3, <3>1
    <2>4. ASSUME NEW d, net' = [net EXCEPT ![e] = net[e] \ {d}], faults' = faults
          PROVE  /\ net' \in [End -> SUBSET (Seq(Segment) \ {<<>>})]
                 /\ \A f \in End : \A x \in net'[f] : x \in net[f]
                 /\ faults' \in 0 .. MaxFaults
        BY <1>1, <2>4
    <2>5. QED
        BY <2>1, <2>2, <2>3, <2>4
<1>6. QED
    BY <1>1, <1>3, <1>4, <1>5, WireStep

LEMMA LoseStep ==
    ASSUME Wire, NEW e \in End, Lose(e)
    PROVE  Wire'
<1>1. PICK d : /\ net' = [net EXCEPT ![e] = net[e] \ {d}]
               /\ faults < MaxFaults /\ faults' = faults + 1
               /\ kcp' = kcp /\ sent' = sent /\ got' = got /\ input' = input
    BY DEF Lose
<1>2. /\ net \in [End -> SUBSET (Seq(Segment) \ {<<>>})]
      /\ faults \in 0 .. MaxFaults /\ MaxFaults \in Nat
    BY DEF Wire, TypeOK
<1>3. /\ net' \in [End -> SUBSET (Seq(Segment) \ {<<>>})]
      /\ \A f \in End : \A x \in net'[f] : x \in net[f]
      /\ faults' \in 0 .. MaxFaults
    BY <1>1, <1>2
<1>4. TypeOK'
    BY <1>1, <1>3 DEF Wire, TypeOK
<1>5. QED
    BY <1>1, <1>3, <1>4 DEF Wire

\* The control block and the segments of one ikcp_flush.
LEMMA FlushIs ==
    ASSUME NEW k \in ControlBlock, SenderOK(k), ReceiverOK(k), UnaIs(k), Listed(k),
           NEW q \in ControlBlock, Met(k, q), Met(q, k), NEW late, NEW asking
    PROVE  LET probing == Probe(k, asking)
               full == Admit([probing EXCEPT !.acklist = <<>>, !.probe = {}])
               r == Resend(full, late)
           IN  /\ Grows(k, r) /\ Met(r, q) /\ Met(q, r)
               /\ AllTold(r, Controls(probing) \o Pushes(full, late))
<1> DEFINE a == Probe(k, asking)
           b == [a EXCEPT !.acklist = <<>>, !.probe = {}]
           c == Admit(b)
           r == Resend(c, late)
<1>1. a \in ControlBlock /\ SameSender(k, a) /\ SameReceiver(k, a) /\ a.acklist = k.acklist
    BY ProbeIs
<1> HIDE DEF a
<1>2. b \in ControlBlock /\ SameSender(a, b) /\ SameReceiver(a, b) /\ b.acklist = <<>>
    BY <1>1, ForgetIs
<1> HIDE DEF b
<1>3. SenderOK(b) /\ UnaIs(b) /\ b.snd_nxt = k.snd_nxt
    BY <1>1, <1>2 DEF SameSender, SenderOK, UnaIs
<1>4. PICK n \in Nat : Admits(b, c, n)
    BY <1>2, AdmitIs
<1> HIDE DEF c
<1>5. c \in ControlBlock /\ SameReceiver(b, c) /\ c.acklist = <<>> /\ c.snd_nxt \in Nat
    BY <1>2, <1>4, BlockTypes DEF Admits
<1>6. /\ SenderOK(c) /\ UnaIs(c) /\ b.snd_nxt <= c.snd_nxt
      /\ \A sn \in Nat : /\ Keeps(b, sn) => Keeps(c, sn)
                         /\ b.snd_nxt <= sn /\ sn < c.snd_nxt => Keeps(c, sn)
    BY <1>2, <1>3, <1>4, AdmitKeeps
<1>7. Relieved(c, r, {}) /\ UnaIs(r)
    BY <1>5, <1>6, ResendIs
<1> HIDE DEF r
<1>8. /\ r \in ControlBlock /\ SameReceiver(c, r) /\ r.acklist = <<>> /\ r.snd_nxt = c.snd_nxt
    BY <1>5, <1>7 DEF Relieved
<1>9. SenderOK(r) /\ \A sn \in Nat : Keeps(c, sn) => Keeps(r, sn)
    <2>1. SenderOK(r) /\ \A sn \in Nat \ {} : Keeps(c, sn) => Keeps(r, sn)
        BY <1>5, <1>6, <1>7, RelievedKeeps
    <2>2. QED
        BY <2>1
<1>10. SameReceiver(k, a) /\ SameReceiver(k, c) /\ SameReceiver(k, r)
    BY <1>1, <1>2, <1>5, <1>8 DEF SameReceiver
<1>11. /\ \A sn : Has(a, sn) <=> Has(k, sn)
       /\ \A sn : Has(r, sn) <=> Has(k, sn)
    BY <1>10 DEF SameReceiver, Has
<1>12. ReceiverOK(r)
    BY <1>10 DEF SameReceiver, ReceiverOK
<1>13. Listed(a)
    BY <1>1, <1>11 DEF Listed
<1>14. Listed(r) /\ Len(r.acklist) <= MaxAcks
    <2>1. Len(r.acklist) = 0 /\ MaxAcks \in Nat
        BY <1>8
    <2>2. QED
        BY <2>1 DEF Listed
<1>15. k.snd_nxt \in Nat /\ k.snd_nxt <= r.snd_nxt /\ r.snd_nxt \in Nat
    BY <1>3, <1>5, <1>6, <1>8, BlockTypes
<1>16. WellFormed(r)
    BY <1>7, <1>8, <1>9, <1>12, <1>14, WellFormedIs
<1>17. Grows(k, r)
    BY <1>7, <1>8, <1>11, <1>14, <1>15, <1>16 DEF Grows
<1>18. \A sn : Keeps(b, sn) <=> Keeps(k, sn)
    BY <1>1, <1>2 DEF SameSender, Keeps
<1>19. Met(r, q)
    <2>1. ASSUME NEW sn \in Nat, sn < r.snd_nxt PROVE Keeps(r, sn) \/ Has(q, sn)
        <3>1. CASE sn < k.snd_nxt
            BY <1>6, <1>9, <1>18, <3>1 DEF Met
        <3>2. CASE ~ (sn < k.snd_nxt)
            BY <1>3, <1>6, <1>8, <1>9, <1>15, <2>1, <3>2
        <3>3. QED
            BY <3>1, <3>2
    <2>2. ASSUME NEW sn \in Nat, Has(q, sn) PROVE sn < r.snd_nxt
        <3>1. sn < k.snd_nxt
            BY <2>2 DEF Met
        <3>2. QED
            BY <1>15, <3>1
    <2>3. QED
        BY <2>1, <2>2 DEF Met
<1>20. Met(q, r)
    BY <1>11, MetLater
<1>21. AllTold(r, Controls(a))
    <2>1. AllTold(a, Controls(a))
        BY <1>1, <1>13, ControlsTold
    <2>2. a.snd_nxt <= r.snd_nxt /\ \A sn \in Nat : Has(a, sn) => Has(r, sn)
        BY <1>1, <1>11, <1>15 DEF SameSender
    <2> DEFINE segs == Controls(a)
    <2> HIDE DEF segs
    <2>3. QED
        BY <1>1, <1>8, <2>1, <2>2, ToldLater DEF segs
<1>22. AllTold(r, Pushes(c, late))
    <2>1. AllTold(c, Pushes(c, late))
        BY <1>5, <1>6, PushesTold
    <2>2. c.snd_nxt <= r.snd_nxt /\ \A sn \in Nat : Has(c, sn) => Has(r, sn)
        BY <1>5, <1>8 DEF SameReceiver, Has
    <2>3. QED
        BY <1>5, <1>8, <2>1, <2>2, ToldLater
<1>23. AllTold(r, Controls(a) \o Pushes(c, late))
    BY <1>21, <1>22, ToldTogether
<1>24. QED
    BY <1>17, <1>19, <1>20, <1>23 DEF r, c, b, a

LEMMA UpdateStep ==
    ASSUME Wire, NEW e \in End, Update(e)
    PROVE  Wire'
<1> DEFINE k == kcp[e]
           p == Peer(e)
<1>1. /\ k \in ControlBlock /\ kcp \in [End -> ControlBlock]
      /\ SenderOK(k) /\ ReceiverOK(k) /\ UnaIs(k) /\ Listed(k)
      /\ kcp[p] \in ControlBlock /\ Met(k, kcp[p]) /\ Met(kcp[p], k) /\ p \in End
    BY WireParts
<1>2. /\ sent \in [End -> Nat] /\ got \in [End -> Seq(Seq([msg : Nat, frg : Nat]))]
      /\ net \in [End -> SUBSET (Seq(Segment) \ {<<>>})]
      /\ input \in [End -> [rest : Seq(Segment), maxack : Int]]
      /\ faults \in 0 .. MaxFaults /\ MaxFaults \in Nat
    BY DEF Wire, TypeOK
<1>3. /\ \E late, asking : Flush(e, late, asking)
      /\ faults' = faults \/ (faults < MaxFaults /\ faults' = faults + 1)
    <2>1. CASE Flush(e, {}, FALSE) /\ UNCHANGED faults
        BY <2>1
    <2>2. ASSUME NEW late \in SUBSET OnTheWay(e), NEW asking \in BOOLEAN,
                 \/ Quiet /\ UNCHANGED faults
                 \/ ~ Quiet /\ faults < MaxFaults /\ faults' = faults + 1,
                 Flush(e, late, asking)
          PROVE  /\ \E l, a : Flush(e, l, a)
                 /\ faults' = faults \/ (faults < MaxFaults /\ faults' = faults + 1)
        BY <2>2
    <2>3. QED
        BY <2>1, <2>2 DEF Update
<1>4. PICK late, asking : Flush(e, late, asking)
    BY <1>3
<1> DEFINE probing == Probe(k, asking)
           full == Admit([probing EXCEPT !.acklist = <<>>, !.probe = {}])
           segments == Controls(probing) \o Pushes(full, late)
           r == Resend(full, late)
<1>5. /\ kcp' = [kcp EXCEPT ![e] = r]
      /\ net' = [net EXCEPT ![p] = Carry(net[p], segments)]
      /\ sent' = sent /\ got' = got /\ input' = input
    BY <1>4 DEF Flush
<1>6. Grows(k, r) /\ Met(r, kcp[p]) /\ Met(kcp[p], r) /\ AllTold(r, segments)
    BY <1>1, FlushIs
<1> HIDE DEF segments, r, k, p
<1>7. \A d \in Carry(net[p], segments) : d \in net[p] \/ (d # <<>> /\ AllTold(r, d))
    BY <1>6, CarryTold
<1>8. Carry(net[p], segments) \in SUBSET (Seq(Segment) \ {<<>>})
    <2>1. net[p] \in SUBSET (Seq(Segment) \ {<<>>})
        BY <1>1, <1>2
    <2>2. \A d : AllTold(r, d) => d \in Seq(Segment)
        BY DEF AllTold
    <2>3. QED
        BY <1>7, <2>1, <2>2
<1>9. net' \in [End -> SUBSET (Seq(Segment) \ {<<>>})]
    BY <1>2, <1>5, <1>8
<1>10. \A f \in End : \A d \in net'[f] : d \in net[f] \/ (f = p /\ AllTold(r, d))
    BY <1>2, <1>5, <1>7
<1>11. \A f \in End : input'[f].rest = input[f].rest
    BY <1>5
<1>12. faults' \in 0 .. MaxFaults
    BY <1>2, <1>3
<1>13. QED
    BY <1>2, <1>5, <1>6, <1>9, <1>10, <1>11, <1>12, WireStep DEF k, p

-----------------------------------------------------------------------------
LEMMA WireInit == Init => Wire
<1> SUFFICES ASSUME Init PROVE Wire
    OBVIOUS
<1>1. /\ kcp = [e \in End |-> Created] /\ sent = [e \in End |-> 0]
      /\ got = [e \in End |-> <<>>] /\ net = [e \in End |-> {}]
      /\ input = [e \in End |-> NoInput] /\ faults = 0
    BY DEF Init
<1> DEFINE k == Created
<1>2. /\ k.snd_una = 0 /\ k.snd_nxt = 0 /\ k.rcv_nxt = 0 /\ k.acklist = <<>>
      /\ k.snd_buf = <<>> /\ k.rcv_buf = <<>> /\ k.rcv_queue = <<>>
    BY DEF Created
<1>3. /\ <<>> \in Seq(Nat) /\ <<>> \in Seq(SegmentData) /\ <<>> \in Seq(Outgoing)
      /\ <<>> \in Seq(Incoming) /\ <<>> \in Seq(Segment)
      /\ <<>> \in Seq(Seq([msg : Nat, frg : Nat])) /\ Len(<<>>) = 0
    OBVIOUS
<1>4. k \in ControlBlock
    BY <1>3 DEF Created, ControlBlock
<1> HIDE DEF k
<1>5. SenderOK(k) /\ UnaIs(k) /\ ReceiverOK(k) /\ Listed(k) /\ Len(k.acklist) <= MaxAcks
    <2>1. Window \in Nat /\ MaxAcks \in Nat
        OBVIOUS
    <2>2. Sorted(<<>>)
        BY DEF Sorted
    <2>3. QED
        BY <1>2, <1>3, <2>1, <2>2 DEF SenderOK, UnaIs, ReceiverOK, Listed
<1>6. WellFormed(k)
    BY <1>4, <1>5, WellFormedIs
<1>7. Met(k, k)
    <2>1. \A n \in Nat : ~ (n < 0)
        OBVIOUS
    <2>2. \A n \in Nat : ~ Has(k, n)
        BY <1>2, <1>3, <2>1 DEF Has
    <2>3. QED
        BY <1>2, <2>1, <2>2 DEF Met
<1>8. AllTold(k, <<>>)
    <2>1. \A i \in 1 .. Len(<<>>) : FALSE
        OBVIOUS
    <2>2. QED
        BY <1>3, <2>1 DEF AllTold
<1>9. \A e \in End : Peer(e) \in End
    BY Peers
<1>10. TypeOK
    <2>1. faults \in 0 .. MaxFaults /\ MaxFaults \in Nat
        BY <1>1
    <2>2. NoInput \in [rest : Seq(Segment), maxack : Int]
        BY <1>3 DEF NoInput
    <2>3. QED
        BY <1>1, <1>3, <1>4, <1>6, <2>1, <2>2 DEF TypeOK, k
<1>11. \A e \in End : kcp[e] = k /\ net[e] = {} /\ input[e].rest = <<>>
    BY <1>1 DEF k, NoInput
<1>12. QED
    BY <1>5, <1>7, <1>8, <1>9, <1>10, <1>11 DEF Wire

\* Every control block is well formed and everything in the network says what
\* its sender knows, in every state.
THEOREM WireHolds == Spec => []Wire
<1>1. Wire /\ [Next]_vars => Wire'
    <2> SUFFICES ASSUME Wire, [Next]_vars PROVE Wire'
        OBVIOUS
    <2>1. CASE UNCHANGED vars
        BY <2>1 DEF vars, Wire, TypeOK
    <2>2. ASSUME NEW e \in End, Send(e) PROVE Wire'
        BY <2>2, SendStep
    <2>3. ASSUME NEW e \in End, Recv(e) PROVE Wire'
        BY <2>3, RecvStep
    <2>4. ASSUME NEW e \in End, Input(e) PROVE Wire'
        BY <2>4, InputStep
    <2>5. ASSUME NEW e \in End, Lose(e) PROVE Wire'
        BY <2>5, LoseStep
    <2>6. ASSUME NEW e \in End, Update(e) PROVE Wire'
        BY <2>6, UpdateStep
    <2>7. QED
        BY <2>1, <2>2, <2>3, <2>4, <2>5, <2>6 DEF Next
<1>2. QED
    BY WireInit, <1>1, PTL DEF Spec

\* Control blocks, datagrams and messages have their types, the buffers are
\* sorted by number and within their windows, whatever arrives in what order.
THEOREM TypesHold == Spec => []TypeOK
<1>1. Wire => TypeOK
    BY DEF Wire
<1>2. QED
    BY WireHolds, <1>1, PTL

\* ikcp_parse_una, ikcp_parse_ack and the buffers never drop the only copy of a
\* segment, however many datagrams are lost, doubled or overtaken.
THEOREM RememberedHolds == Spec => []Remembered
<1>1. ASSUME Wire PROVE Remembered
    <2>1. SUFFICES ASSUME NEW e \in End, NEW sn \in 0 .. kcp[e].snd_nxt - 1
                   PROVE  \/ sn \in Numbers(kcp[e].snd_buf)
                          \/ sn < kcp[Peer(e)].rcv_nxt
                          \/ sn \in Numbers(kcp[Peer(e)].rcv_buf)
        BY DEF Remembered
    <2>2. /\ kcp[e] \in ControlBlock /\ kcp[Peer(e)] \in ControlBlock
          /\ Met(kcp[e], kcp[Peer(e)])
        BY <1>1, WireParts
    <2>3. kcp[e].snd_nxt \in Nat
        BY <2>2, BlockTypes
    <2>4. sn \in Nat /\ sn < kcp[e].snd_nxt
        BY <2>3
    <2>5. Keeps(kcp[e], sn) \/ Has(kcp[Peer(e)], sn)
        BY <2>2, <2>4 DEF Met
    <2>6. /\ DOMAIN kcp[e].snd_buf = 1 .. Len(kcp[e].snd_buf)
          /\ DOMAIN kcp[Peer(e)].rcv_buf = 1 .. Len(kcp[Peer(e)].rcv_buf)
        BY <2>2, BlockTypes
    <2>7. QED
        BY <2>5, <2>6 DEF Keeps, Has, Numbers
<1>2. QED
    BY WireHolds, <1>1, PTL

-----------------------------------------------------------------------------
(* With Messages out of sight the solver copes with sums in sequences.     *)
HIDE KcpAssumption

-----------------------------------------------------------------------------
(* The messages of an end as one sequence of segments.                     *)

\* posts are the segments of n messages of these lengths, starts[m] of them are
\* those of the messages before m.
Divides(lens, posts, starts, n) ==
    /\ posts \in Seq(SegmentData) /\ starts \in Seq(Nat) /\ Len(starts) = n + 1
    /\ starts[1] = 0 /\ starts[n + 1] = Len(posts)
    /\ \A m \in 1 .. n :
          /\ starts[m + 1] = starts[m] + Count(lens[m]) /\ starts[m + 1] <= Len(posts)
          /\ \A j \in 1 .. Count(lens[m]) :
                posts[starts[m] + j] = Fragments(m, lens[m])[j]

LEMMA DividesOneMore ==
    ASSUME NEW lens \in Seq(Nat), NEW n \in Nat, n + 1 \in 1 .. Len(lens),
           NEW posts, NEW starts, Divides(lens, posts, starts, n)
    PROVE  \E p, s : Divides(lens, p, s, n + 1)
<1> DEFINE len == lens[n + 1]
           more == Fragments(n + 1, len)
           p == posts \o more
           x == Len(posts) + Count(len)
           s == Append(starts, x)
<1>1. /\ posts \in Seq(SegmentData) /\ Len(posts) \in Nat /\ starts \in Seq(Nat)
      /\ Len(starts) = n + 1 /\ starts[1] = 0 /\ starts[n + 1] = Len(posts)
      /\ \A m \in 1 .. n + 1 : starts[m] \in Nat
    BY LenProperties, ElementOfSeq DEF Divides
<1>2. /\ len \in Nat /\ Count(len) \in Nat \ {0}
      /\ more \in Seq(SegmentData) /\ Len(more) = Count(len)
    <2>1. lens \in Seq(Nat)
        OBVIOUS
    <2>2. len \in Nat
        BY <2>1, ElementOfSeq
    <2> HIDE DEF len
    <2>3. Count(len) \in Nat \ {0}
        BY <2>2, CountIs
    <2>4. n + 1 \in Nat
        OBVIOUS
    <2>5. more \in Seq(SegmentData) /\ Len(more) = Count(len)
        BY <2>2, <2>4, FragmentsIs
    <2>6. QED
        BY <2>2, <2>3, <2>5
<1> HIDE DEF more
<1>3. p \in Seq(SegmentData) /\ Joined(posts, more, p)
    BY <1>1, <1>2, ConcatIs
<1> HIDE DEF p
<1>4. /\ Len(p) = Len(posts) + Count(len)
      /\ \A i \in 1 .. Len(posts) : p[i] = posts[i]
      /\ \A i \in 1 .. Count(len) : p[Len(posts) + i] = more[i]
    BY <1>2, <1>3 DEF Joined
<1>5. x \in Nat /\ x = Len(p) /\ Len(posts) <= x
    BY <1>1, <1>2, <1>4
<1> HIDE DEF x
<1>6. s \in Seq(Nat) /\ Longer(starts, s, x)
    BY <1>1, <1>5, AppendIsLonger
<1> HIDE DEF s
<1>7. /\ Len(s) = n + 2 /\ s[n + 2] = x /\ \A m \in 1 .. n + 1 : s[m] = starts[m]
    <2>1. Len(s) = Len(starts) + 1 /\ s[Len(starts) + 1] = x /\ \A m \in 1 .. Len(starts) : s[m] = starts[m]
        BY <1>6 DEF Longer
    <2>2. (n + 1) + 1 = n + 2
        OBVIOUS
    <2>3. QED
        BY <1>1, <2>1, <2>2
<1> DEFINE c(m) == Count(lens[m])
           f(m) == Fragments(m, lens[m])
<1>8. \A m \in 1 .. n : /\ starts[m + 1] = starts[m] + c(m) /\ starts[m + 1] <= Len(posts)
                        /\ \A j \in 1 .. c(m) : posts[starts[m] + j] = f(m)[j]
    BY DEF Divides
<1>9. \A m \in 1 .. n : c(m) \in Nat
    <2>1. ASSUME NEW m \in 1 .. n PROVE c(m) \in Nat
        <3>0. lens \in Seq(Nat) /\ Len(lens) \in Nat
            BY LenProperties
        <3>1. m \in 1 .. Len(lens)
            BY <3>0
        <3>2. lens[m] \in Nat
            BY <3>0, <3>1, ElementOfSeq
        <3>3. QED
            BY <3>2, CountIs
    <2>2. QED
        BY <2>1
<1>10. c(n + 1) = Count(len) /\ f(n + 1) = more
    BY DEF more
<1> HIDE DEF c, f, len
<1>11. ASSUME NEW m \in 1 .. n + 1
       PROVE  /\ s[m + 1] = s[m] + c(m) /\ s[m + 1] <= Len(p)
              /\ \A j \in 1 .. c(m) : p[s[m] + j] = f(m)[j]
    <2>1. CASE m \in 1 .. n
        <3>1. m + 1 \in 1 .. n + 1 /\ s[m] = starts[m] /\ s[m + 1] = starts[m + 1]
            BY <1>7, <2>1
        <3>2. starts[m] \in Nat /\ starts[m + 1] \in Nat
            BY <1>1, <3>1
        <3>3. s[m + 1] = s[m] + c(m) /\ s[m + 1] <= Len(p)
            BY <1>1, <1>5, <1>8, <2>1, <3>1, <3>2
        <3>4. PICK d \in Nat : d = c(m)
            BY <1>9, <2>1
        <3>5. starts[m] + d <= Len(posts)
            BY <1>8, <2>1, <3>4
        <3>6. ASSUME NEW j \in 1 .. d PROVE p[s[m] + j] = f(m)[j]
            <4>0. starts[m] \in Nat /\ Len(posts) \in Nat
                BY <1>1, <3>2
            <4>1. PICK x0 \in Nat : x0 = starts[m]
                BY <4>0
            <4>2. PICK l \in Nat : l = Len(posts)
                BY <4>0
            <4>3. x0 + d <= l
                BY <3>5, <4>1, <4>2
            <4>4. x0 + j \in 1 .. l
                BY <4>3
            <4>5. starts[m] + j \in 1 .. Len(posts)
                BY <4>1, <4>2, <4>4
            <4>6. posts[starts[m] + j] = f(m)[j]
                BY <1>8, <2>1, <3>4
            <4>7. p[starts[m] + j] = posts[starts[m] + j]
                BY <1>4, <4>5
            <4>8. QED
                BY <3>1, <4>6, <4>7
        <3>7. QED
            BY <3>3, <3>4, <3>6
    <2>2. CASE m = n + 1
        <3>1. s[m] = Len(posts) /\ s[m + 1] = x /\ m + 1 = n + 2
            BY <1>1, <1>7, <2>2
        <3>2. s[m + 1] = s[m] + c(m) /\ s[m + 1] <= Len(p)
            BY <1>1, <1>4, <1>5, <1>10, <2>2, <3>1
        <3>3. \A j \in 1 .. c(m) : p[s[m] + j] = f(m)[j]
            BY <1>4, <1>10, <2>2, <3>1
        <3>4. QED
            BY <3>2, <3>3
    <2>3. QED
        BY <2>1, <2>2
<1>12. /\ s[1] = 0 /\ s[(n + 1) + 1] = Len(p) /\ Len(s) = (n + 1) + 1
    <2>1. 1 \in 1 .. n + 1 /\ (n + 1) + 1 = n + 2
        OBVIOUS
    <2>2. QED
        BY <1>1, <1>5, <1>7, <2>1
<1>13. Divides(lens, p, s, n + 1)
    BY <1>3, <1>6, <1>11, <1>12 DEF Divides, c, f
<1>14. QED
    BY <1>13

LEMMA DividesAll ==
    ASSUME NEW lens \in Seq(Nat)
    PROVE  \E p, s : Divides(lens, p, s, Len(lens))
<1> DEFINE L == Len(lens)
           G == {n \in 0 .. L : \E p, s : Divides(lens, p, s, n)}
<1>1. L \in Nat
    BY LenProperties
<1>2. 0 \in G
    <2> DEFINE s == <<0>>
    <2>1. /\ <<>> \in Seq(SegmentData) /\ Len(<<>>) = 0
          /\ s \in Seq(Nat) /\ Len(s) = 0 + 1 /\ s[1] = 0 /\ s[0 + 1] = 0
        OBVIOUS
    <2> HIDE DEF s
    <2>2. \A m \in 1 .. 0 : FALSE
        OBVIOUS
    <2>3. Divides(lens, <<>>, s, 0)
        BY <2>1, <2>2 DEF Divides
    <2>4. QED
        BY <1>1, <2>3
<1>3. PICK n \in 0 .. L : n \in G /\ n + 1 \notin G
    BY <1>1, <1>2, Greatest
<1>4. ASSUME n # L PROVE FALSE
    <2>1. n \in Nat /\ n + 1 \in 1 .. L /\ n + 1 \in 0 .. L
        BY <1>1, <1>4
    <2>2. PICK p, s : Divides(lens, p, s, n)
        BY <1>3
    <2>3. \E q, t : Divides(lens, q, t, n + 1)
        BY <2>1, <2>2, DividesOneMore
    <2>4. QED
        BY <1>3, <2>1, <2>3
<1>5. QED
    BY <1>3, <1>4

\* All the segments of the messages of e, and where each message starts.
Plan(e) == CHOOSE plan : Divides(Messages[e], plan[1], plan[2], Len(Messages[e]))
Posts(e) == Plan(e)[1]
Starts(e) == Plan(e)[2]

LEMMA PostsAre ==
    ASSUME NEW e \in End
    PROVE  Divides(Messages[e], Posts(e), Starts(e), Len(Messages[e]))
<1>1. PICK p, s : Divides(Messages[e], p, s, Len(Messages[e]))
    <2>1. Messages[e] \in Seq(Nat)
        BY KcpAssumption
    <2>2. QED
        BY <2>1, DividesAll
<1> DEFINE x == <<p, s>>
<1>2. x[1] = p /\ x[2] = s
    OBVIOUS
<1> HIDE DEF x
<1>3. Divides(Messages[e], x[1], x[2], Len(Messages[e]))
    BY <1>1, <1>2
<1>4. \E plan : Divides(Messages[e], plan[1], plan[2], Len(Messages[e]))
    BY <1>3
<1>5. QED
    BY <1>4 DEF Plan, Posts, Starts

-----------------------------------------------------------------------------
(* Every copy of a segment carries what was posted under its number.       *)

SenderRight(posts, k) ==
    /\ \A i \in 1 .. Len(k.snd_buf) : k.snd_buf[i].data = posts[k.snd_buf[i].sn + 1]
    /\ \A i \in 1 .. Len(k.snd_queue) : k.snd_queue[i] = posts[k.snd_nxt + i]

\* c segments have been read.
ReceiverRight(posts, k, c) ==
    /\ c + Len(k.rcv_queue) = k.rcv_nxt
    /\ \A i \in 1 .. Len(k.rcv_queue) : k.rcv_queue[i].data = posts[c + i]
    /\ \A i \in 1 .. Len(k.rcv_buf) : k.rcv_buf[i].data = posts[k.rcv_buf[i].sn + 1]

AllRight(posts, segs) ==
    \A i \in 1 .. Len(segs) : segs[i].cmd = "push" => segs[i].data = posts[segs[i].sn + 1]

LEMMA MoveRight ==
    ASSUME NEW k \in ControlBlock, NEW r \in ControlBlock, NEW n \in Nat, MoveToQueueBy(k, r, n),
           NEW posts, NEW c \in Nat, ReceiverRight(posts, k, c)
    PROVE  ReceiverRight(posts, r, c)
<1> DEFINE s == k.rcv_buf
           t == r.rcv_buf
           u == k.rcv_queue
           v == r.rcv_queue
           a == k.rcv_nxt
           o == SubSeq(s, 1, n)
<1>1. /\ s \in Seq(Incoming) /\ Len(s) \in Nat /\ Len(u) \in Nat /\ a \in Nat
      /\ n \in 0 .. Len(s) /\ r.rcv_nxt = a + n
      /\ \A i \in 1 .. n : s[i].sn = a + i - 1
    BY BlockTypes DEF MoveToQueueBy
<1>2. /\ Len(t) = Len(s) - n /\ \A i \in 1 .. Len(s) - n : t[i] = s[n + i]
    BY DEF MoveToQueueBy, Cut
<1>3. Len(o) = n /\ \A i \in 1 .. n : o[i] = s[i]
    BY <1>1, FirstOf
<1>4. Joined(u, o, v)
    BY DEF MoveToQueueBy
<1> HIDE DEF o
<1>5. /\ Len(v) = Len(u) + n
      /\ \A i \in 1 .. Len(u) : v[i] = u[i]
      /\ \A i \in 1 .. n : v[Len(u) + i] = s[i]
    BY <1>3, <1>4 DEF Joined
<1>6. /\ c + Len(u) = a
      /\ \A i \in 1 .. Len(u) : u[i].data = posts[c + i]
      /\ \A i \in 1 .. Len(s) : s[i].data = posts[s[i].sn + 1]
    BY DEF ReceiverRight
<1> HIDE DEF s, t, u, v, a
<1>7. ASSUME NEW i \in 1 .. Len(u) + n PROVE v[i].data = posts[c + i]
    <2>1. CASE i \in 1 .. Len(u)
        BY <1>5, <1>6, <2>1
    <2>2. CASE i \notin 1 .. Len(u)
        <3> DEFINE j == i - Len(u)
        <3>0. /\ Len(s) \in Nat /\ Len(u) \in Nat /\ a \in Nat /\ n \in 0 .. Len(s)
              /\ c + Len(u) = a /\ i \in 1 .. Len(u) + n /\ i \notin 1 .. Len(u)
            BY <1>1, <1>6, <2>2
        <3>1. j \in 1 .. n /\ j \in 1 .. Len(s) /\ Len(u) + j = i /\ (a + j - 1) + 1 = c + i
            BY <3>0
        <3> HIDE DEF j
        <3>2. v[i] = s[j] /\ s[j].sn = a + j - 1
            BY <1>1, <1>5, <3>1
        <3>3. s[j].data = posts[(a + j - 1) + 1]
            BY <1>6, <3>1, <3>2
        <3>4. QED
            BY <3>1, <3>2, <3>3
    <2>3. QED
        BY <2>1, <2>2
<1>8. ASSUME NEW i \in 1 .. Len(t) PROVE t[i].data = posts[t[i].sn + 1]
    <2>0. i \in 1 .. Len(s) - n /\ Len(s) \in Nat
        BY <1>1, <1>2
    <2>1. n + i \in 1 .. Len(s)
        BY <2>0
    <2>2. QED
        BY <1>2, <1>6, <2>0, <2>1
<1>9. c + (Len(u) + n) = a + n
    <2>1. Len(u) \in Nat /\ c + Len(u) = a
        BY <1>1, <1>6
    <2>2. QED
        BY <2>1
<1>10. QED
    BY <1>1, <1>5, <1>7, <1>8, <1>9 DEF ReceiverRight, v, t

LEMMA InsertedRight ==
    ASSUME NEW k \in ControlBlock, NEW seg, seg.sn \in Nat, seg.data \in SegmentData,
           ReceiverOK(k), \A i \in 1 .. Len(k.rcv_buf) : k.rcv_buf[i].sn # seg.sn,
           NEW posts, NEW c \in Nat, ReceiverRight(posts, k, c), seg.data = posts[seg.sn + 1]
    PROVE  ReceiverRight(posts, Inserted(k, seg), c)
<1> DEFINE r == Inserted(k, seg)
           p == Place(k, seg.sn)
           s == k.rcv_buf
           t == r.rcv_buf
           x == [sn |-> seg.sn, data |-> seg.data]
<1>1. /\ r.rcv_nxt = k.rcv_nxt /\ r.rcv_queue = k.rcv_queue /\ Wider(s, t, p, x)
    BY InsertedIs DEF ReceiverOK
<1>2. x.sn = seg.sn /\ x.data = seg.data /\ Len(s) \in Nat
    BY BlockTypes
<1>3. \A i \in 1 .. Len(s) : s[i].data = posts[s[i].sn + 1]
    BY DEF ReceiverRight
<1> HIDE DEF r, p, s, t, x
<1>4. /\ p \in 1 .. Len(s) + 1 /\ Len(t) = Len(s) + 1 /\ t[p] = x
      /\ \A i \in 1 .. Len(s) : t[IF i < p THEN i ELSE i + 1] = s[i]
    BY <1>1 DEF Wider
<1>5. ASSUME NEW i \in 1 .. Len(s) + 1 PROVE t[i].data = posts[t[i].sn + 1]
    <2>1. CASE i = p
        BY <1>2, <1>4, <2>1
    <2>2. CASE i < p
        <3>1. i \in 1 .. Len(s)
            BY <1>2, <1>4, <2>2
        <3>2. t[i] = s[i]
            BY <1>4, <2>2, <3>1
        <3>3. QED
            BY <1>3, <3>1, <3>2
    <2>3. CASE p < i
        <3> DEFINE j == i - 1
        <3>1. j \in 1 .. Len(s) /\ ~ (j < p) /\ j + 1 = i
            BY <1>2, <1>4, <2>3
        <3> HIDE DEF j
        <3>2. t[i] = s[j]
            BY <1>4, <3>1
        <3>3. QED
            BY <1>3, <3>1, <3>2
    <2>4. QED
        BY <1>2, <1>4, <2>1, <2>2, <2>3
<1>6. QED
    BY <1>1, <1>4, <1>5 DEF ReceiverRight, r, t

\* What the receiving half depends on and what the sending half does.
LEMMA ReceiverRightSame ==
    ASSUME NEW k, NEW r, SameReceiver(k, r), NEW posts, NEW c, ReceiverRight(posts, k, c)
    PROVE  ReceiverRight(posts, r, c)
BY DEF SameReceiver, ReceiverRight

LEMMA SenderRightSame ==
    ASSUME NEW k, NEW r, SameSender(k, r), NEW posts, SenderRight(posts, k)
    PROVE  SenderRight(posts, r)
BY DEF SameSender, SenderRight

LEMMA RelievedRight ==
    ASSUME NEW k, NEW r, NEW gone, Relieved(k, r, gone), NEW posts, SenderRight(posts, k)
    PROVE  SenderRight(posts, r)
<1>1. /\ r.snd_nxt = k.snd_nxt /\ r.snd_queue = k.snd_queue
      /\ \A i \in 1 .. Len(r.snd_buf) : \E j \in 1 .. Len(k.snd_buf) :
            r.snd_buf[i].sn = k.snd_buf[j].sn /\ r.snd_buf[i].data = k.snd_buf[j].data
    BY DEF Relieved, Lessens
<1>2. /\ \A i \in 1 .. Len(k.snd_buf) : k.snd_buf[i].data = posts[k.snd_buf[i].sn + 1]
      /\ \A i \in 1 .. Len(k.snd_queue) : k.snd_queue[i] = posts[k.snd_nxt + i]
    BY DEF SenderRight
<1>3. ASSUME NEW i \in 1 .. Len(r.snd_buf) PROVE r.snd_buf[i].data = posts[r.snd_buf[i].sn + 1]
    BY <1>1, <1>2
<1>4. QED
    BY <1>1, <1>2, <1>3 DEF SenderRight

LEMMA ParseDataRight ==
    ASSUME NEW k \in ControlBlock, NEW seg, seg.sn \in Nat, seg.data \in SegmentData,
           ReceiverOK(k), NEW posts, NEW c \in Nat, ReceiverRight(posts, k, c),
           seg.data = posts[seg.sn + 1]
    PROVE  ReceiverRight(posts, ParseData(k, seg), c)
<1> DEFINE a == Inserted(k, seg)
           r == ParseData(k, seg)
<1>0. DOMAIN k.rcv_buf = 1 .. Len(k.rcv_buf)
    BY BlockTypes
<1>1. CASE \E i \in DOMAIN k.rcv_buf : k.rcv_buf[i].sn = seg.sn
    <2>1. r = MoveToQueue(k)
        BY <1>1 DEF ParseData
    <2> HIDE DEF r
    <2>2. r \in ControlBlock /\ \E n \in Nat : MoveToQueueBy(k, r, n)
        BY <2>1, MoveToQueueIs
    <2>3. ReceiverRight(posts, r, c)
        BY <2>2, MoveRight
    <2>4. QED
        BY <2>3 DEF r
<1>2. CASE ~ \E i \in DOMAIN k.rcv_buf : k.rcv_buf[i].sn = seg.sn
    <2>1. r = MoveToQueue(a)
        BY <1>2 DEF ParseData
    <2> HIDE DEF r
    <2>2. \A i \in 1 .. Len(k.rcv_buf) : k.rcv_buf[i].sn # seg.sn
        BY <1>0, <1>2
    <2>3. ReceiverRight(posts, a, c)
        BY <2>2, InsertedRight
    <2>4. a \in ControlBlock
        BY <2>2, InsertedIs DEF ReceiverOK
    <2> HIDE DEF a
    <2>5. r \in ControlBlock /\ \E n \in Nat : MoveToQueueBy(a, r, n)
        BY <2>1, <2>4, MoveToQueueIs
    <2>6. ReceiverRight(posts, r, c)
        BY <2>3, <2>4, <2>5, MoveRight
    <2>7. QED
        BY <2>6 DEF r
<1>3. QED
    BY <1>1, <1>2

LEMMA InputPushRight ==
    ASSUME NEW k \in ControlBlock, NEW seg, seg.sn \in Nat, seg.data \in SegmentData,
           ReceiverOK(k), NEW posts, NEW c \in Nat, ReceiverRight(posts, k, c),
           seg.data = posts[seg.sn + 1]
    PROVE  ReceiverRight(posts, InputPush(k, seg), c)
<1> DEFINE a == [k EXCEPT !.acklist = Append(k.acklist, seg.sn)]
           r == InputPush(k, seg)
<1>1. a \in ControlBlock /\ SameReceiver(k, a)
    <2>1. Append(k.acklist, seg.sn) \in Seq(Nat)
        BY BlockTypes, AppendIsLonger
    <2> DEFINE x == Append(k.acklist, seg.sn)
    <2> HIDE DEF x
    <2>2. [k EXCEPT !.acklist = x] \in ControlBlock /\ SameReceiver(k, [k EXCEPT !.acklist = x])
        BY <2>1 DEF ControlBlock, SameReceiver, x
    <2>3. QED
        BY <2>2 DEF x
<1>2. r = k \/ r = a \/ r = ParseData(a, seg)
    BY DEF InputPush, a
<1> HIDE DEF a, r
<1>3. ReceiverOK(a) /\ ReceiverRight(posts, a, c)
    BY <1>1, ReceiverRightSame DEF SameReceiver, ReceiverOK
<1>4. ReceiverRight(posts, ParseData(a, seg), c)
    BY <1>1, <1>3, ParseDataRight
<1>5. ReceiverRight(posts, r, c)
    BY <1>2, <1>3, <1>4
<1>6. QED
    BY <1>5 DEF r

\* One round of ikcp_input, mine being what this end posts and theirs what the
\* other one does.
LEMMA InputSegmentRight ==
    ASSUME NEW k \in ControlBlock, WellFormed(k), Listed(k), NEW seg \in Segment,
           NEW mine, SenderRight(mine, k),
           NEW theirs, NEW c \in Nat, ReceiverRight(theirs, k, c),
           seg.cmd = "push" => seg.data = theirs[seg.sn + 1]
    PROVE  /\ SenderRight(mine, InputSegment(k, seg))
           /\ ReceiverRight(theirs, InputSegment(k, seg), c)
<1> DEFINE a == [k EXCEPT !.rmt_wnd = seg.wnd]
           b == ParseUna(a, seg.una)
           heard == Shrink(b)
           r == InputSegment(k, seg)
<1>0. SenderOK(k) /\ ReceiverOK(k)
    BY WellFormedParts
<1>1. /\ seg.wnd \in Nat /\ seg.una \in Nat /\ seg.sn \in Nat /\ seg.data \in SegmentData
      /\ seg.cmd \in {"ack", "push", "wask", "wins"}
    BY DEF Segment
<1>2. a \in ControlBlock /\ SameReceiver(k, a) /\ SameSender(k, a) /\ a.acklist = k.acklist
    BY <1>1 DEF ControlBlock, SameReceiver, SameSender
<1>3. r = CASE seg.cmd = "ack"  -> Shrink(ParseAck(heard, seg.sn))
            [] seg.cmd = "push" -> InputPush(heard, seg)
            [] seg.cmd = "wask" -> [heard EXCEPT !.probe = heard.probe \cup {"tell"}]
            [] seg.cmd = "wins" -> heard
    BY DEF InputSegment, heard, b, a
<1> HIDE DEF a, r
<1>4. SenderOK(a) /\ SenderRight(mine, a)
    BY <1>0, <1>2, SenderRightSame DEF SameSender, SenderOK
<1>5. Relieved(a, b, {n \in Nat : n < seg.una})
    BY <1>1, <1>2, <1>4, ParseUnaIs
<1> DEFINE below == {n \in Nat : n < seg.una}
<1> HIDE DEF b, below
<1>6. b \in ControlBlock /\ SameReceiver(a, b) /\ SenderOK(b) /\ SenderRight(mine, b)
    BY <1>2, <1>4, <1>5, RelievedKeeps, RelievedRight DEF Relieved, below
<1>7. Relieved(b, heard, {})
    BY <1>6, ShrinkIs
<1> HIDE DEF heard
<1>8. heard \in ControlBlock /\ SameReceiver(b, heard) /\ SenderOK(heard) /\ SenderRight(mine, heard)
    BY <1>6, <1>7, RelievedKeeps, RelievedRight DEF Relieved
<1>9. SameReceiver(k, heard) /\ heard.acklist = k.acklist
    BY <1>2, <1>5, <1>6, <1>7, <1>8 DEF SameReceiver, Relieved
<1>10. ReceiverOK(heard) /\ Listed(heard) /\ ReceiverRight(theirs, heard, c)
    <2>1. \A n : Has(heard, n) <=> Has(k, n)
        BY <1>9 DEF SameReceiver, Has
    <2>2. QED
        BY <1>0, <1>9, <2>1, ReceiverRightSame DEF SameReceiver, ReceiverOK, Listed
<1>11. CASE seg.cmd = "ack"
    <2> DEFINE d == ParseAck(heard, seg.sn)
    <2>1. r = Shrink(d)
        BY <1>3, <1>11
    <2>2. Relieved(heard, d, {seg.sn}) /\ d \in ControlBlock
        BY <1>1, <1>8, ParseAckIs DEF Relieved
    <2> HIDE DEF d
    <2>3. SenderOK(d) /\ SenderRight(mine, d) /\ SameReceiver(heard, d)
        BY <1>8, <2>2, RelievedKeeps, RelievedRight DEF Relieved
    <2>4. Relieved(d, r, {})
        BY <2>1, <2>2, <2>3, ShrinkIs
    <2>5. SenderRight(mine, r) /\ SameReceiver(d, r)
        BY <2>3, <2>4, RelievedRight DEF Relieved
    <2>6. ReceiverRight(theirs, r, c)
        BY <1>10, <2>3, <2>5, ReceiverRightSame
    <2>7. QED
        BY <2>5, <2>6 DEF r
<1>12. CASE seg.cmd = "push"
    <2>1. r = InputPush(heard, seg)
        BY <1>3, <1>12
    <2>2. ReceiverRight(theirs, r, c)
        BY <1>1, <1>8, <1>10, <1>12, <2>1, InputPushRight
    <2>3. SameSender(heard, r)
        BY <1>1, <1>8, <1>10, <2>1, InputPushIs DEF Takes
    <2>4. SenderRight(mine, r)
        BY <1>8, <2>3, SenderRightSame
    <2>5. QED
        BY <2>2, <2>4 DEF r
<1>13. CASE seg.cmd \in {"wask", "wins"}
    <2>1. r = heard \/ r = [heard EXCEPT !.probe = heard.probe \cup {"tell"}]
        BY <1>3, <1>13
    <2>2. SameSender(heard, r) /\ SameReceiver(heard, r)
        BY <1>8, <2>1 DEF ControlBlock, SameSender, SameReceiver
    <2>3. QED
        BY <1>8, <1>10, <2>2, SenderRightSame, ReceiverRightSame DEF r
<1>14. QED
    BY <1>1, <1>11, <1>12, <1>13

LEMMA AdmitRight ==
    ASSUME NEW k \in ControlBlock, NEW r, NEW n \in Nat, Admits(k, r, n),
           NEW posts, SenderRight(posts, k)
    PROVE  /\ SenderRight(posts, r)
           /\ r.snd_nxt + Len(r.snd_queue) = k.snd_nxt + Len(k.snd_queue)
<1> DEFINE s == k.snd_buf
           t == r.snd_buf
           u == k.snd_queue
           v == r.snd_queue
           a == k.snd_nxt
<1>1. /\ Len(s) \in Nat /\ Len(u) \in Nat /\ a \in Nat
    BY BlockTypes
<1>2. /\ n \in 0 .. Len(u) /\ r.snd_nxt = a + n
      /\ Len(t) = Len(s) + n
      /\ \A i \in 1 .. Len(s) : t[i] = s[i]
      /\ \A i \in 1 .. n : t[Len(s) + i].sn = a + i - 1 /\ t[Len(s) + i].data = u[i]
    BY DEF Admits
<1>3. Len(v) = Len(u) - n /\ \A i \in 1 .. Len(u) - n : v[i] = u[n + i]
    BY DEF Admits, Cut
<1>4. /\ \A i \in 1 .. Len(s) : s[i].data = posts[s[i].sn + 1]
      /\ \A i \in 1 .. Len(u) : u[i] = posts[a + i]
    BY DEF SenderRight
<1> HIDE DEF s, t, u, v, a
<1>5. ASSUME NEW i \in 1 .. Len(s) + n PROVE t[i].data = posts[t[i].sn + 1]
    <2>1. CASE i \in 1 .. Len(s)
        BY <1>2, <1>4, <2>1
    <2>2. CASE i \notin 1 .. Len(s)
        <3> DEFINE j == i - Len(s)
        <3>1. n \in 0 .. Len(u)
            BY <1>2
        <3>2. j \in 1 .. n /\ j \in 1 .. Len(u) /\ Len(s) + j = i /\ (a + j - 1) + 1 = a + j
            BY <1>1, <2>2, <3>1
        <3> HIDE DEF j
        <3>3. t[i].sn = a + j - 1 /\ t[i].data = u[j]
            BY <1>2, <3>2
        <3>4. QED
            BY <1>4, <3>2, <3>3
    <2>3. QED
        BY <2>1, <2>2
<1>6. ASSUME NEW i \in 1 .. Len(u) - n PROVE v[i] = posts[(a + n) + i]
    <2>1. n \in 0 .. Len(u)
        BY <1>2
    <2>2. n + i \in 1 .. Len(u) /\ a + (n + i) = (a + n) + i
        BY <1>1, <2>1
    <2>3. u[n + i] = posts[(a + n) + i]
        BY <1>4, <2>2
    <2>4. QED
        BY <1>3, <2>3
<1>7. (a + n) + (Len(u) - n) = a + Len(u)
    <2>1. n \in 0 .. Len(u)
        BY <1>2
    <2>2. QED
        BY <1>1, <2>1
<1>8. QED
    BY <1>2, <1>3, <1>5, <1>6, <1>7 DEF SenderRight, s, t, u, v, a

-----------------------------------------------------------------------------
(* What ikcp_flush sends.                                                  *)

LEMMA RightTogether ==
    ASSUME NEW s \in Seq(Segment), NEW t \in Seq(Segment), NEW posts,
           AllRight(posts, s), AllRight(posts, t)
    PROVE  AllRight(posts, s \o t)
<1> DEFINE w == s \o t
<1>1. Joined(s, t, w) /\ Len(s) \in Nat /\ Len(t) \in Nat
    BY ConcatIs, LenProperties
<1> HIDE DEF w
<1>2. /\ Len(w) = Len(s) + Len(t)
      /\ \A i \in 1 .. Len(s) : w[i] = s[i]
      /\ \A i \in 1 .. Len(t) : w[Len(s) + i] = t[i]
    BY <1>1 DEF Joined
<1>3. ASSUME NEW i \in 1 .. Len(w), w[i].cmd = "push" PROVE w[i].data = posts[w[i].sn + 1]
    <2>1. CASE i \in 1 .. Len(s)
        <3>1. w[i] = s[i]
            BY <1>2, <2>1
        <3>2. QED
            BY <1>3, <2>1, <3>1 DEF AllRight
    <2>2. CASE i \notin 1 .. Len(s)
        <3> DEFINE j == i - Len(s)
        <3>1. i \in 1 .. Len(s) + Len(t)
            BY <1>2, <1>3
        <3>2. j \in 1 .. Len(t) /\ Len(s) + j = i
            BY <1>1, <2>2, <3>1
        <3> HIDE DEF j
        <3>3. w[i] = t[j]
            BY <1>2, <3>2
        <3>4. QED
            BY <1>3, <3>2, <3>3 DEF AllRight
    <2>3. QED
        BY <2>1, <2>2
<1>4. QED
    BY <1>3 DEF AllRight, w

LEMMA ControlsRight ==
    ASSUME NEW k \in ControlBlock, Listed(k), NEW posts
    PROVE  AllRight(posts, Controls(k))
<1> DEFINE a == [i \in DOMAIN k.acklist |-> Control(k, "ack", k.acklist[i])]
           b == IF "ask" \in k.probe THEN <<Control(k, "wask", 0)>> ELSE <<>>
           c == IF "tell" \in k.probe THEN <<Control(k, "wins", 0)>> ELSE <<>>
<1>1. DOMAIN k.acklist = 1 .. Len(k.acklist) /\ Len(k.acklist) \in Nat
      /\ \A i \in 1 .. Len(k.acklist) : k.acklist[i] \in Nat /\ Has(k, k.acklist[i])
    BY BlockTypes, LenProperties, ElementOfSeq DEF Listed
<1>2. \A i \in 1 .. Len(k.acklist) : Control(k, "ack", k.acklist[i]) \in Segment
    BY <1>1, ControlIs
<1>3. Control(k, "wask", 0) \in Segment /\ Control(k, "wins", 0) \in Segment
    BY ControlIs
<1>4. \A cmd, sn : Control(k, cmd, sn).cmd = cmd
    BY DEF Control
<1>5. a \in Seq(Segment) /\ AllRight(posts, a)
    <2> DEFINE x(i) == Control(k, "ack", k.acklist[i])
    <2>1. a = [i \in 1 .. Len(k.acklist) |-> x(i)] /\ \A i \in 1 .. Len(k.acklist) : x(i) \in Segment
        BY <1>1, <1>2
    <2>2. \A i : x(i).cmd = "ack"
        BY <1>4
    <2> HIDE DEF x, a
    <2>3. /\ a \in Seq(Segment) /\ Len(a) = Len(k.acklist)
          /\ \A i \in 1 .. Len(k.acklist) : a[i] = x(i)
        BY <1>1, <2>1
    <2>4. QED
        BY <2>2, <2>3 DEF AllRight
<1>6. ASSUME NEW x \in Segment, x.cmd # "push"
      PROVE  <<x>> \in Seq(Segment) /\ AllRight(posts, <<x>>)
    <2>1. <<x>> \in Seq(Segment) /\ Len(<<x>>) = 1 /\ <<x>>[1] = x
        OBVIOUS
    <2>2. \A i \in 1 .. 1 : i = 1
        OBVIOUS
    <2>3. QED
        BY <1>6, <2>1, <2>2 DEF AllRight
<1>7. <<>> \in Seq(Segment) /\ AllRight(posts, <<>>)
    <2>1. <<>> \in Seq(Segment) /\ \A i \in 1 .. Len(<<>>) : FALSE
        OBVIOUS
    <2>2. QED
        BY <2>1 DEF AllRight
<1>8. /\ b \in Seq(Segment) /\ AllRight(posts, b)
      /\ c \in Seq(Segment) /\ AllRight(posts, c)
    BY <1>3, <1>4, <1>6, <1>7
<1>9. Controls(k) = (a \o b) \o c
    BY DEF Controls
<1> HIDE DEF a, b, c
<1>10. a \o b \in Seq(Segment) /\ AllRight(posts, a \o b)
    BY <1>5, <1>8, ConcatIs, RightTogether
<1>11. QED
    BY <1>8, <1>9, <1>10, RightTogether

LEMMA PushesRight ==
    ASSUME NEW k \in ControlBlock, NEW posts, SenderRight(posts, k), NEW late
    PROVE  AllRight(posts, Pushes(k, late))
<1> DEFINE chosen == {i \in DOMAIN k.snd_buf : NeedSend(k.snd_buf[i], late)}
           due == Selected(k.snd_buf, chosen)
           t == [i \in DOMAIN due |-> Push(k, due[i])]
<1>1. k.snd_buf \in Seq(Outgoing) /\ DOMAIN k.snd_buf = 1 .. Len(k.snd_buf)
    BY BlockTypes
<1>2. chosen \in SUBSET (1 .. Len(k.snd_buf))
    BY <1>1
<1> HIDE DEF chosen
<1>3. /\ due \in Seq(Outgoing)
      /\ \A n \in 1 .. Len(due) : \E i \in chosen : due[n] = k.snd_buf[i]
    BY <1>1, <1>2, SelectedIs
<1>4. t = Pushes(k, late)
    BY DEF Pushes, chosen
<1> HIDE DEF due
<1>5. DOMAIN due = 1 .. Len(due) /\ Len(due) \in Nat
    BY <1>3, LenProperties
<1>6. \A n \in 1 .. Len(due) : due[n].data = posts[due[n].sn + 1]
    BY <1>2, <1>3 DEF SenderRight
<1>7. \A s : Push(k, s).data = s.data /\ Push(k, s).sn = s.sn
    BY DEF Push
<1>8. Len(t) = Len(due) /\ \A i \in 1 .. Len(due) : t[i] = Push(k, due[i])
    BY <1>5
<1> HIDE DEF t
<1>9. AllRight(posts, t)
    BY <1>6, <1>7, <1>8 DEF AllRight
<1>10. QED
    BY <1>4, <1>9

LEMMA CarryRight ==
    ASSUME NEW segs \in Seq(Segment), NEW posts, AllRight(posts, segs),
           NEW datagrams, NEW d \in Carry(datagrams, segs)
    PROVE  d \in datagrams \/ AllRight(posts, d)
<1>1. SUFFICES ASSUME d \notin datagrams PROVE AllRight(posts, d)
    OBVIOUS
<1>2. \A j \in 1 .. Len(d) : \E i \in 1 .. Len(segs) : d[j] = segs[i]
    BY <1>1, CarryIs
<1>3. QED
    BY <1>2 DEF AllRight

LEMMA FlushRight ==
    ASSUME NEW k \in ControlBlock, SenderOK(k), UnaIs(k), Listed(k), NEW late, NEW asking,
           NEW mine, SenderRight(mine, k),
           NEW theirs, NEW c, ReceiverRight(theirs, k, c)
    PROVE  LET probing == Probe(k, asking)
               full == Admit([probing EXCEPT !.acklist = <<>>, !.probe = {}])
               r == Resend(full, late)
           IN  /\ SenderRight(mine, r) /\ ReceiverRight(theirs, r, c)
               /\ r.snd_nxt + Len(r.snd_queue) = k.snd_nxt + Len(k.snd_queue)
               /\ AllRight(mine, Controls(probing) \o Pushes(full, late))
<1> DEFINE a == Probe(k, asking)
           b == [a EXCEPT !.acklist = <<>>, !.probe = {}]
           f == Admit(b)
           r == Resend(f, late)
<1>1. a \in ControlBlock /\ SameSender(k, a) /\ SameReceiver(k, a) /\ a.acklist = k.acklist
    BY ProbeIs
<1> HIDE DEF a
<1>2. b \in ControlBlock /\ SameSender(a, b) /\ SameReceiver(a, b)
    BY <1>1, ForgetIs
<1> HIDE DEF b
<1>3. /\ SenderOK(b) /\ UnaIs(b) /\ SenderRight(mine, b)
      /\ b.snd_nxt = k.snd_nxt /\ b.snd_queue = k.snd_queue
    <2>1. SameSender(k, b)
        BY <1>1, <1>2 DEF SameSender
    <2>2. QED
        BY <2>1, SenderRightSame DEF SameSender, SenderOK, UnaIs
<1>4. PICK n \in Nat : Admits(b, f, n)
    BY <1>2, AdmitIs
<1> HIDE DEF f
<1>5. /\ f \in ControlBlock /\ SameReceiver(b, f) /\ SenderOK(f) /\ UnaIs(f)
    BY <1>2, <1>3, <1>4, AdmitKeeps DEF Admits
<1>6. SenderRight(mine, f) /\ f.snd_nxt + Len(f.snd_queue) = b.snd_nxt + Len(b.snd_queue)
    BY <1>2, <1>3, <1>4, AdmitRight
<1>7. Relieved(f, r, {})
    BY <1>5, ResendIs
<1> HIDE DEF r
<1>8. SenderRight(mine, r) /\ r.snd_nxt = f.snd_nxt /\ r.snd_queue = f.snd_queue
    BY <1>6, <1>7, RelievedRight DEF Relieved
<1>9. ReceiverRight(theirs, r, c)
    <2>1. SameReceiver(k, r)
        BY <1>1, <1>2, <1>5, <1>7 DEF SameReceiver, Relieved
    <2>2. QED
        BY <2>1, ReceiverRightSame
<1>10. AllRight(mine, Controls(a)) /\ Controls(a) \in Seq(Segment)
    <2>1. \A sn : Has(a, sn) <=> Has(k, sn)
        BY <1>1 DEF SameReceiver, Has
    <2>2. Listed(a)
        BY <1>1, <2>1 DEF Listed
    <2>3. QED
        BY <1>1, <2>2, ControlsRight, ControlsTold DEF AllTold
<1>11. AllRight(mine, Pushes(f, late)) /\ Pushes(f, late) \in Seq(Segment)
    BY <1>5, <1>6, PushesRight, PushesTold DEF AllTold
<1>12. AllRight(mine, Controls(a) \o Pushes(f, late))
    BY <1>10, <1>11, RightTogether
<1>13. QED
    BY <1>3, <1>6, <1>8, <1>9, <1>12 DEF r, f, b, a

-----------------------------------------------------------------------------
(* The two ends of a transfer.                                             *)

\* k has sent, or will send, the first s messages of e and nothing else.
SendsRight(e, k, s) ==
    /\ s \in 0 .. Len(Messages[e])
    /\ SenderRight(Posts(e), k)
    /\ k.snd_nxt + Len(k.snd_queue) = Starts(e)[s + 1]

\* k has returned g, the first messages of e, and holds what follows them.
GetsRight(e, k, g) ==
    /\ Len(g) \in 0 .. Len(Messages[e])
    /\ ReceiverRight(Posts(e), k, Starts(e)[Len(g) + 1])
    /\ \A i \in 1 .. Len(g) : g[i] = Whole(e, i)

Carried ==
    /\ \A e \in End : SendsRight(e, kcp[e], sent[e])
    /\ \A e \in End : GetsRight(Peer(e), kcp[e], got[e])
    /\ \A e \in End : Len(got[e]) <= sent[Peer(e)]
    /\ \A e \in End : \A d \in net[e] : AllRight(Posts(Peer(e)), d)
    /\ \A e \in End : AllRight(Posts(Peer(e)), input[e].rest)

LEMMA StartsAre ==
    ASSUME NEW e \in End, NEW m \in 1 .. Len(Messages[e])
    PROVE  /\ m \in Nat /\ Messages[e][m] \in Nat /\ Count(Messages[e][m]) \in Nat \ {0}
           /\ Starts(e)[m] \in Nat /\ Starts(e)[m + 1] = Starts(e)[m] + Count(Messages[e][m])
           /\ \A j \in 1 .. Count(Messages[e][m]) :
                 Posts(e)[Starts(e)[m] + j] = Fragments(m, Messages[e][m])[j]
<1>1. Messages[e] \in Seq(Nat) /\ Len(Messages[e]) \in Nat
    BY KcpAssumption, LenProperties
<1>2. m \in Nat /\ Messages[e][m] \in Nat
    BY <1>1, ElementOfSeq
<1>3. Count(Messages[e][m]) \in Nat \ {0}
    BY <1>2, CountIs
<1>4. Divides(Messages[e], Posts(e), Starts(e), Len(Messages[e]))
    BY PostsAre
<1>5. /\ Starts(e) \in Seq(Nat) /\ Len(Starts(e)) = Len(Messages[e]) + 1
      /\ Starts(e)[m + 1] = Starts(e)[m] + Count(Messages[e][m])
      /\ \A j \in 1 .. Count(Messages[e][m]) :
            Posts(e)[Starts(e)[m] + j] = Fragments(m, Messages[e][m])[j]
    BY <1>4 DEF Divides
<1>6. m \in 1 .. Len(Starts(e))
    BY <1>1, <1>5
<1>7. Starts(e)[m] \in Nat
    BY <1>5, <1>6, ElementOfSeq
<1>8. QED
    BY <1>2, <1>3, <1>5, <1>7

LEMMA CarriedStep ==
    ASSUME Wire, Carried, NEW e \in End, NEW r, kcp' = [kcp EXCEPT ![e] = r],
           SendsRight(e, r, sent'[e]), GetsRight(Peer(e), r, got'[e]),
           sent'[Peer(e)] = sent[Peer(e)], got'[Peer(e)] = got[Peer(e)],
           Len(got'[e]) <= sent[Peer(e)], Len(got[Peer(e)]) <= sent'[e],
           \A f \in End : \A d \in net'[f] : d \in net[f] \/ AllRight(Posts(Peer(f)), d),
           \A f \in End : \/ input'[f].rest = input[f].rest
                          \/ AllRight(Posts(Peer(f)), input'[f].rest)
    PROVE  Carried'
<1>1. kcp \in [End -> ControlBlock]
    BY DEF Wire, TypeOK
<1>2. kcp'[e] = r /\ kcp'[Peer(e)] = kcp[Peer(e)]
    BY <1>1, Peers
<1>3. Peer(e) \in End /\ Peer(Peer(e)) = e /\ \A f \in End : f = e \/ f = Peer(e)
    BY Peers
<1>4. /\ SendsRight(Peer(e), kcp[Peer(e)], sent[Peer(e)])
      /\ GetsRight(Peer(Peer(e)), kcp[Peer(e)], got[Peer(e)])
    BY <1>3 DEF Carried
<1>5. ASSUME NEW f \in End PROVE SendsRight(f, kcp'[f], sent'[f])
    BY <1>2, <1>3, <1>4
<1>6. ASSUME NEW f \in End PROVE GetsRight(Peer(f), kcp'[f], got'[f])
    BY <1>2, <1>3, <1>4
<1>7. ASSUME NEW f \in End PROVE Len(got'[f]) <= sent'[Peer(f)]
    BY <1>3
<1>8. ASSUME NEW f \in End, NEW d \in net'[f] PROVE AllRight(Posts(Peer(f)), d)
    BY DEF Carried
<1>9. ASSUME NEW f \in End PROVE AllRight(Posts(Peer(f)), input'[f].rest)
    BY DEF Carried
<1>10. QED
    BY <1>5, <1>6, <1>7, <1>8, <1>9 DEF Carried

\* ikcp_send posts message s + 1 behind the first s.
LEMMA SendRight ==
    ASSUME Wire, Carried, NEW e \in End, Send(e)
    PROVE  Carried'
<1> DEFINE k == kcp[e]
           m == sent[e] + 1
           len == Messages[e][m]
           u == k.snd_queue
           more == Fragments(m, len)
           q == u \o more
           r == [k EXCEPT !.snd_queue = q]
           a == k.snd_nxt
           x == Starts(e)[m]
           posts == Posts(e)
<1>1. k \in ControlBlock /\ sent[e] \in Nat /\ sent \in [End -> Nat]
    BY WireParts DEF Wire, TypeOK
<1>2. /\ sent[e] < Len(Messages[e])
      /\ kcp' = [kcp EXCEPT ![e] = r] /\ sent' = [sent EXCEPT ![e] = m]
      /\ got' = got /\ net' = net /\ input' = input
    BY DEF Send
<1>3. /\ SendsRight(e, k, sent[e]) /\ GetsRight(Peer(e), k, got[e])
      /\ Len(got[e]) <= sent[Peer(e)] /\ Len(got[Peer(e)]) <= sent[e]
    BY Peers DEF Carried
<1>4. m \in Nat /\ m \in 1 .. Len(Messages[e]) /\ m \in 0 .. Len(Messages[e])
    <2>1. Len(Messages[e]) \in Nat
        BY KcpAssumption, LenProperties
    <2>2. QED
        BY <1>1, <1>2, <2>1
<1>5. /\ a \in Nat /\ u \in Seq(SegmentData) /\ Len(u) \in Nat /\ a + Len(u) = x
      /\ SenderRight(posts, k)
    BY <1>1, <1>3, BlockTypes DEF SendsRight
<1> HIDE DEF m
<1>6. /\ len \in Nat /\ Count(len) \in Nat \ {0} /\ Starts(e)[m + 1] = x + Count(len)
      /\ \A j \in 1 .. Count(len) : posts[x + j] = more[j]
    BY <1>4, StartsAre
<1> HIDE DEF len
<1>7. more \in Seq(SegmentData) /\ Len(more) = Count(len)
    BY <1>4, <1>6, FragmentsIs
<1> HIDE DEF more
<1>8. q \in Seq(SegmentData) /\ Joined(u, more, q)
    BY <1>5, <1>7, ConcatIs
<1> HIDE DEF q
<1>9. /\ SameReceiver(k, r) /\ r.snd_nxt = a /\ r.snd_buf = k.snd_buf /\ r.snd_queue = q
    BY <1>1 DEF ControlBlock, SameReceiver
<1> HIDE DEF r
<1>10. /\ Len(q) = Len(u) + Count(len)
       /\ \A i \in 1 .. Len(u) : q[i] = u[i]
       /\ \A i \in 1 .. Count(len) : q[Len(u) + i] = more[i]
    BY <1>7, <1>8 DEF Joined
<1>11. /\ \A i \in 1 .. Len(k.snd_buf) : k.snd_buf[i].data = posts[k.snd_buf[i].sn + 1]
       /\ \A i \in 1 .. Len(u) : u[i] = posts[a + i]
    BY <1>5 DEF SenderRight
<1> HIDE DEF a, u, x, posts
<1>12. ASSUME NEW i \in 1 .. Len(u) + Count(len) PROVE q[i] = posts[a + i]
    <2>1. CASE i \in 1 .. Len(u)
        BY <1>10, <1>11, <2>1
    <2>2. CASE i \notin 1 .. Len(u)
        <3> DEFINE j == i - Len(u)
        <3>1. Count(len) \in Nat /\ Len(u) \in Nat /\ a \in Nat /\ a + Len(u) = x
            BY <1>5, <1>6
        <3>2. j \in 1 .. Count(len) /\ Len(u) + j = i /\ x + j = a + i
            BY <2>2, <3>1
        <3> HIDE DEF j
        <3>3. q[i] = more[j] /\ posts[x + j] = more[j]
            BY <1>6, <1>10, <3>2
        <3>4. QED
            BY <3>2, <3>3
    <2>3. QED
        BY <2>1, <2>2
<1>13. a + (Len(u) + Count(len)) = Starts(e)[m + 1]
    BY <1>5, <1>6
<1>14. SenderRight(posts, r) /\ r.snd_nxt + Len(r.snd_queue) = Starts(e)[m + 1]
    BY <1>9, <1>10, <1>11, <1>12, <1>13 DEF SenderRight
<1>15. SendsRight(e, r, m)
    BY <1>4, <1>14 DEF SendsRight, posts
<1>16. GetsRight(Peer(e), r, got[e])
    BY <1>3, <1>9, ReceiverRightSame DEF GetsRight
<1>17. Len(got[Peer(e)]) <= m /\ sent'[e] = m /\ sent'[Peer(e)] = sent[Peer(e)]
    <2>1. sent'[e] = m /\ sent'[Peer(e)] = sent[Peer(e)]
        BY <1>1, <1>2, Peers
    <2>2. Len(got[Peer(e)]) \in Nat
        BY LenProperties, Peers DEF Wire, TypeOK
    <2>3. QED
        BY <1>1, <1>3, <2>1, <2>2 DEF m
<1>18. QED
    BY <1>2, <1>3, <1>15, <1>16, <1>17, CarriedStep

\* A receive queue that is read from: its first n segments are gone.
LEMMA DrainedRight ==
    ASSUME NEW k \in ControlBlock, NEW n \in 1 .. Len(k.rcv_queue),
           NEW posts, NEW c \in Nat, ReceiverRight(posts, k, c)
    PROVE  ReceiverRight(posts, Drained(k, n), c + n)
<1> DEFINE q == SubSeq(k.rcv_queue, n + 1, Len(k.rcv_queue))
           a == [k EXCEPT !.rcv_queue = q]
           b == MoveToQueue(a)
           r == Drained(k, n)
           u == k.rcv_queue
<1>1. u \in Seq(Incoming) /\ Len(u) \in Nat /\ n \in 0 .. Len(u) /\ n \in Nat
    BY BlockTypes
<1>2. q \in Seq(Incoming) /\ Cut(u, q, n)
    BY <1>1, CutIs
<1>3. r = b \/ r = [b EXCEPT !.probe = b.probe \cup {"tell"}]
    BY DEF Drained, b, a, q
<1> HIDE DEF q, r
<1>4. /\ a \in ControlBlock /\ a.rcv_nxt = k.rcv_nxt /\ a.rcv_buf = k.rcv_buf /\ a.rcv_queue = q
    BY <1>2 DEF ControlBlock
<1> HIDE DEF a
<1>5. ReceiverRight(posts, a, c + n)
    <2>1. Len(q) = Len(u) - n /\ \A i \in 1 .. Len(u) - n : q[i] = u[n + i]
        BY <1>2 DEF Cut
    <2>2. /\ c + Len(u) = k.rcv_nxt
          /\ \A i \in 1 .. Len(u) : u[i].data = posts[c + i]
          /\ \A i \in 1 .. Len(k.rcv_buf) : k.rcv_buf[i].data = posts[k.rcv_buf[i].sn + 1]
        BY DEF ReceiverRight
    <2> HIDE DEF u
    <2>3. ASSUME NEW i \in 1 .. Len(u) - n PROVE q[i].data = posts[(c + n) + i]
        <3>1. n + i \in 1 .. Len(u) /\ c + (n + i) = (c + n) + i
            BY <1>1
        <3>2. u[n + i].data = posts[(c + n) + i]
            BY <2>2, <3>1
        <3>3. QED
            BY <2>1, <3>2
    <2>4. (c + n) + (Len(u) - n) = c + Len(u)
        BY <1>1
    <2>5. QED
        BY <1>4, <2>1, <2>2, <2>3, <2>4 DEF ReceiverRight
<1>6. b \in ControlBlock /\ \E m \in Nat : MoveToQueueBy(a, b, m)
    BY <1>4, MoveToQueueIs
<1> HIDE DEF b
<1>7. c + n \in Nat
    BY <1>1
<1>8. ReceiverRight(posts, b, c + n)
    BY <1>4, <1>5, <1>6, <1>7, MoveRight
<1>9. SameReceiver(b, r)
    BY <1>3, <1>6 DEF ControlBlock, SameReceiver
<1>10. QED
    BY <1>8, <1>9, ReceiverRightSame DEF r

\* What the peer has in order it has of segments that were posted.
LEMMA PostedFirst ==
    ASSUME Wire, NEW e \in End
    PROVE  kcp[e].rcv_nxt <= kcp[Peer(e)].snd_nxt
<1> DEFINE k == kcp[e]
           q == kcp[Peer(e)]
<1>1. k \in ControlBlock /\ q \in ControlBlock /\ Met(q, k)
    BY WireParts
<1>2. k.rcv_nxt \in Nat /\ q.snd_nxt \in Nat
    BY <1>1, BlockTypes
<1> HIDE DEF k, q
<1>3. PICK a \in Nat, b \in Nat : a = k.rcv_nxt /\ b = q.snd_nxt
    BY <1>2
<1>4. \A n \in Nat : n < a => n < b
    BY <1>1, <1>3 DEF Met, Has
<1>5. a <= b
    BY <1>4
<1>6. QED
    BY <1>3, <1>5 DEF k, q

LEMMA StartsType ==
    ASSUME NEW e \in End, NEW s \in 0 .. Len(Messages[e])
    PROVE  Starts(e)[s + 1] \in Nat
<1>1. Len(Messages[e]) \in Nat
    BY KcpAssumption, LenProperties
<1>2. Starts(e) \in Seq(Nat) /\ Len(Starts(e)) = Len(Messages[e]) + 1
    BY PostsAre DEF Divides
<1>3. s + 1 \in 1 .. Len(Messages[e]) + 1
    BY <1>1
<1>4. QED
    BY <1>2, <1>3, ElementOfSeq

\* ikcp_recv returns the next message of the peer, all of it and no more: the
\* segment with frg 0 that ends the merge is the last one of that message.
LEMMA NextMessage ==
    ASSUME Wire, Carried, NEW e \in End, Peek(kcp[e]) > 0
    PROVE  LET k == kcp[e]
               p == Peer(e)
               m == Len(got[e]) + 1
               n == Merged(k)
           IN  /\ m \in 1 .. Len(Messages[p]) /\ m <= sent[p]
               /\ n \in 1 .. Len(k.rcv_queue) /\ n = Count(Messages[p][m])
               /\ \A i \in 1 .. n : /\ k.rcv_queue[i].data.msg = m
                                    /\ k.rcv_queue[i].data.frg = n - i
<1> DEFINE k == kcp[e]
           p == Peer(e)
           q == kcp[p]
           u == k.rcv_queue
           g == Len(got[e])
           m == g + 1
           n == Merged(k)
           c == Starts(p)[m]
           posts == Posts(p)
<1>1. p \in End /\ k \in ControlBlock /\ q \in ControlBlock
    BY WireParts
<1>2. SendsRight(p, q, sent[p]) /\ GetsRight(p, k, got[e]) /\ g <= sent[p]
    BY <1>1 DEF Carried
<1>3. /\ sent[p] \in 0 .. Len(Messages[p]) /\ g \in 0 .. Len(Messages[p])
      /\ Len(Messages[p]) \in Nat
      /\ q.snd_nxt + Len(q.snd_queue) = Starts(p)[sent[p] + 1]
      /\ ReceiverRight(posts, k, c)
    BY <1>1, <1>2, KcpAssumption, LenProperties DEF SendsRight, GetsRight
<1>4. k.rcv_nxt <= q.snd_nxt
    BY PostedFirst
<1>5. /\ u \in Seq(Incoming) /\ Len(u) \in Nat /\ k.rcv_nxt \in Nat
      /\ q.snd_nxt \in Nat /\ Len(q.snd_queue) \in Nat
    BY <1>1, BlockTypes
<1>6. c \in Nat
    BY <1>1, <1>3, StartsType
<1>7. /\ c + Len(u) = k.rcv_nxt /\ \A i \in 1 .. Len(u) : u[i].data = posts[c + i]
    BY <1>3 DEF ReceiverRight
<1>8. u # <<>> /\ u[1].data.frg + 1 <= Len(u) /\ 1 \in 1 .. Len(u)
    <2>1. u # <<>> /\ ~ (Len(u) < u[1].data.frg + 1)
        BY DEF Peek
    <2>2. 1 \in 1 .. Len(u)
        BY <1>5, <2>1, HeadTail
    <2>3. u[1] \in Incoming
        BY <1>5, <2>2, ElementOfSeq
    <2>4. u[1].data.frg \in Nat
        BY <2>3 DEF Incoming, SegmentData
    <2>5. QED
        BY <1>5, <2>1, <2>2, <2>4
<1>9. g # sent[p]
    <2>1. SUFFICES ASSUME g = sent[p] PROVE FALSE
        OBVIOUS
    <2>2. q.snd_nxt + Len(q.snd_queue) = c
        BY <1>3, <2>1
    <2> HIDE DEF k, q, u, c
    <2>3. Len(u) >= 1
        BY <1>5, <1>8
    <2>4. QED
        BY <1>4, <1>5, <1>6, <1>7, <2>2, <2>3
<1>10. m \in 1 .. Len(Messages[p]) /\ m <= sent[p]
    BY <1>2, <1>3, <1>9
<1>11. /\ n \in 1 .. Len(u)
       /\ u[n].data.frg = 0 \/ n = Len(u)
       /\ \A i \in 1 .. n - 1 : u[i].data.frg # 0
    BY <1>1, <1>8, MergedIs
<1> DEFINE len == Messages[p][m]
           N == Count(len)
<1> HIDE DEF k, q, u, g, m, n, c, posts
<1>12. /\ m \in Nat /\ len \in Nat /\ N \in Nat \ {0}
       /\ \A j \in 1 .. N : posts[c + j] = Fragments(m, len)[j]
    BY <1>1, <1>10, StartsAre DEF c, posts
<1>13. \A j \in 1 .. N : Fragments(m, len)[j].msg = m /\ Fragments(m, len)[j].frg = N - j
    BY <1>12, FragmentsIs
<1>14. \A i \in 1 .. Len(u) : i <= N => u[i].data.msg = m /\ u[i].data.frg = N - i
    <2>1. ASSUME NEW i \in 1 .. Len(u), i <= N PROVE u[i].data.msg = m /\ u[i].data.frg = N - i
        <3> HIDE DEF N, len
        <3>1. i \in 1 .. N
            BY <1>5, <1>12, <2>1
        <3>2. u[i].data = Fragments(m, len)[i]
            BY <1>7, <1>12, <3>1
        <3>3. QED
            BY <1>13, <3>1, <3>2
    <2>2. QED
        BY <2>1
<1> HIDE DEF N, len
<1>15. N <= Len(u) /\ N \in 1 .. Len(u)
    <2>1. u[1].data.frg = N - 1
        BY <1>8, <1>12, <1>14
    <2>2. QED
        BY <1>5, <1>8, <1>12, <2>1
<1>16. n = N
    <2>1. n \in Nat /\ Len(u) \in Nat /\ N \in Nat
        BY <1>5, <1>11, <1>12
    <2>2. ASSUME n < N PROVE FALSE
        <3>1. u[n].data.frg = N - n
            BY <1>11, <1>14, <2>1, <2>2
        <3>2. n = Len(u)
            BY <1>11, <2>1, <2>2, <3>1
        <3>3. QED
            BY <1>15, <2>1, <2>2, <3>2
    <2>3. ASSUME N < n PROVE FALSE
        <3>1. N \in 1 .. n - 1
            BY <1>12, <2>1, <2>3
        <3>2. u[N].data.frg = N - N
            BY <1>14, <1>15, <2>1
        <3>3. QED
            BY <1>11, <2>1, <3>1, <3>2
    <2>4. QED
        BY <2>1, <2>2, <2>3
<1>17. \A i \in 1 .. n : u[i].data.msg = m /\ u[i].data.frg = n - i
    <2>1. ASSUME NEW i \in 1 .. n PROVE u[i].data.msg = m /\ u[i].data.frg = n - i
        <3>1. n \in Nat /\ Len(u) \in Nat /\ n <= Len(u)
            BY <1>5, <1>11
        <3>2. i \in 1 .. Len(u) /\ i <= n
            BY <3>1
        <3>3. QED
            BY <1>14, <1>16, <3>2
    <2>2. QED
        BY <2>1
<1>18. QED
    BY <1>10, <1>11, <1>16, <1>17 DEF k, u, g, m, n, N, len

LEMMA RecvRight ==
    ASSUME Wire, Carried, NEW e \in End, Recv(e)
    PROVE  /\ Carried'
           /\ got' = [got EXCEPT ![e] = Append(got[e], Whole(Peer(e), Len(got[e]) + 1))]
           /\ Len(got[e]) < sent[Peer(e)] /\ sent' = sent
<1> DEFINE k == kcp[e]
           p == Peer(e)
           m == Len(got[e]) + 1
           n == Merged(k)
           message == [i \in 1 .. n |-> [msg |-> k.rcv_queue[i].data.msg,
                                         frg |-> k.rcv_queue[i].data.frg]]
           r == Drained(k, n)
           h == Append(got[e], message)
<1>1. /\ p \in End /\ k \in ControlBlock /\ ReceiverOK(k)
      /\ sent \in [End -> Nat] /\ got \in [End -> Seq(Seq([msg : Nat, frg : Nat]))]
      /\ got[e] \in Seq(Seq([msg : Nat, frg : Nat])) /\ Len(got[e]) \in Nat
    BY WireParts, LenProperties DEF Wire, TypeOK
<1>2. /\ Peek(k) > 0
      /\ kcp' = [kcp EXCEPT ![e] = r] /\ got' = [got EXCEPT ![e] = h]
      /\ sent' = sent /\ net' = net /\ input' = input
    BY DEF Recv
<1>3. /\ m \in 1 .. Len(Messages[p]) /\ m <= sent[p]
      /\ n \in 1 .. Len(k.rcv_queue) /\ n = Count(Messages[p][m])
      /\ \A i \in 1 .. n : k.rcv_queue[i].data.msg = m /\ k.rcv_queue[i].data.frg = n - i
    BY <1>2, NextMessage
<1>4. /\ SendsRight(e, k, sent[e]) /\ GetsRight(p, k, got[e])
      /\ Len(got[p]) <= sent[e]
    BY <1>1, Peers DEF Carried
<1>5. message = Whole(p, m)
    <2>1. message = [i \in 1 .. n |-> [msg |-> m, frg |-> n - i]]
        BY <1>3
    <2> HIDE DEF message, m, p
    <2>2. QED
        BY <1>3, <2>1 DEF Whole
<1>6. message \in Seq([msg : Nat, frg : Nat])
    <2> DEFINE w(i) == [msg |-> m, frg |-> n - i]
    <2>1. \A i \in 1 .. n : w(i) \in [msg : Nat, frg : Nat]
        BY <1>1, <1>3
    <2>2. message = [i \in 1 .. n |-> w(i)] /\ n \in Nat
        BY <1>3
    <2> HIDE DEF w, message, n
    <2>3. QED
        BY <2>1, <2>2
<1> HIDE DEF message
<1>7. Longer(got[e], h, message) /\ h \in Seq(Seq([msg : Nat, frg : Nat]))
    BY <1>1, <1>6, AppendIsLonger
<1> HIDE DEF h
<1>8. /\ Len(h) = m /\ h[m] = message /\ \A i \in 1 .. Len(got[e]) : h[i] = got[e][i]
    BY <1>7 DEF Longer
<1>9. ReceiverRight(Posts(p), r, Starts(p)[m + 1])
    <2>1. Starts(p)[m] \in Nat /\ Starts(p)[m + 1] = Starts(p)[m] + n
        BY <1>1, <1>3, StartsAre
    <2>2. ReceiverRight(Posts(p), k, Starts(p)[m])
        BY <1>4 DEF GetsRight
    <2>3. ReceiverRight(Posts(p), r, Starts(p)[m] + n)
        BY <1>1, <1>3, <2>1, <2>2, DrainedRight
    <2>4. QED
        BY <2>1, <2>3
<1>10. SameSender(k, r)
    BY <1>1, <1>3, DrainedIs
<1> HIDE DEF r, n
<1>11. SendsRight(e, r, sent[e])
    BY <1>4, <1>10, SenderRightSame DEF SendsRight, SameSender
<1>12. \A i \in 1 .. m : h[i] = Whole(p, i)
    <2>1. \A i \in 1 .. Len(got[e]) : got[e][i] = Whole(p, i)
        BY <1>4 DEF GetsRight
    <2>2. ASSUME NEW i \in 1 .. m PROVE h[i] = Whole(p, i)
        <3>1. i = m \/ i \in 1 .. Len(got[e])
            BY <1>1
        <3>2. QED
            BY <1>5, <1>8, <2>1, <3>1
    <2>3. QED
        BY <2>2
<1>13. GetsRight(p, r, h)
    <2>1. Len(Messages[p]) \in Nat
        BY <1>1, LenProperties
    <2>2. m \in 0 .. Len(Messages[p])
        BY <1>3, <2>1
    <2> HIDE DEF m, p
    <2>3. QED
        BY <1>8, <1>9, <1>12, <2>2 DEF GetsRight
<1>14. got'[e] = h /\ got'[p] = got[p] /\ sent'[p] = sent[p] /\ sent'[e] = sent[e]
    BY <1>1, <1>2, Peers
<1>15. Len(h) <= sent[p]
    BY <1>3, <1>8
<1>16. Carried'
    BY <1>2, <1>4, <1>11, <1>13, <1>14, <1>15, CarriedStep
<1>17. Len(got[e]) < sent[p]
    BY <1>1, <1>3
<1>18. QED
    BY <1>2, <1>5, <1>16, <1>17 DEF h

LEMMA RoundRight ==
    ASSUME Wire, Carried, NEW e \in End, NEW segs \in Seq(Segment), segs # <<>>,
           AllRight(Posts(Peer(e)), segs), NEW maxack \in Int, Round(e, segs, maxack),
           \A f \in End : \A d \in net'[f] : d \in net[f]
    PROVE  Carried' /\ sent' = sent /\ got' = got
<1> DEFINE k == kcp[e]
           p == Peer(e)
           seg == Head(segs)
           rest == Tail(segs)
           j == InputSegment(k, seg)
           high == IF Head(segs).cmd = "ack" /\ Head(segs).sn > maxack
                   THEN Head(segs).sn ELSE maxack
           mine == Posts(e)
           theirs == Posts(p)
           c == Starts(p)[Len(got[e]) + 1]
<1>1. k \in ControlBlock /\ WellFormed(k) /\ SenderOK(k) /\ Listed(k) /\ p \in End
    BY WireParts
<1>2. input \in [End -> [rest : Seq(Segment), maxack : Int]]
    BY DEF Wire, TypeOK
<1>3. /\ seg \in Segment /\ seg = segs[1] /\ 1 \in 1 .. Len(segs)
      /\ rest \in Seq(Segment) /\ Len(rest) = Len(segs) - 1 /\ Len(segs) \in Nat
      /\ \A i \in 1 .. Len(segs) - 1 : rest[i] = segs[i + 1]
    BY HeadTail
<1>4. /\ sent' = sent /\ got' = got
      /\ \/ /\ kcp' = [kcp EXCEPT ![e] = ParseFastack(j, high)]
            /\ input' = [input EXCEPT ![e] = NoInput]
         \/ /\ kcp' = [kcp EXCEPT ![e] = j]
            /\ input' = [input EXCEPT ![e] = [rest |-> rest, maxack |-> high]]
    BY DEF Round
<1>5. /\ SendsRight(e, k, sent[e]) /\ GetsRight(p, k, got[e])
      /\ Len(got[e]) <= sent[p] /\ Len(got[p]) <= sent[e]
    BY <1>1, Peers DEF Carried
<1>6. /\ SenderRight(mine, k) /\ ReceiverRight(theirs, k, c) /\ c \in Nat
      /\ k.snd_nxt + Len(k.snd_queue) = Starts(e)[sent[e] + 1]
      /\ sent[e] \in 0 .. Len(Messages[e]) /\ Len(got[e]) \in 0 .. Len(Messages[p])
      /\ \A i \in 1 .. Len(got[e]) : got[e][i] = Whole(p, i)
    BY <1>1, <1>5, StartsType DEF SendsRight, GetsRight
<1>7. seg.cmd = "push" => seg.data = theirs[seg.sn + 1]
    BY <1>3 DEF AllRight
<1>8. AllRight(theirs, rest)
    <2>1. ASSUME NEW i \in 1 .. Len(rest), rest[i].cmd = "push"
          PROVE  rest[i].data = theirs[rest[i].sn + 1]
        <3>1. i \in 1 .. Len(segs) - 1 /\ i + 1 \in 1 .. Len(segs)
            BY <1>3
        <3>2. rest[i] = segs[i + 1]
            BY <1>3, <3>1
        <3>3. QED
            BY <2>1, <3>1, <3>2 DEF AllRight
    <2>2. QED
        BY <2>1 DEF AllRight
<1> DEFINE gone == {n \in Nat : n < seg.una} \cup (IF seg.cmd = "ack" THEN {seg.sn} ELSE {})
           taken == IF seg.cmd = "push" THEN {seg.sn} ELSE {}
<1>9. Heard(k, j, gone, taken)
    BY <1>1, <1>3, InputSegmentIs
<1> HIDE DEF gone, taken, k, p, seg, rest, high, mine, theirs, c
<1>10. SenderRight(mine, j) /\ ReceiverRight(theirs, j, c)
    BY <1>1, <1>3, <1>6, <1>7, InputSegmentRight
<1> HIDE DEF j
<1>11. /\ j \in ControlBlock /\ SenderOK(j) /\ UnaIs(j)
       /\ j.snd_nxt = k.snd_nxt /\ j.snd_queue = k.snd_queue
    BY <1>9 DEF Heard
<1> DEFINE r == ParseFastack(j, high)
<1>12. Relieved(j, r, {})
    BY <1>11, ParseFastackIs
<1> HIDE DEF r
<1>13. /\ SenderRight(mine, r) /\ ReceiverRight(theirs, r, c)
       /\ r.snd_nxt = k.snd_nxt /\ r.snd_queue = k.snd_queue
    BY <1>10, <1>11, <1>12, RelievedRight, ReceiverRightSame DEF Relieved
<1>14. ASSUME NEW b, SenderRight(mine, b), ReceiverRight(theirs, b, c),
              b.snd_nxt = k.snd_nxt, b.snd_queue = k.snd_queue
       PROVE  SendsRight(e, b, sent[e]) /\ GetsRight(p, b, got[e])
    BY <1>6, <1>14 DEF SendsRight, GetsRight, mine, theirs, c
<1>15. PICK b : /\ SendsRight(e, b, sent[e]) /\ GetsRight(p, b, got[e])
                /\ kcp' = [kcp EXCEPT ![e] = b]
    BY <1>4, <1>10, <1>11, <1>13, <1>14 DEF r
<1>16. AllRight(theirs, <<>>)
    <2>1. \A i \in 1 .. Len(<<>>) : FALSE
        OBVIOUS
    <2>2. QED
        BY <2>1 DEF AllRight
<1>17. PICK w : input' = [input EXCEPT ![e] = w] /\ AllRight(theirs, w.rest)
    <2>1. NoInput.rest = <<>>
        BY DEF NoInput
    <2>2. CASE input' = [input EXCEPT ![e] = NoInput]
        BY <1>16, <2>1, <2>2
    <2>3. CASE input' = [input EXCEPT ![e] = [rest |-> rest, maxack |-> high]]
        <3> DEFINE x == [rest |-> rest, maxack |-> high]
        <3>1. x.rest = rest
            OBVIOUS
        <3> HIDE DEF x
        <3>2. input' = [input EXCEPT ![e] = x] /\ AllRight(theirs, x.rest)
            BY <1>8, <2>3, <3>1 DEF x
        <3>3. QED
            BY <3>2
    <2>4. QED
        BY <1>4, <2>2, <2>3
<1>18. ASSUME NEW f \in End
       PROVE  input'[f].rest = input[f].rest \/ AllRight(Posts(Peer(f)), input'[f].rest)
    <2>1. CASE f = e
        BY <1>2, <1>17, <2>1 DEF theirs, p
    <2>2. CASE f # e
        BY <1>2, <1>17, <2>2
    <2>3. QED
        BY <2>1, <2>2
<1>19. Carried'
    BY <1>4, <1>5, <1>15, <1>18, CarriedStep DEF p
<1>20. QED
    BY <1>4, <1>19

LEMMA InputRight ==
    ASSUME Wire, Carried, NEW e \in End, Input(e)
    PROVE  Carried' /\ sent' = sent /\ got' = got
<1>1. /\ net \in [End -> SUBSET (Seq(Segment) \ {<<>>})]
      /\ input \in [End -> [rest : Seq(Segment), maxack : Int]]
    BY DEF Wire, TypeOK
<1>2. PICK segs \in Seq(Segment) \ {<<>>}, maxack \in Int :
          AllRight(Posts(Peer(e)), segs) /\ Round(e, segs, maxack)
    <2>1. CASE input[e].rest = <<>>
        <3>1. PICK d \in net[e] : Round(e, d, -1)
            BY <2>1 DEF Input
        <3>2. d \in Seq(Segment) \ {<<>>} /\ AllRight(Posts(Peer(e)), d) /\ -1 \in Int
            BY <1>1, <3>1 DEF Carried
        <3>3. QED
            BY <3>1, <3>2
    <2>2. CASE input[e].rest # <<>>
        <3>1. Round(e, input[e].rest, input[e].maxack)
            BY <2>2 DEF Input
        <3>2. /\ input[e].rest \in Seq(Segment) /\ input[e].maxack \in Int
              /\ AllRight(Posts(Peer(e)), input[e].rest)
            BY <1>1 DEF Carried
        <3>3. QED
            BY <2>2, <3>1, <3>2
    <2>3. QED
        BY <2>1, <2>2
<1>3. \A f \in End : \A d \in net'[f] : d \in net[f]
    <2>1. net' = net \/ \E d : net' = [net EXCEPT ![e] = net[e] \ {d}]
        BY DEF Input
    <2>2. QED
        BY <1>1, <2>1
<1>4. QED
    BY <1>2, <1>3, RoundRight

LEMMA LoseRight ==
    ASSUME Wire, Carried, NEW e \in End, Lose(e)
    PROVE  Carried' /\ sent' = sent /\ got' = got
<1>1. PICK d : /\ net' = [net EXCEPT ![e] = net[e] \ {d}]
               /\ kcp' = kcp /\ sent' = sent /\ got' = got /\ input' = input
    BY DEF Lose
<1>2. net \in [End -> SUBSET (Seq(Segment) \ {<<>>})]
    BY DEF Wire, TypeOK
<1>3. \A f \in End : \A x \in net'[f] : x \in net[f]
    BY <1>1, <1>2
<1>4. QED
    BY <1>1, <1>3 DEF Carried

LEMMA UpdateRight ==
    ASSUME Wire, Carried, NEW e \in End, Update(e)
    PROVE  Carried' /\ sent' = sent /\ got' = got
<1> DEFINE k == kcp[e]
           p == Peer(e)
<1>1. /\ k \in ControlBlock /\ SenderOK(k) /\ ReceiverOK(k) /\ UnaIs(k) /\ Listed(k)
      /\ kcp[p] \in ControlBlock /\ Met(k, kcp[p]) /\ Met(kcp[p], k)
      /\ p \in End /\ Peer(p) = e
    BY WireParts, Peers
<1>2. net \in [End -> SUBSET (Seq(Segment) \ {<<>>})]
    BY DEF Wire, TypeOK
<1>3. PICK late, asking : Flush(e, late, asking)
    BY DEF Update
<1> DEFINE probing == Probe(k, asking)
           full == Admit([probing EXCEPT !.acklist = <<>>, !.probe = {}])
           segments == Controls(probing) \o Pushes(full, late)
           r == Resend(full, late)
<1>4. /\ kcp' = [kcp EXCEPT ![e] = r]
      /\ net' = [net EXCEPT ![p] = Carry(net[p], segments)]
      /\ sent' = sent /\ got' = got /\ input' = input
    BY <1>3 DEF Flush
<1>5. /\ SendsRight(e, k, sent[e]) /\ GetsRight(p, k, got[e])
      /\ Len(got[e]) <= sent[p] /\ Len(got[p]) <= sent[e]
    BY <1>1 DEF Carried
<1> DEFINE mine == Posts(e)
           theirs == Posts(p)
           c == Starts(p)[Len(got[e]) + 1]
<1>6. SenderRight(mine, k) /\ ReceiverRight(theirs, k, c)
    BY <1>5 DEF SendsRight, GetsRight
<1> HIDE DEF mine, theirs, c
<1>7. /\ SenderRight(mine, r) /\ ReceiverRight(theirs, r, c)
      /\ r.snd_nxt + Len(r.snd_queue) = k.snd_nxt + Len(k.snd_queue)
      /\ AllRight(mine, segments)
    BY <1>1, <1>6, FlushRight
<1>8. segments \in Seq(Segment)
    BY <1>1, FlushIs DEF AllTold
<1> HIDE DEF segments, r, k, p
<1>9. SendsRight(e, r, sent[e]) /\ GetsRight(p, r, got[e])
    BY <1>5, <1>7 DEF SendsRight, GetsRight, mine, theirs, c
<1>10. \A d \in Carry(net[p], segments) : d \in net[p] \/ AllRight(mine, d)
    BY <1>7, <1>8, CarryRight
<1>11. \A f \in End : \A d \in net'[f] : d \in net[f] \/ AllRight(Posts(Peer(f)), d)
    <2>1. ASSUME NEW f \in End, NEW d \in net'[f] PROVE d \in net[f] \/ AllRight(Posts(Peer(f)), d)
        <3>1. CASE f = p
            BY <1>1, <1>2, <1>4, <1>10, <3>1 DEF mine
        <3>2. CASE f # p
            BY <1>2, <1>4, <3>2
        <3>3. QED
            BY <3>1, <3>2
    <2>2. QED
        BY <2>1
<1>12. Carried'
    BY <1>4, <1>5, <1>9, <1>11, CarriedStep DEF p
<1>13. QED
    BY <1>4, <1>12

-----------------------------------------------------------------------------
LEMMA CarriedInit == Init => Carried
<1> SUFFICES ASSUME Init PROVE Carried
    OBVIOUS
<1>1. \A e \in End : /\ kcp[e] = Created /\ sent[e] = 0 /\ got[e] = <<>> /\ net[e] = {}
                     /\ input[e].rest = <<>>
    BY DEF Init, NoInput
<1> DEFINE k == Created
<1>2. /\ k.snd_nxt = 0 /\ k.rcv_nxt = 0 /\ k.snd_buf = <<>> /\ k.snd_queue = <<>>
      /\ k.rcv_buf = <<>> /\ k.rcv_queue = <<>>
    BY DEF Created
<1> HIDE DEF k
<1>3. Len(<<>>) = 0 /\ \A i \in 1 .. 0 : FALSE
    OBVIOUS
<1>4. ASSUME NEW e \in End
      PROVE  Starts(e)[0 + 1] = 0 /\ 0 \in 0 .. Len(Messages[e])
    <2>1. Len(Messages[e]) \in Nat
        BY KcpAssumption, LenProperties
    <2>2. QED
        BY <2>1, PostsAre DEF Divides
<1>5. ASSUME NEW e \in End PROVE SendsRight(e, k, 0) /\ GetsRight(e, k, <<>>)
    <2>1. SenderRight(Posts(e), k) /\ ReceiverRight(Posts(e), k, 0)
        BY <1>2, <1>3 DEF SenderRight, ReceiverRight
    <2>2. QED
        BY <1>2, <1>3, <1>4, <2>1 DEF SendsRight, GetsRight
<1>6. \A posts : AllRight(posts, <<>>)
    BY <1>3 DEF AllRight
<1>7. QED
    BY <1>1, <1>3, <1>5, <1>6, Peers DEF Carried, k

\* Every copy of a segment, in either end and on its way, carries what was
\* posted under its number, and what was read are the first messages.
THEOREM CarriedHolds == Spec => []Carried
<1>1. Wire /\ Carried /\ [Next]_vars => Carried'
    <2> SUFFICES ASSUME Wire, Carried, [Next]_vars PROVE Carried'
        OBVIOUS
    <2>1. CASE UNCHANGED vars
        BY <2>1 DEF vars, Carried
    <2>2. ASSUME NEW e \in End, Send(e) PROVE Carried'
        BY <2>2, SendRight
    <2>3. ASSUME NEW e \in End, Recv(e) PROVE Carried'
        BY <2>3, RecvRight
    <2>4. ASSUME NEW e \in End, Input(e) PROVE Carried'
        BY <2>4, InputRight
    <2>5. ASSUME NEW e \in End, Lose(e) PROVE Carried'
        BY <2>5, LoseRight
    <2>6. ASSUME NEW e \in End, Update(e) PROVE Carried'
        BY <2>6, UpdateRight
    <2>7. QED
        BY <2>1, <2>2, <2>3, <2>4, <2>5, <2>6 DEF Next
<1>2. QED
    BY CarriedInit, WireHolds, <1>1, PTL DEF Spec

\* What is read at an end is what Transfer calls got of the other one.
LEMMA ReceivedIs ==
    ASSUME Wire, Carried, NEW e \in End
    PROVE  Received(e) = [i \in 1 .. Len(got[Peer(e)]) |-> i]
<1> DEFINE p == Peer(e)
           read == got[p]
<1>1. p \in End /\ Peer(p) = e /\ read \in Seq(Seq([msg : Nat, frg : Nat]))
    BY Peers DEF Wire, TypeOK
<1>2. DOMAIN read = 1 .. Len(read) /\ Len(read) \in Nat
    BY <1>1, LenProperties
<1>3. Len(read) \in 0 .. Len(Messages[e]) /\ \A i \in 1 .. Len(read) : read[i] = Whole(e, i)
    BY <1>1 DEF Carried, GetsRight
<1> HIDE DEF read
<1>4. ASSUME NEW i \in 1 .. Len(read) PROVE read[i][1].msg = i
    <2>1. i \in 1 .. Len(Messages[e])
        <3>1. Len(Messages[e]) \in Nat
            BY KcpAssumption, LenProperties
        <3>2. QED
            BY <1>2, <1>3, <3>1
    <2>2. Count(Messages[e][i]) \in Nat \ {0}
        BY <2>1, StartsAre
    <2>3. 1 \in 1 .. Count(Messages[e][i])
        BY <2>2
    <2>4. Whole(e, i)[1] = [msg |-> i, frg |-> Count(Messages[e][i]) - 1]
        BY <2>3 DEF Whole
    <2>5. read[i] = Whole(e, i)
        BY <1>3
    <2>6. QED
        BY <2>4, <2>5
<1>5. Received(e) = [i \in 1 .. Len(read) |->
                        IF read[i] = Whole(e, read[i][1].msg) THEN read[i][1].msg ELSE 0]
    BY <1>2 DEF Received, read, p
<1>6. QED
    BY <1>3, <1>4, <1>5 DEF read, p

\* Two ends of KCP implement two channels: what ikcp_recv returns at one end
\* are the messages ikcp_send took at the other, whole, once each and in order.
THEOREM KcpRefines == Spec => TransferSpec
<1>1. Init => Transfer!Init
    <2> SUFFICES ASSUME Init PROVE Transfer!Init
        OBVIOUS
    <2>1. ASSUME NEW e \in End PROVE Received(e) = <<>>
        <3>1. got[Peer(e)] = <<>>
            BY Peers DEF Init
        <3>2. QED
            BY <3>1 DEF Received
    <2>2. QED
        BY <2>1 DEF Init, Transfer!Init
<1> DEFINE Counted == \A e \in End : Received(e) = [i \in 1 .. Len(got[Peer(e)]) |-> i]
<1>2. Wire /\ Carried => Counted
    BY ReceivedIs
<1>3. Wire /\ Carried /\ Counted /\ Counted' /\ [Next]_vars
      => [Transfer!Next]_<<sent, [e \in End |-> Received(e)]>>
    <2> SUFFICES ASSUME Wire, Carried, Counted, Counted', [Next]_vars
                 PROVE  [Transfer!Next]_<<sent, [e \in End |-> Received(e)]>>
        OBVIOUS
    <2>1. \A e \in End : Received(e) = [i \in 1 .. Len(got[Peer(e)]) |-> i]
        OBVIOUS
    <2>2. \A e \in End : Received(e)' = [i \in 1 .. Len(got'[Peer(e)]) |-> i]
        OBVIOUS
    <2> HIDE DEF Counted
    <2>3. ASSUME sent' = sent, got' = got
          PROVE  UNCHANGED <<sent, [e \in End |-> Received(e)]>>
        BY <2>3 DEF Received
    <2>4. CASE UNCHANGED vars
        BY <2>3, <2>4 DEF vars
    <2>5. ASSUME NEW e \in End, Send(e) PROVE Transfer!Send(e)
        <3>1. sent' = [sent EXCEPT ![e] = sent[e] + 1] /\ got' = got
            BY <2>5 DEF Send
        <3>2. [f \in End |-> Received(f)]' = [f \in End |-> Received(f)]
            BY <3>1 DEF Received
        <3>3. QED
            BY <3>1, <3>2 DEF Transfer!Send
    <2>6. ASSUME NEW e \in End, Recv(e) PROVE Transfer!Deliver(Peer(e))
        <3> DEFINE p == Peer(e)
                   R == [f \in End |-> Received(f)]
        <3>1. p \in End /\ Peer(p) = e /\ \A f \in End : f # p => Peer(f) # e
            BY Peers
        <3>2. /\ got' = [got EXCEPT ![e] = Append(got[e], Whole(Peer(e), Len(got[e]) + 1))]
              /\ Len(got[e]) < sent[p] /\ sent' = sent
            BY <2>6, RecvRight
        <3>3. got \in [End -> Seq(Seq([msg : Nat, frg : Nat]))]
            BY DEF Wire, TypeOK
        <3> DEFINE n == Len(got[e])
        <3>4. n \in Nat /\ Len(got'[e]) = n + 1
            BY <3>2, <3>3, LenProperties
        <3>5. Received(p) = [i \in 1 .. n |-> i] /\ Received(p)' = [i \in 1 .. n + 1 |-> i]
            BY <2>1, <2>2, <3>1, <3>4
        <3>6. Received(p)' = Append(Received(p), Len(Received(p)) + 1) /\ Len(Received(p)) = n
            <4> HIDE DEF n
            <4>1. Len([i \in 1 .. n |-> i]) = n
                BY <3>4
            <4>2. Append([i \in 1 .. n |-> i], n + 1) = [i \in 1 .. n + 1 |-> i]
                BY <3>4
            <4>3. QED
                BY <3>5, <4>1, <4>2
        <3>7. ASSUME NEW f \in End, f # p PROVE Received(f)' = Received(f)
            <4>1. Peer(f) \in End /\ Peer(f) # e
                BY <3>1, <3>7, Peers
            <4>2. got'[Peer(f)] = got[Peer(f)]
                BY <3>2, <3>3, <4>1
            <4>3. QED
                BY <2>1, <2>2, <4>2
        <3>8. R' = [R EXCEPT ![p] = Append(R[p], Len(R[p]) + 1)]
            BY <3>1, <3>6, <3>7
        <3>9. Len(R[p]) < sent[p]
            BY <3>1, <3>2, <3>6
        <3>10. QED
            BY <3>2, <3>8, <3>9 DEF Transfer!Deliver
    <2>7. ASSUME NEW e \in End, Input(e) \/ Lose(e) \/ Update(e)
          PROVE  UNCHANGED <<sent, [f \in End |-> Received(f)]>>
        BY <2>3, <2>7, InputRight, LoseRight, UpdateRight
    <2>8. QED
        BY <2>4, <2>5, <2>6, <2>7, Peers DEF Next, Transfer!Next
<1>4. QED
    BY WireHolds, CarriedHolds, <1>1, <1>2, <1>3, PTL DEF Spec, TransferSpec, Transfer!Spec

=============================================================================
