---------------------------- MODULE TableLemmas ----------------------------
(***************************************************************************)
(* Lemmas about the operators the game server's model is built from: the   *)
(* slot search of CStaticArray and the removal of one node from a CWHList. *)
(***************************************************************************)
EXTENDS StaticArray, Sequences, SequencesExt, SequenceTheorems,
        WellFoundedInduction, TLAPS

\* A non-empty set of naturals has a least element, and Min names it.
LEMMA MinOfNaturals ==
    ASSUME NEW S \in SUBSET Nat, S # {}
    PROVE  Min(S) \in S /\ \A y \in S : Min(S) <= y
<1>1. PICK x \in S : \A y \in S : ~(<<y, x>> \in OpToRel(<, Nat))
    BY NatLessThanWellFounded, WFMin
<1>2. \A y \in S : x <= y
    <2>1. SUFFICES ASSUME NEW y \in S PROVE x <= y
        OBVIOUS
    <2>2. x \in Nat /\ y \in Nat
        OBVIOUS
    <2>3. ~(y < x)
        <3>1. ASSUME y < x PROVE <<y, x>> \in OpToRel(<, Nat)
            BY <2>2, <3>1 DEF OpToRel
        <3>2. QED
            BY <1>1, <3>1
    <2>4. QED
        BY <2>2, <2>3
<1>3. QED
    BY <1>2 DEF Min

\* A key GetFreeKey returns is that of a free slot; it returns none only from a
\* table that is full, and looks behind the table only when it is full too.
LEMMA GetFreeKeyResult ==
    ASSUME NEW size \in Nat, NEW free \in SUBSET (0 .. size - 1), NEW cursor \in Nat
    PROVE  LET key == GetFreeKey(free, size, cursor)
           IN  \/ key \in free
               \/ key \in {NoKey, Wild} /\ free = {}
<1>1. CASE {k \in free : k >= cursor} # {}
    <2>1. Min({k \in free : k >= cursor}) \in {k \in free : k >= cursor}
        BY <1>1, MinOfNaturals
    <2>2. QED
        BY <1>1, <2>1 DEF GetFreeKey
<1>2. CASE {k \in free : k >= cursor} = {} /\ free # {}
    <2>1. Min(free) \in free
        BY <1>2, MinOfNaturals
    <2>2. QED
        BY <1>2, <2>1 DEF GetFreeKey
<1>3. CASE free = {}
    BY <1>3 DEF GetFreeKey
<1>4. QED
    BY <1>1, <1>2, <1>3

\* The cursor moves up by at most one and stops one above the size.
LEMMA CursorAfterType ==
    ASSUME NEW size \in Nat, NEW cursor \in 0 .. size + 1, NEW key \in Int
    PROVE  CursorAfter(key, size, cursor) \in 0 .. size + 1
BY DEF CursorAfter

\* RemoveNodeByData: the list without the first node that holds e.
LEMMA RemoveFirstPosition ==
    ASSUME NEW S, NEW s \in Seq(S), NEW e, Contains(s, e)
    PROVE  \E i \in 1 .. Len(s) :
              /\ s[i] = e
              /\ RemoveFirst(s, e) \in Seq(S)
              /\ Len(RemoveFirst(s, e)) = Len(s) - 1
              /\ \A j \in 1 .. Len(s) - 1 :
                    RemoveFirst(s, e)[j] = IF j < i THEN s[j] ELSE s[j + 1]
<1> DEFINE I == {i \in 1 .. Len(s) : s[i] = e}
           i == Min(I)
<1>1. i \in I
    <2>1. I # {} /\ I \in SUBSET Nat
        BY DEF Contains
    <2>2. QED
        BY <2>1, MinOfNaturals
<1>2. RemoveFirst(s, e) = SubSeq(s, 1, i - 1) \o SubSeq(s, i + 1, Len(s))
    <2>1. \E j \in 1 .. Len(s) : s[j] = e
        BY DEF Contains
    <2>2. SelectInSeq(s, LAMBDA v : v = e) = i
        BY <1>1 DEF SelectInSeq
    <2>3. QED
        BY <2>1, <2>2 DEF RemoveFirst, RemoveAt
<1> DEFINE a == SubSeq(s, 1, i - 1)
           b == SubSeq(s, i + 1, Len(s))
<1>3. i \in 1 .. Len(s) /\ Len(s) \in Nat /\ s[i] = e
    BY <1>1
<1> HIDE DEF i
<1>4. /\ a \in Seq(S)
      /\ Len(a) = i - 1
      /\ \A j \in 1 .. i - 1 : a[j] = s[j]
    <2>1. \A j \in 1 .. i - 1 : s[j] \in S
        BY <1>3, ElementOfSeq
    <2>2. QED
        BY <1>3, <2>1, SubSeqProperties
<1>5. /\ b \in Seq(S)
      /\ Len(b) = Len(s) - i
      /\ \A j \in 1 .. Len(s) - i : b[j] = s[i + j]
    <2>1. \A j \in i + 1 .. Len(s) : s[j] \in S
        BY <1>3, ElementOfSeq
    <2>2. /\ SubSeq(s, i + 1, Len(s)) \in Seq(S)
          /\ Len(SubSeq(s, i + 1, Len(s))) =
                IF i + 1 <= Len(s) THEN Len(s) - (i + 1) + 1 ELSE 0
          /\ \A j \in 1 .. Len(s) - (i + 1) + 1 :
                SubSeq(s, i + 1, Len(s))[j] = s[(i + 1) + j - 1]
        BY <1>3, <2>1, SubSeqProperties
    <2>3. QED
        BY <1>3, <2>2
<1> HIDE DEF a, b
<1>6. /\ a \o b \in Seq(S)
      /\ Len(a \o b) = Len(a) + Len(b)
      /\ \A j \in 1 .. Len(a) + Len(b) :
            (a \o b)[j] = IF j <= Len(a) THEN a[j] ELSE b[j - Len(a)]
    BY <1>4, <1>5, ConcatProperties
<1>7. RemoveFirst(s, e) = a \o b
    BY <1>2 DEF a, b
<1>8. ASSUME NEW j \in 1 .. Len(s) - 1
      PROVE  (a \o b)[j] = IF j < i THEN s[j] ELSE s[j + 1]
    <2>1. CASE j < i
        BY <1>3, <1>4, <1>5, <1>6, <2>1
    <2>2. CASE ~(j < i)
        <3>1. j - (i - 1) \in 1 .. Len(s) - i
            BY <1>3, <2>2
        <3>2. (a \o b)[j] = b[j - (i - 1)]
            BY <1>3, <1>4, <1>5, <1>6, <2>2
        <3>3. b[j - (i - 1)] = s[i + (j - (i - 1))]
            BY <1>5, <3>1
        <3>4. i + (j - (i - 1)) = j + 1
            BY <1>3
        <3>5. QED
            BY <2>2, <3>2, <3>3, <3>4
    <2>3. QED
        BY <2>1, <2>2
<1>9. RemoveFirst(s, e) \in Seq(S) /\ Len(RemoveFirst(s, e)) = Len(s) - 1
    BY <1>3, <1>4, <1>5, <1>6, <1>7
<1>10. ASSUME NEW j \in 1 .. Len(s) - 1
       PROVE  RemoveFirst(s, e)[j] = IF j < i THEN s[j] ELSE s[j + 1]
    BY <1>7, <1>8
<1> HIDE DEF I
<1>11. QED
    BY <1>3, <1>9, <1>10

\* From a list without duplicates the removal takes exactly that element.
LEMMA RemoveFirstOnce ==
    ASSUME NEW S, NEW s \in Seq(S), NEW e, IsInjective(s), Contains(s, e)
    PROVE  /\ RemoveFirst(s, e) \in Seq(S)
           /\ Len(RemoveFirst(s, e)) = Len(s) - 1
           /\ IsInjective(RemoveFirst(s, e))
           /\ \A x : Contains(RemoveFirst(s, e), x) <=> Contains(s, x) /\ x # e
<1> DEFINE r == RemoveFirst(s, e)
<1>1. PICK i \in 1 .. Len(s) :
          /\ s[i] = e
          /\ r \in Seq(S)
          /\ Len(r) = Len(s) - 1
          /\ \A j \in 1 .. Len(s) - 1 : r[j] = IF j < i THEN s[j] ELSE s[j + 1]
    BY RemoveFirstPosition
<1> HIDE DEF r
<1>2. Len(s) \in Nat /\ DOMAIN s = 1 .. Len(s) /\ DOMAIN r = 1 .. Len(s) - 1
    BY <1>1, LenProperties
<1>3. \A j, k \in 1 .. Len(s) : s[j] = s[k] => j = k
    BY <1>2 DEF IsInjective
<1>4. IsInjective(r)
    <2>1. SUFFICES ASSUME NEW j \in 1 .. Len(s) - 1, NEW k \in 1 .. Len(s) - 1, r[j] = r[k]
                   PROVE  j = k
        BY <1>2 DEF IsInjective
    <2>2. QED
        BY <1>1, <1>2, <1>3, <2>1
<1>5. ASSUME NEW x, Contains(r, x) PROVE Contains(s, x) /\ x # e
    <2>1. PICK j \in 1 .. Len(s) - 1 : r[j] = x
        BY <1>1, <1>5 DEF Contains
    <2>2. CASE j < i
        BY <1>1, <1>2, <1>3, <2>1, <2>2 DEF Contains
    <2>3. CASE ~(j < i)
        <3>1. s[j + 1] = x /\ j + 1 \in 1 .. Len(s) /\ j + 1 # i
            BY <1>1, <1>2, <2>1, <2>3
        <3>2. QED
            BY <1>1, <1>3, <3>1 DEF Contains
    <2>4. QED
        BY <2>2, <2>3
<1>6. ASSUME NEW x, Contains(s, x), x # e PROVE Contains(r, x)
    <2>1. PICK j \in 1 .. Len(s) : s[j] = x
        BY <1>6 DEF Contains
    <2>2. CASE j < i
        <3>1. j \in 1 .. Len(s) - 1 /\ r[j] = x
            BY <1>1, <1>2, <2>1, <2>2
        <3>2. QED
            BY <1>1, <3>1 DEF Contains
    <2>3. CASE j > i
        <3>1. j - 1 \in 1 .. Len(s) - 1 /\ r[j - 1] = x
            BY <1>1, <1>2, <2>1, <2>3
        <3>2. QED
            BY <1>1, <3>1 DEF Contains
    <2>4. QED
        BY <1>1, <1>6, <2>1, <2>2, <2>3
<1>7. QED
    BY <1>1, <1>4, <1>5, <1>6 DEF r

\* A removal leaves a list of the same elements' type, found or not.
LEMMA RemoveFirstType ==
    ASSUME NEW S, NEW s \in Seq(S), NEW e
    PROVE  RemoveFirst(s, e) \in Seq(S)
<1>1. CASE Contains(s, e)
    BY <1>1, RemoveFirstPosition
<1>2. CASE ~Contains(s, e)
    BY <1>2 DEF RemoveFirst, Contains
<1>3. QED
    BY <1>1, <1>2

\* AddNewNode of something new keeps a list without duplicates.
LEMMA AppendOnce ==
    ASSUME NEW S, NEW s \in Seq(S), NEW e \in S, IsInjective(s), ~Contains(s, e)
    PROVE  /\ Append(s, e) \in Seq(S)
           /\ Len(Append(s, e)) = Len(s) + 1
           /\ IsInjective(Append(s, e))
           /\ \A x : Contains(Append(s, e), x) <=> Contains(s, x) \/ x = e
<1> DEFINE t == Append(s, e)
<1>1. /\ t \in Seq(S)
      /\ Len(t) = Len(s) + 1
      /\ Len(s) \in Nat
      /\ DOMAIN s = 1 .. Len(s)
      /\ DOMAIN t = 1 .. Len(s) + 1
      /\ \A j \in 1 .. Len(s) : t[j] = s[j]
      /\ t[Len(s) + 1] = e
    BY LenProperties, AppendProperties
<1> HIDE DEF t
<1>2. \A j \in 1 .. Len(s) : s[j] # e
    BY DEF Contains
<1>3. \A j, k \in 1 .. Len(s) : s[j] = s[k] => j = k
    BY <1>1 DEF IsInjective
<1>4. IsInjective(t)
    <2>1. SUFFICES ASSUME NEW j \in 1 .. Len(s) + 1, NEW k \in 1 .. Len(s) + 1, t[j] = t[k]
                   PROVE  j = k
        BY <1>1 DEF IsInjective
    <2>2. QED
        BY <1>1, <1>2, <1>3, <2>1
<1>5. ASSUME NEW x PROVE Contains(t, x) <=> Contains(s, x) \/ x = e
    <2>1. ASSUME Contains(t, x) PROVE Contains(s, x) \/ x = e
        <3>1. PICK j \in 1 .. Len(s) + 1 : t[j] = x
            BY <1>1, <2>1 DEF Contains
        <3>2. CASE j \in 1 .. Len(s)
            BY <1>1, <3>1, <3>2 DEF Contains
        <3>3. CASE j = Len(s) + 1
            BY <1>1, <3>1, <3>3
        <3>4. QED
            BY <1>1, <3>2, <3>3
    <2>2. ASSUME Contains(s, x) PROVE Contains(t, x)
        <3>1. PICK j \in 1 .. Len(s) : s[j] = x
            BY <2>2 DEF Contains
        <3>2. j \in 1 .. Len(t) /\ t[j] = x
            BY <1>1, <3>1
        <3>3. QED
            BY <3>2 DEF Contains
    <2>3. ASSUME x = e PROVE Contains(t, x)
        <3>1. Len(s) + 1 \in 1 .. Len(t) /\ t[Len(s) + 1] = x
            BY <1>1, <2>3
        <3>2. QED
            BY <3>1 DEF Contains
    <2>4. QED
        BY <2>1, <2>2, <2>3
<1>6. QED
    BY <1>1, <1>4, <1>5 DEF t

\* t is s with x behind it; t is s without the element at place i.
Longer(s, t, x) ==
    /\ Len(t) = Len(s) + 1 /\ t[Len(s) + 1] = x
    /\ \A j \in 1 .. Len(s) : t[j] = s[j]
Shorter(s, t, i) ==
    /\ i \in 1 .. Len(s) /\ Len(t) = Len(s) - 1
    /\ \A j \in 1 .. Len(s) - 1 : t[j] = IF j < i THEN s[j] ELSE s[j + 1]

LEMMA AppendIsLonger ==
    ASSUME NEW S, NEW s \in Seq(S), NEW x \in S
    PROVE  Append(s, x) \in Seq(S) /\ Longer(s, Append(s, x), x)
BY DEF Longer

LEMMA RemoveAtIsShorter ==
    ASSUME NEW S, NEW s \in Seq(S), NEW i \in 1 .. Len(s)
    PROVE  RemoveAt(s, i) \in Seq(S) /\ Shorter(s, RemoveAt(s, i), i)
<1> DEFINE a == SubSeq(s, 1, i - 1)
           b == SubSeq(s, i + 1, Len(s))
<1>1. Len(s) \in Nat /\ \A j \in 1 .. Len(s) : s[j] \in S
    BY LenProperties, ElementOfSeq
<1>2. a \in Seq(S) /\ Len(a) = i - 1 /\ \A j \in 1 .. i - 1 : a[j] = s[j]
    <2>1. \A j \in 1 .. i - 1 : s[j] \in S
        BY <1>1
    <2>2. /\ a \in Seq(S) /\ Len(a) = IF 1 <= i - 1 THEN i - 1 - 1 + 1 ELSE 0
          /\ \A j \in 1 .. i - 1 - 1 + 1 : a[j] = s[1 + j - 1]
        BY <2>1, SubSeqProperties
    <2> HIDE DEF a
    <2>3. QED
        BY <2>2
<1>3. /\ b \in Seq(S) /\ Len(b) = Len(s) - i
      /\ \A j \in 1 .. Len(s) - i : b[j] = s[i + j]
    <2>1. \A j \in i + 1 .. Len(s) : s[j] \in S
        BY <1>1
    <2>2. /\ b \in Seq(S) /\ Len(b) = IF i + 1 <= Len(s) THEN Len(s) - (i + 1) + 1 ELSE 0
          /\ \A j \in 1 .. Len(s) - (i + 1) + 1 : b[j] = s[i + 1 + j - 1]
        BY <1>1, <2>1, SubSeqProperties
    <2> HIDE DEF b
    <2>3. QED
        BY <1>1, <2>2
<1>4. RemoveAt(s, i) = a \o b
    BY DEF RemoveAt
<1> HIDE DEF a, b
<1>5. /\ a \o b \in Seq(S) /\ Len(a \o b) = Len(a) + Len(b)
      /\ \A j \in 1 .. Len(a) + Len(b) :
            (a \o b)[j] = IF j <= Len(a) THEN a[j] ELSE b[j - Len(a)]
    BY <1>2, <1>3, ConcatProperties
<1> DEFINE t == a \o b
<1>6. t = RemoveAt(s, i)
    BY <1>4
<1>7. /\ t \in Seq(S) /\ Len(t) = Len(s) - 1
      /\ \A j \in 1 .. Len(s) - 1 : t[j] = IF j <= i - 1 THEN a[j] ELSE b[j - (i - 1)]
    <2> HIDE DEF t
    <2>1. /\ t \in Seq(S) /\ Len(t) = Len(a) + Len(b)
          /\ \A j \in 1 .. Len(a) + Len(b) : t[j] = IF j <= Len(a) THEN a[j] ELSE b[j - Len(a)]
        BY <1>5 DEF t
    <2>2. QED
        BY <1>1, <1>2, <1>3, <2>1
<1> HIDE DEF t
<1>8. ASSUME NEW j \in 1 .. Len(s) - 1 PROVE t[j] = IF j < i THEN s[j] ELSE s[j + 1]
    <2>1. CASE j < i
        BY <1>1, <1>2, <1>7, <2>1
    <2>2. CASE ~ (j < i)
        <3>1. j - (i - 1) \in 1 .. Len(s) - i /\ i + (j - (i - 1)) = j + 1 /\ ~ (j <= i - 1)
            BY <1>1, <2>2
        <3>2. t[j] = b[j - (i - 1)]
            BY <1>7, <3>1
        <3>3. b[j - (i - 1)] = s[i + (j - (i - 1))]
            BY <1>3, <3>1
        <3>4. QED
            BY <2>2, <3>1, <3>2, <3>3
    <2>3. QED
        BY <2>1, <2>2
<1>9. QED
    BY <1>6, <1>7, <1>8 DEF Shorter

=============================================================================
