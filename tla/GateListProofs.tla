-------------------------- MODULE GateListProofs --------------------------
(***************************************************************************)
(* The list of gates with its three threads and one lock that excludes no  *)
(* one, for every number of gates and nodes.                               *)
(***************************************************************************)
EXTENDS GateList, TableLemmas, FiniteSetTheorems

-----------------------------------------------------------------------------
(* What makes these properties inductive.                                  *)

\* What is at place i of a sequence of nodes; NULL before and behind them.
At(s, i) == IF i \in DOMAIN s THEN s[i] ELSE NULL

\* c is the chain of the links nx from h on.
Chain(c, h, nx) ==
    /\ c \in Seq(Node) /\ IsInjective(c)
    /\ h = At(c, 1)
    /\ \A i \in DOMAIN c : nx[c[i]] = At(c, i + 1)

\* The linked nodes are allocated, and each holds a gate of its own.
Linked ==
    /\ Chain(Nodes, head, next)
    /\ \A i \in DOMAIN Nodes : Nodes[i] \in live /\ Listed[i] \in armed
    /\ IsInjective(Listed)

\* The links back, and m_lpTail, but for the steps the two writers have yet to take.
Backward ==
    /\ \A i \in DOMAIN Nodes :
          \/ prev[Nodes[i]] = At(Nodes, i - 1)
          \/ acceptor.pc = "back" /\ i = Len(Nodes)
          \/ worker.pc = "relink" /\ Nodes[i] = worker.next
    /\ tail = IF worker.pc = "relink" /\ worker.next = NULL THEN worker.node
              ELSE IF acceptor.pc \in {"back", "last"} THEN At(Nodes, Len(Nodes) - 1)
              ELSE At(Nodes, Len(Nodes))

\* The node the adder has in hand, before it is linked and behind.
AdderInv ==
    /\ acceptor.pc # "wait" => acceptor.gate \in armed
    /\ acceptor.pc \in {"alloc", "test", "first", "link"} =>
          /\ ~ Contains(Listed, acceptor.gate)
          /\ acceptor.gate \in lost => acceptor.gate \in early
    /\ acceptor.pc \in {"test", "first", "link"} =>
          /\ acceptor.node \in live /\ ~ Contains(Nodes, acceptor.node)
          /\ next[acceptor.node] = NULL /\ data[acceptor.node] = acceptor.gate
          /\ worker.pc \in {"relink", "free"} => worker.node # acceptor.node
    /\ acceptor.pc = "first" => Nodes = <<>>
    /\ acceptor.pc = "link" => Nodes # <<>>
    /\ acceptor.pc \in {"back", "last"} =>
          /\ Nodes # <<>> /\ acceptor.node = Nodes[Len(Nodes)]
          /\ acceptor.pc = "back" => Len(Nodes) >= 2

\* A walk at node n has gate g before it, n itself included or not.
Reaches(n, g) == \E i, j \in DOMAIN Nodes : i <= j /\ Nodes[i] = n /\ Listed[j] = g
Passes(n, g) == \E i, j \in DOMAIN Nodes : i < j /\ Nodes[i] = n /\ Listed[j] = g

\* The node the remover has in hand, while it is linked and behind.
RemoverInv ==
    /\ worker.pc = "search" =>
          /\ worker.node = NULL \/ Contains(Nodes, worker.node)
          /\ worker.gate \in early \/ Reaches(worker.node, worker.gate)
    /\ worker.pc = "unlink" =>
          \E i \in DOMAIN Nodes :
              /\ worker.node = Nodes[i] /\ worker.gate = Listed[i]
              /\ worker.prev = At(Nodes, i - 1) /\ worker.next = At(Nodes, i + 1)
    /\ worker.pc = "relink" =>
          \E i \in 0 .. Len(Nodes) :
              worker.prev = At(Nodes, i) /\ worker.next = At(Nodes, i + 1)
    /\ worker.pc \in {"relink", "free"} =>
          /\ worker.node \in live /\ ~ Contains(Nodes, worker.node)
          /\ next[worker.node] = worker.next
          /\ worker.next = NULL \/ Contains(Nodes, worker.next)

\* The main loop is at a linked node or at the one just taken out, and what it
\* owes lies ahead.
OnTheWay ==
    \/ stranded
    \/ /\ Contains(Nodes, main.node)
       /\ \A g \in owed : Reaches(main.node, g) /\ (main.pc = "next" => Passes(main.node, g))
    \/ /\ worker.pc \in {"relink", "free"} /\ main.node = worker.node
       /\ \A g \in owed : Reaches(worker.next, g)

WalkInv ==
    /\ main.pc \in {"visit", "next"} => main.node # NULL /\ OnTheWay
    /\ main.node = NULL \/ main.node \in live \/ stranded

\* As long as the two writers have not met.
ListInv == ~ Meeting /\ Linked /\ Backward /\ AdderInv /\ RemoverInv /\ WalkInv

\* How many increments and decrements there have been at most.
Additions == Cardinality(armed) - (IF acceptor.pc = "wait" THEN 0 ELSE 1)
Removals == Cardinality(lost) - (IF worker.pc = "wait" THEN 0 ELSE 1)
InBounds(n) == - Removals <= n /\ n <= Additions

CountInv ==
    /\ InBounds(count)
    /\ acceptor.pc = "inc" => InBounds(acceptor.count) /\ (bumped \/ acceptor.count = count)
    /\ worker.pc = "dec" => InBounds(worker.count) /\ (bumped \/ worker.count = count)
    /\ acceptor.pc = "inc" /\ worker.pc = "dec" => bumped

IInv ==
    /\ TypeOK /\ CountInv /\ OnlyStrandedDies /\ WalkComplete /\ CountAgrees /\ LostAreGone
    /\ met \/ ListInv

-----------------------------------------------------------------------------
(* Sequences of nodes.                                                     *)

\* A chain of links is what a walk along them comes by: at most MaxNodes nodes,
\* since none comes twice.
LEMMA ChainFits ==
    ASSUME NEW c \in Seq(Node), IsInjective(c)
    PROVE  Len(c) \in Nat /\ Len(c) <= MaxNodes
<1>1. Len(c) \in Nat /\ c \in [1 .. Len(c) -> Node] /\ MaxNodes \in Nat
    BY LenProperties, GateListAssumption
<1>2. c \in Injection(1 .. Len(c), Node)
    BY <1>1 DEF Injection
<1>3. IsFiniteSet(Node) /\ Cardinality(Node) = MaxNodes
    BY <1>1, FS_Interval DEF Node
<1>4. Cardinality(1 .. Len(c)) = Len(c)
    BY <1>1, FS_Interval
<1>5. QED
    BY <1>1, <1>2, <1>3, <1>4, FS_Injection

LEMMA NodesAre == \A c : Chain(c, head, next) => Nodes = c
<1> SUFFICES ASSUME NEW c, Chain(c, head, next) PROVE Nodes = c
    OBVIOUS
<1>1. /\ c \in Seq(Node) /\ IsInjective(c) /\ head = At(c, 1)
      /\ \A i \in DOMAIN c : next[c[i]] = At(c, i + 1)
    BY DEF Chain
<1>2. /\ Len(c) \in Nat /\ Len(c) <= MaxNodes /\ DOMAIN c = 1 .. Len(c)
      /\ \A i \in 1 .. Len(c) : c[i] \in Node
      /\ MaxNodes \in Nat
    BY <1>1, ChainFits, LenProperties, GateListAssumption
<1> DEFINE step(w) == [i \in 1 .. MaxNodes |-> IF i = 1 THEN head ELSE NextOf(w[i - 1])]
           w0 == [i \in 1 .. MaxNodes |-> At(c, i)]
<1>3. w0 = step(w0)
    <2>1. ASSUME NEW i \in 1 .. MaxNodes
          PROVE  At(c, i) = IF i = 1 THEN head ELSE NextOf(w0[i - 1])
        <3>1. CASE i = 1
            BY <1>1, <3>1
        <3>2. CASE i # 1 /\ i - 1 <= Len(c)
            <4>1. i - 1 \in DOMAIN c /\ i - 1 \in 1 .. MaxNodes /\ (i - 1) + 1 = i
                BY <1>2, <3>2
            <4>2. w0[i - 1] = c[i - 1] /\ c[i - 1] # NULL
                BY <1>2, <4>1 DEF At, NULL, Node
            <4>3. QED
                BY <1>1, <3>2, <4>1, <4>2 DEF NextOf
        <3>3. CASE i # 1 /\ ~ (i - 1 <= Len(c))
            <4>1. i - 1 \notin DOMAIN c /\ i \notin DOMAIN c /\ i - 1 \in 1 .. MaxNodes
                BY <1>2, <3>3
            <4>2. QED
                BY <3>3, <4>1 DEF At, NextOf
        <3>4. QED
            BY <3>1, <3>2, <3>3
    <2>2. QED
        BY <2>1
<1>4. Walk = step(Walk)
    <2>1. Walk = CHOOSE w : w = step(w)
        BY DEF Walk
    <2>2. QED
        BY <1>3, <2>1
<1>5. \A i \in 1 .. MaxNodes : Walk[i] = At(c, i)
    <2>1. SUFFICES ASSUME { i \in 1 .. MaxNodes : Walk[i] # At(c, i) } # {} PROVE FALSE
        OBVIOUS
    <2> DEFINE B == { i \in 1 .. MaxNodes : Walk[i] # At(c, i) }
               m == Min(B)
    <2>2. B \in SUBSET Nat
        BY <1>2
    <2>3. m \in B /\ \A y \in B : m <= y
        BY <2>1, <2>2, MinOfNaturals
    <2> HIDE DEF m
    <2>4. m # 1
        BY <1>1, <1>4, <2>3
    <2>5. m - 1 \in 1 .. MaxNodes /\ m - 1 \notin B
        BY <1>2, <2>3, <2>4
    <2>6. Walk[m - 1] = w0[m - 1]
        BY <2>5
    <2>7. Walk[m] = NextOf(Walk[m - 1]) /\ w0[m] = NextOf(w0[m - 1])
        <3> HIDE DEF w0, B
        <3>1. m \in 1 .. MaxNodes
            BY <2>3 DEF B
        <3>2. QED
            BY <1>3, <1>4, <2>4, <3>1
    <2>8. QED
        BY <2>3, <2>6, <2>7
<1>6. { j \in 1 .. MaxNodes : Walk[j] # NULL } = 1 .. Len(c)
    BY <1>2, <1>5 DEF At, Node, NULL
<1>7. Nodes = [i \in 1 .. Len(c) |-> c[i]]
    <2>1. \A i \in 1 .. Len(c) : Walk[i] = c[i]
        BY <1>2, <1>5 DEF At
    <2>2. QED
        BY <1>6, <2>1 DEF Nodes
<1>8. QED
    BY <1>1, <1>7, LenProperties

\* The same of the next state.
LEMMA NodesAreThen == (\A c : Chain(c, head, next) => Nodes = c)'
BY NodesAre, PTL

LEMMA NodesAreNext == \A c : Chain(c, head', next') => Nodes' = c
BY NodesAreThen

\* The same place by place: the first k elements of c are the chain.
Links(c, k, h, nx) ==
    /\ \A i, j \in 1 .. k : c[i] = c[j] => i = j
    /\ \A i \in 1 .. k : c[i] \in Node /\ nx[c[i]] = IF i = k THEN NULL ELSE c[i + 1]
    /\ h = IF k = 0 THEN NULL ELSE c[1]

LEMMA AtPlace ==
    ASSUME NEW c, NEW k \in Nat, DOMAIN c = 1 .. k
    PROVE  \A i \in Int : At(c, i) = IF i \in 1 .. k THEN c[i] ELSE NULL
BY DEF At

LEMMA ChainIsLinks ==
    ASSUME NEW c \in Seq(Node), NEW h, NEW nx
    PROVE  Chain(c, h, nx) <=> Links(c, Len(c), h, nx)
<1>0. Len(c) \in Nat /\ DOMAIN c = 1 .. Len(c)
    BY LenProperties
<1>1. Len(c) \in Nat /\ \A i \in 1 .. Len(c) : c[i] \in Node
    BY <1>0, ElementOfSeq
<1>2. \A i \in 0 .. Len(c) : At(c, i + 1) = IF i = Len(c) THEN NULL ELSE c[i + 1]
    <2>1. \A i \in Int : At(c, i) = IF i \in 1 .. Len(c) THEN c[i] ELSE NULL
        BY <1>0, AtPlace
    <2>2. QED
        BY <1>1, <2>1
<1>3. At(c, 1) = IF Len(c) = 0 THEN NULL ELSE c[1]
    <2>1. 0 \in 0 .. Len(c) /\ 0 + 1 = 1
        BY <1>1
    <2>2. QED
        BY <1>2, <2>1
<1>4. (\A i, j \in 1 .. Len(c) : c[i] = c[j] => i = j) <=> IsInjective(c)
    BY <1>1 DEF IsInjective
<1>5. (\A i \in 1 .. Len(c) : nx[c[i]] = IF i = Len(c) THEN NULL ELSE c[i + 1])
         <=> \A i \in DOMAIN c : nx[c[i]] = At(c, i + 1)
    BY <1>1, <1>2
<1>6. ASSUME Chain(c, h, nx) PROVE Links(c, Len(c), h, nx)
    <2>1. IsInjective(c) /\ h = At(c, 1) /\ \A i \in DOMAIN c : nx[c[i]] = At(c, i + 1)
        BY <1>6 DEF Chain
    <2>2. \A i \in 1 .. Len(c) : nx[c[i]] = IF i = Len(c) THEN NULL ELSE c[i + 1]
        BY <1>5, <2>1
    <2>3. QED
        BY <1>1, <1>3, <1>4, <2>1, <2>2 DEF Links
<1>7. ASSUME Links(c, Len(c), h, nx) PROVE Chain(c, h, nx)
    <2>1. /\ \A i, j \in 1 .. Len(c) : c[i] = c[j] => i = j
          /\ \A i \in 1 .. Len(c) : nx[c[i]] = IF i = Len(c) THEN NULL ELSE c[i + 1]
          /\ h = IF Len(c) = 0 THEN NULL ELSE c[1]
        BY <1>7 DEF Links
    <2>2. \A i \in DOMAIN c : nx[c[i]] = At(c, i + 1)
        BY <1>5, <2>1
    <2>3. IsInjective(c) /\ h = At(c, 1)
        BY <1>3, <1>4, <2>1
    <2>4. QED
        BY <2>2, <2>3 DEF Chain
<1>8. QED
    BY <1>6, <1>7

\* What AddNewNode and RemoveNodeByData do to the head h and the links nx of a
\* chain c: n is linked behind it; the node at place i is taken out.
LinkedBehind(c, k, n, h, nx, h1, nx1) ==
    /\ k = 0 => h1 = n /\ nx1 = nx
    /\ k # 0 => h1 = h /\ nx1 = [nx EXCEPT ![c[k]] = n]
TakenOut(c, k, i, h, nx, h1, nx1) ==
    LET after == IF i = k THEN NULL ELSE c[i + 1]
    IN  /\ i = 1 => h1 = after /\ nx1 = nx
        /\ i # 1 => h1 = h /\ nx1 = [nx EXCEPT ![c[i - 1]] = after]

\* The links then are a chain of the nodes with one more, or one less.
LEMMA LinksLonger ==
    ASSUME NEW c, NEW k \in Nat, NEW h, NEW nx \in [Node -> Place], Links(c, k, h, nx),
           NEW n \in Node, \A i \in 1 .. k : c[i] # n, nx[n] = NULL,
           NEW t, t[k + 1] = n, \A i \in 1 .. k : t[i] = c[i],
           NEW h1, NEW nx1, LinkedBehind(c, k, n, h, nx, h1, nx1)
    PROVE  Links(t, k + 1, h1, nx1)
<1>1. /\ \A i, j \in 1 .. k : c[i] = c[j] => i = j
      /\ \A i \in 1 .. k : c[i] \in Node /\ nx[c[i]] = IF i = k THEN NULL ELSE c[i + 1]
      /\ h = IF k = 0 THEN NULL ELSE c[1]
    BY DEF Links
<1>2. \A i, j \in 1 .. k + 1 : t[i] = t[j] => i = j
    BY <1>1
<1>3. h1 = IF k + 1 = 0 THEN NULL ELSE t[1]
    BY <1>1 DEF LinkedBehind
<1>4. ASSUME NEW i \in 1 .. k + 1
      PROVE  t[i] \in Node /\ nx1[t[i]] = IF i = k + 1 THEN NULL ELSE t[i + 1]
    <2>1. CASE i = k + 1
        <3>1. t[i] = n
            BY <2>1
        <3>2. nx1[n] = NULL
            <4>1. CASE k = 0
                BY <4>1 DEF LinkedBehind
            <4>2. CASE k # 0
                <5>1. c[k] # n /\ nx1 = [nx EXCEPT ![c[k]] = n]
                    BY <4>2 DEF LinkedBehind
                <5>2. QED
                    BY <5>1
            <4>3. QED
                BY <4>1, <4>2
        <3>3. QED
            BY <2>1, <3>1, <3>2
    <2>2. CASE i = k
        <3>1. k # 0 /\ t[i] = c[k] /\ t[i + 1] = n /\ c[k] \in Node
            BY <1>1, <2>2
        <3>2. nx1[c[k]] = n
            BY <3>1 DEF LinkedBehind
        <3>3. QED
            BY <2>2, <3>1, <3>2
    <2>3. CASE i < k
        <3>1. /\ k # 0 /\ t[i] = c[i] /\ t[i + 1] = c[i + 1] /\ c[i] \in Node /\ c[i] # c[k]
              /\ nx[c[i]] = c[i + 1]
            BY <1>1, <2>3
        <3>2. nx1[c[i]] = nx[c[i]]
            BY <3>1 DEF LinkedBehind
        <3>3. QED
            BY <2>3, <3>1, <3>2
    <2>4. QED
        BY <2>1, <2>2, <2>3
<1>5. QED
    BY <1>2, <1>3, <1>4 DEF Links

LEMMA LinksShorter ==
    ASSUME NEW c, NEW k \in Nat, NEW h, NEW nx \in [Node -> Place], Links(c, k, h, nx),
           NEW i \in 1 .. k,
           NEW t, \A j \in 1 .. k - 1 : t[j] = IF j < i THEN c[j] ELSE c[j + 1],
           NEW h1, NEW nx1, TakenOut(c, k, i, h, nx, h1, nx1)
    PROVE  Links(t, k - 1, h1, nx1)
<1> DEFINE after == IF i = k THEN NULL ELSE c[i + 1]
<1>1. /\ \A m, j \in 1 .. k : c[m] = c[j] => m = j
      /\ \A j \in 1 .. k : c[j] \in Node /\ nx[c[j]] = IF j = k THEN NULL ELSE c[j + 1]
      /\ h = IF k = 0 THEN NULL ELSE c[1]
    BY DEF Links
<1>2. \A m, j \in 1 .. k - 1 : t[m] = t[j] => m = j
    BY <1>1
<1>3. h1 = IF k - 1 = 0 THEN NULL ELSE t[1]
    BY <1>1 DEF TakenOut
<1>4. ASSUME NEW j \in 1 .. k - 1
      PROVE  t[j] \in Node /\ nx1[t[j]] = IF j = k - 1 THEN NULL ELSE t[j + 1]
    <2>1. CASE i = 1
        <3>1. nx1 = nx /\ t[j] = c[j + 1] /\ j + 1 \in 1 .. k
            BY <2>1 DEF TakenOut
        <3>2. c[j + 1] \in Node /\ nx[c[j + 1]] = IF j + 1 = k THEN NULL ELSE c[j + 1 + 1]
            BY <1>1, <3>1
        <3>3. j # k - 1 => t[j + 1] = c[j + 1 + 1]
            BY <2>1
        <3>4. QED
            BY <3>1, <3>2, <3>3
    <2>2. CASE i # 1 /\ j = i - 1
        <3>1. t[j] = c[j] /\ c[j] \in Node /\ nx1 = [nx EXCEPT ![c[j]] = after]
            BY <1>1, <2>2 DEF TakenOut
        <3>2. after = IF j = k - 1 THEN NULL ELSE t[j + 1]
            BY <2>2
        <3>3. QED
            <4> HIDE DEF after
            <4>1. nx1[c[j]] = after
                BY <3>1
            <4>2. QED
                BY <3>1, <3>2, <4>1
    <2>3. CASE i # 1 /\ j # i - 1
        <3> DEFINE m == IF j < i THEN j ELSE j + 1
        <3>1. /\ m \in 1 .. k /\ i - 1 \in 1 .. k /\ m # i - 1 /\ t[j] = c[m]
              /\ (m = k <=> j = k - 1) /\ (m # k => t[j + 1] = c[m + 1])
            BY <2>3
        <3> HIDE DEF m
        <3>2. /\ c[m] # c[i - 1] /\ c[m] \in Node
              /\ nx[c[m]] = IF m = k THEN NULL ELSE c[m + 1]
            BY <1>1, <3>1
        <3>3. nx1 = [nx EXCEPT ![c[i - 1]] = after]
            BY <2>3 DEF TakenOut
        <3>4. nx1[c[m]] = nx[c[m]]
            <4> HIDE DEF after
            <4>1. QED
                BY <3>2, <3>3
        <3>5. QED
            BY <3>1, <3>2, <3>4
    <2>4. QED
        BY <2>1, <2>2, <2>3
<1>5. QED
    BY <1>2, <1>3, <1>4 DEF Links
-----------------------------------------------------------------------------
(* The nodes of the list, place by place.                                  *)

Placed ==
    /\ Len(Nodes) \in Nat /\ DOMAIN Nodes = 1 .. Len(Nodes)
    /\ Len(Listed) = Len(Nodes) /\ DOMAIN Listed = 1 .. Len(Nodes)
    /\ Nodes = <<>> <=> Len(Nodes) = 0
    /\ \A i \in 1 .. Len(Nodes) : Nodes[i] \in Node /\ Nodes[i] \in live
    /\ \A i \in 1 .. Len(Nodes) : Listed[i] = data[Nodes[i]] /\ Listed[i] \in armed
    /\ \A i, j \in 1 .. Len(Nodes) : Nodes[i] = Nodes[j] => i = j
    /\ \A i, j \in 1 .. Len(Nodes) : Listed[i] = Listed[j] => i = j
    /\ \A x : Contains(Nodes, x) <=> \E i \in 1 .. Len(Nodes) : Nodes[i] = x
    /\ \A x : Contains(Listed, x) <=> \E i \in 1 .. Len(Nodes) : Listed[i] = x
    /\ \A i \in Int : At(Nodes, i) = IF i \in 1 .. Len(Nodes) THEN Nodes[i] ELSE NULL

LEMMA LinkedPlaced ==
    TypeOK /\ Linked =>
        /\ Nodes \in Seq(Node) /\ Listed \in Seq(Gate)
        /\ Links(Nodes, Len(Nodes), head, next) /\ Placed
<1> SUFFICES ASSUME TypeOK, Linked
             PROVE  /\ Nodes \in Seq(Node) /\ Listed \in Seq(Gate)
                    /\ Links(Nodes, Len(Nodes), head, next) /\ Placed
    OBVIOUS
<1>1. Nodes \in Seq(Node) /\ IsInjective(Nodes) /\ Links(Nodes, Len(Nodes), head, next)
    BY ChainIsLinks DEF Linked, Chain
<1> DEFINE k == Len(Nodes)
<1>2. k \in Nat /\ DOMAIN Nodes = 1 .. k
    BY <1>1, LenProperties
<1>3. \A i \in 1 .. k : Nodes[i] \in Node
    BY <1>1, ElementOfSeq
<1>4. Nodes = <<>> <=> k = 0
    BY <1>1, EmptySeq
<1>5. DOMAIN Listed = 1 .. k /\ \A i \in 1 .. k : Listed[i] = data[Nodes[i]]
    BY <1>2 DEF Listed
<1>6. \A i \in 1 .. k : Nodes[i] \in live /\ Listed[i] \in armed
    BY <1>2 DEF Linked
<1>7. Listed = [i \in 1 .. k |-> data[Nodes[i]]]
    BY <1>2 DEF Listed
<1>8. \A i \in 1 .. k : data[Nodes[i]] \in Gate
    BY <1>5, <1>6 DEF TypeOK
<1>9. Listed \in Seq(Gate) /\ Len(Listed) = k
    BY <1>2, <1>7, <1>8
<1>10. \A i \in Int : At(Nodes, i) = IF i \in 1 .. k THEN Nodes[i] ELSE NULL
    BY <1>2, AtPlace
<1>11. \A i, j \in 1 .. k : Nodes[i] = Nodes[j] => i = j
    BY <1>1, <1>2 DEF IsInjective
<1>12. \A i, j \in 1 .. k : Listed[i] = Listed[j] => i = j
    BY <1>5 DEF IsInjective, Linked
<1>13. \A x : Contains(Nodes, x) <=> \E i \in 1 .. k : Nodes[i] = x
    BY DEF Contains
<1>14. \A x : Contains(Listed, x) <=> \E i \in 1 .. k : Listed[i] = x
    BY <1>9 DEF Contains
<1>15. Len(Listed) = k /\ Listed \in Seq(Gate)
    BY <1>9
<1>16. Placed
    BY <1>2, <1>3, <1>4, <1>5, <1>6, <1>15, <1>10, <1>11, <1>12, <1>13, <1>14 DEF Placed
<1>17. QED
    BY <1>1, <1>15, <1>16

LEMMA LinkedPlacedThen ==
    (TypeOK /\ Linked =>
        /\ Nodes \in Seq(Node) /\ Listed \in Seq(Gate)
        /\ Links(Nodes, Len(Nodes), head, next) /\ Placed)'
BY LinkedPlaced, PTL

LEMMA LinkedPlacedNext ==
    TypeOK' /\ Linked' =>
        /\ Nodes' \in Seq(Node) /\ Listed' \in Seq(Gate)
        /\ Links(Nodes', Len(Nodes'), head', next') /\ Placed'
BY LinkedPlacedThen
-----------------------------------------------------------------------------
(* m_nCount.                                                               *)

\* The increments and the decrements begun or done never become fewer.
LEMMA Monotone ==
    TypeOK /\ Next =>
        /\ Additions \in Int /\ Removals \in Int /\ Additions' \in Int /\ Removals' \in Int
        /\ Additions <= Additions' /\ Removals <= Removals'
        /\ Increment => Additions' = Additions + 1
        /\ Decrement => Removals' = Removals + 1
<1> SUFFICES ASSUME TypeOK, Next
             PROVE  /\ Additions \in Int /\ Removals \in Int
                    /\ Additions' \in Int /\ Removals' \in Int
                    /\ Additions <= Additions' /\ Removals <= Removals'
                    /\ Increment => Additions' = Additions + 1
                    /\ Decrement => Removals' = Removals + 1
    OBVIOUS
<1> DEFINE a == Cardinality(armed)
           l == Cardinality(lost)
           p == IF acceptor.pc = "wait" THEN 0 ELSE 1
           q == IF worker.pc = "wait" THEN 0 ELSE 1
<1>1. IsFiniteSet(Gate) /\ armed \in SUBSET Gate /\ lost \in SUBSET Gate
    <2>1. IsFiniteSet(Gate)
        BY FS_Interval, GateListAssumption DEF Gate
    <2>2. QED
        BY <2>1 DEF TypeOK
<1>2. /\ IsFiniteSet(armed) /\ IsFiniteSet(lost) /\ a \in Nat /\ l \in Nat
    BY <1>1, FS_Subset, FS_CardinalityType
<1>3. \A g : /\ Cardinality(armed \cup {g}) = IF g \in armed THEN a ELSE a + 1
             /\ Cardinality(lost \cup {g}) = IF g \in lost THEN l ELSE l + 1
    BY <1>2, FS_AddElement
<1> HIDE DEF a, l
<1>4. Additions = a - p /\ Removals = l - q
    BY DEF Additions, Removals, a, l
<1>5. /\ Additions' = Cardinality(armed') - (IF acceptor'.pc = "wait" THEN 0 ELSE 1)
      /\ Removals' = Cardinality(lost') - (IF worker'.pc = "wait" THEN 0 ELSE 1)
    BY DEF Additions, Removals
<1>6. Step
    BY DEF Next
<1>7. ASSUME NEW g \in Gate, Accept(g)
      PROVE  /\ Cardinality(armed') = a + 1 /\ acceptor.pc = "wait" /\ acceptor'.pc # "wait"
             /\ lost' = lost /\ worker' = worker
    <2>1. armed = 1 .. g - 1 /\ armed' = armed \cup {g} /\ g \in Int
        BY <1>7, GateListAssumption DEF Accept, Gate
    <2>2. g \notin armed
        BY <2>1
    <2>3. Cardinality(armed') = a + 1
        BY <1>3, <2>1, <2>2
    <2>4. QED
        BY <1>7, <2>3 DEF Accept, Waiting
<1>8. ASSUME NEW g \in Gate, Lose(g)
      PROVE  /\ Cardinality(lost') = l + 1 /\ worker.pc = "wait" /\ worker'.pc # "wait"
             /\ armed' = armed /\ acceptor' = acceptor
    <2>1. Cardinality(lost') = l + 1
        BY <1>3, <1>8 DEF Lose
    <2>2. QED
        BY <1>8, <2>1 DEF Lose, Unoccupied
<1>9. ASSUME Adding
      PROVE  /\ armed' = armed /\ lost' = lost /\ worker' = worker /\ acceptor.pc # "wait"
             /\ Increment => acceptor'.pc = "wait"
    <2>1. CASE Allocate \/ TestHead \/ LinkFirst
        BY <2>1 DEF Allocate, TestHead, LinkFirst, Increment
    <2>2. CASE Link \/ LinkBack \/ SetLast
        BY <2>2 DEF Link, Dies, LinkBack, SetLast, Increment
    <2>3. CASE ReadToAdd \/ Increment
        BY <2>3 DEF ReadToAdd, Increment, Waiting
    <2>4. QED
        BY <1>9, <2>1, <2>2, <2>3 DEF Adding
<1>10. ASSUME Removing
       PROVE  /\ armed' = armed /\ lost' = lost /\ acceptor' = acceptor /\ worker.pc # "wait"
              /\ Decrement => worker'.pc = "wait"
    <2>1. CASE Search \/ Unlink
        BY <2>1 DEF Search, Dies, Unlink, Decrement
    <2>2. CASE Relink \/ FreeNode
        BY <2>2 DEF Relink, FreeNode, Decrement
    <2>3. CASE ReadToRemove \/ Decrement
        BY <2>3 DEF ReadToRemove, Decrement, Unoccupied
    <2>4. QED
        BY <1>10, <2>1, <2>2, <2>3 DEF Removing
<1>11. ASSUME MainLoop
       PROVE  armed' = armed /\ lost' = lost /\ acceptor' = acceptor /\ worker' = worker
    BY <1>11 DEF MainLoop, Scan, GetHead, Visit, GetNext, Dies
<1>12. ~ (Increment /\ Decrement)
    BY DEF Increment, Decrement, Waiting, Unoccupied
<1>13. armed' = armed => Cardinality(armed') = a
    BY DEF a
<1>14. lost' = lost => Cardinality(lost') = l
    BY DEF l
<1>15. Increment => acceptor.pc # "wait" /\ acceptor'.pc = "wait" /\ armed' = armed
    BY DEF Increment, Waiting
<1>16. Decrement => worker.pc # "wait" /\ worker'.pc = "wait" /\ lost' = lost
    BY DEF Decrement, Unoccupied
<1>17. /\ \/ Cardinality(armed') = a /\ (acceptor.pc = "wait" => acceptor'.pc = "wait")
          \/ Cardinality(armed') = a + 1 /\ acceptor.pc = "wait"
       /\ \/ Cardinality(lost') = l /\ (worker.pc = "wait" => worker'.pc = "wait")
          \/ Cardinality(lost') = l + 1 /\ worker.pc = "wait"
    <2>1. CASE \E g \in Gate : Accept(g)
        BY <1>7, <1>14, <2>1
    <2>2. CASE \E g \in Gate : Lose(g)
        BY <1>8, <1>13, <2>2
    <2>3. CASE Adding
        BY <1>9, <1>13, <1>14, <2>3
    <2>4. CASE Removing
        BY <1>10, <1>13, <1>14, <2>4
    <2>5. CASE MainLoop
        BY <1>11, <1>13, <1>14, <2>5
    <2>6. QED
        BY <1>6, <2>1, <2>2, <2>3, <2>4, <2>5 DEF Step
<1>18. QED
    BY <1>2, <1>4, <1>5, <1>13, <1>14, <1>15, <1>16, <1>17
\* The count and what the two threads have read of it stay within what has been
\* added and removed, and a reading is out of date only after an overlap.
LEMMA CountStep == TypeOK /\ CountInv /\ Next => CountInv'
<1> SUFFICES ASSUME TypeOK, CountInv, Next PROVE CountInv'
    OBVIOUS
<1> DEFINE B(n) == - Removals' <= n /\ n <= Additions'
<1>1. count \in Int /\ acceptor.count \in Int /\ worker.count \in Int
    BY GateListAssumption DEF TypeOK
<1>2. \A n \in Int : InBounds(n) => B(n)
    BY Monotone DEF InBounds
<1>3. /\ Increment => \A n \in Int : InBounds(n) => B(n + 1)
      /\ Decrement => \A n \in Int : InBounds(n) => B(n - 1)
    BY Monotone DEF InBounds
<1>4. /\ B(count') 
      /\ acceptor'.pc = "inc" => B(acceptor'.count) /\ (bumped' \/ acceptor'.count = count')
      /\ worker'.pc = "dec" => B(worker'.count) /\ (bumped' \/ worker'.count = count')
      /\ acceptor'.pc = "inc" /\ worker'.pc = "dec" => bumped'
      => CountInv'
    BY DEF CountInv, InBounds
<1> HIDE DEF B
<1>5. InBounds(count) /\ B(count)
    BY <1>1, <1>2 DEF CountInv
<1>6. bumped' = (bumped \/ (acceptor'.pc = "inc" /\ worker'.pc = "dec"))
    BY DEF Next, Witness
<1>7. acceptor'.pc = "inc" /\ worker'.pc = "dec" => bumped'
    BY <1>6, Zenon
<1>8. bumped => bumped'
    BY <1>6, Zenon
<1>9. acceptor.pc = "inc" =>
          /\ InBounds(acceptor.count) /\ B(acceptor.count)
          /\ bumped \/ acceptor.count = count
    BY <1>1, <1>2 DEF CountInv
<1>10. worker.pc = "dec" =>
          /\ InBounds(worker.count) /\ B(worker.count)
          /\ bumped \/ worker.count = count
    BY <1>1, <1>2 DEF CountInv
<1>11. acceptor.pc = "inc" /\ worker.pc = "dec" => bumped
    BY DEF CountInv
\* A step that neither reads nor writes the count.
<1>12. ASSUME /\ count' = count
              /\ acceptor'.pc = "inc" => acceptor.pc = "inc" /\ acceptor'.count = acceptor.count
              /\ worker'.pc = "dec" => worker.pc = "dec" /\ worker'.count = worker.count
       PROVE  CountInv'
    BY <1>4, <1>5, <1>7, <1>8, <1>9, <1>10, <1>12
<1>13. ASSUME NEW g \in Gate, Accept(g) PROVE CountInv'
    BY <1>12, <1>13 DEF Accept, Waiting, listVars
<1>14. ASSUME NEW g \in Gate, Lose(g) PROVE CountInv'
    BY <1>12, <1>14 DEF Lose, Unoccupied, listVars
<1>15. CASE Allocate \/ TestHead \/ LinkFirst
    BY <1>12, <1>15 DEF Allocate, TestHead, LinkFirst, listVars, TypeOK
<1>16. CASE Link
    BY <1>12, <1>16 DEF Link, Dies, listVars, TypeOK
<1>17. CASE LinkBack \/ SetLast
    BY <1>12, <1>17 DEF LinkBack, SetLast, TypeOK
<1>18. CASE ReadToAdd
    <2>1. /\ count' = count /\ worker' = worker
          /\ acceptor'.pc = "inc" /\ acceptor'.count = count
        BY <1>18 DEF ReadToAdd, listVars, TypeOK
    <2>2. QED
        BY <1>4, <1>5, <1>7, <1>8, <1>10, <2>1
<1>19. CASE Increment
    <2>1. /\ count' = acceptor.count + 1 /\ worker' = worker /\ acceptor'.pc # "inc"
          /\ acceptor.pc = "inc"
        BY <1>19 DEF Increment, Waiting
    <2>2. B(acceptor.count + 1)
        BY <1>1, <1>3, <1>9, <1>19, <2>1
    <2>3. QED
        BY <1>4, <1>8, <1>10, <1>11, <2>1, <2>2
<1>20. CASE Search
    <2>1. count' = count /\ acceptor' = acceptor
        BY <1>20 DEF Search, Dies, listVars
    <2>2. CASE worker.node \notin live \cup {NULL} \/ worker.node = NULL
        BY <1>12, <1>20, <2>1, <2>2 DEF Search, Dies, Unoccupied
    <2>3. CASE ~ (worker.node \notin live \cup {NULL} \/ worker.node = NULL)
        <3>1. \/ worker' = [worker EXCEPT !.pc = "unlink", !.next = next[worker.node],
                                           !.prev = prev[worker.node]]
              \/ worker' = [worker EXCEPT !.node = next[worker.node]]
            BY <1>20, <2>3 DEF Search
        <3>2. worker'.pc # "dec"
            BY <1>20, <3>1 DEF Search, TypeOK
        <3>3. QED
            BY <1>12, <2>1, <3>2
    <2>4. QED
        BY <2>2, <2>3
<1>21. CASE Unlink
    BY <1>12, <1>21 DEF Unlink, TypeOK
<1>22. CASE Relink
    BY <1>12, <1>22 DEF Relink, TypeOK
<1>23. CASE FreeNode
    BY <1>12, <1>23 DEF FreeNode, TypeOK
<1>24. CASE ReadToRemove
    <2>1. /\ count' = count /\ acceptor' = acceptor
          /\ worker'.pc = "dec" /\ worker'.count = count
        BY <1>24 DEF ReadToRemove, listVars, TypeOK
    <2>2. QED
        BY <1>4, <1>5, <1>7, <1>8, <1>9, <2>1
<1>25. CASE Decrement
    <2>1. /\ count' = worker.count - 1 /\ acceptor' = acceptor /\ worker'.pc # "dec"
          /\ worker.pc = "dec"
        BY <1>25 DEF Decrement, Unoccupied
    <2>2. B(worker.count - 1)
        BY <1>1, <1>3, <1>10, <1>25, <2>1
    <2>3. QED
        BY <1>4, <1>8, <1>9, <1>11, <2>1, <2>2
<1>26. CASE MainLoop
    <2>1. count' = count /\ acceptor' = acceptor /\ worker' = worker
        BY <1>26 DEF MainLoop, Scan, GetHead, Visit, GetNext, Dies, listVars
    <2>2. QED
        BY <1>12, <2>1
<1>27. QED
    BY <1>13, <1>14, <1>15, <1>16, <1>17, <1>18, <1>19, <1>20, <1>21, <1>22, <1>23, <1>24,
       <1>25, <1>26 DEF Next, Step, Adding, Removing
-----------------------------------------------------------------------------
(* Types.                                                                  *)

\* Each gate is added once and removed once.
LEMMA Limits ==
    armed \in SUBSET Gate /\ lost \in SUBSET armed =>
        Additions <= MaxGates /\ Removals <= MaxGates /\ Additions \in Int /\ Removals \in Int
<1> SUFFICES ASSUME armed \in SUBSET Gate, lost \in SUBSET armed
             PROVE  /\ Additions <= MaxGates /\ Removals <= MaxGates
                    /\ Additions \in Int /\ Removals \in Int
    OBVIOUS
<1>1. IsFiniteSet(Gate) /\ Cardinality(Gate) = MaxGates /\ MaxGates \in Nat
    BY FS_Interval, GateListAssumption DEF Gate
<1>2. lost \in SUBSET Gate
    OBVIOUS
<1>3. /\ Cardinality(armed) \in Nat /\ Cardinality(armed) <= MaxGates
      /\ Cardinality(lost) \in Nat /\ Cardinality(lost) <= MaxGates
    BY <1>1, <1>2, FS_Subset, FS_CardinalityType
<1>4. QED
    BY <1>1, <1>3 DEF Additions, Removals

LEMMA LimitsThen ==
    (armed \in SUBSET Gate /\ lost \in SUBSET armed =>
        Additions <= MaxGates /\ Removals <= MaxGates /\ Additions \in Int /\ Removals \in Int)'
BY Limits, PTL

LEMMA CountTyped ==
    ASSUME TypeOK, CountInv', armed' \in SUBSET Gate, lost' \in SUBSET armed', count' \in Int
    PROVE  count' \in -MaxGates .. MaxGates
<1>1. - Removals' <= count' /\ count' <= Additions'
    BY DEF CountInv, InBounds
<1>2. QED
    BY <1>1, LimitsThen, GateListAssumption

LEMMA TypeStep == TypeOK /\ CountInv /\ Linked /\ Next => TypeOK'
<1> SUFFICES ASSUME TypeOK, CountInv, Linked, Next PROVE TypeOK'
    OBVIOUS
<1>1. CountInv'
    BY CountStep
<1>2. <<up', met', bumped', stranded'>> \in BOOLEAN \X BOOLEAN \X BOOLEAN \X BOOLEAN
    <2>1. /\ met' = (met \/ Meeting')
          /\ bumped' = (bumped \/ (acceptor'.pc = "inc" /\ worker'.pc = "dec"))
          /\ stranded' = (stranded \/ (main'.node # NULL /\ main'.node \notin live'))
        BY DEF Next, Witness
    <2>2. met' \in BOOLEAN
        BY <2>1, Zenon
    <2>3. bumped' \in BOOLEAN
        BY <2>1, Zenon
    <2>4. stranded' \in BOOLEAN
        BY <2>1, Zenon
    <2>5. up' \in BOOLEAN
        BY DEF Next, Step, Adding, Removing, MainLoop, Accept, Lose, Allocate, TestHead, LinkFirst,
               Link, LinkBack, SetLast, ReadToAdd, Increment, Search, Unlink, Relink, FreeNode,
               ReadToRemove, Decrement, Scan, GetHead, Visit, GetNext, Dies, TypeOK
    <2>6. QED
        BY <2>2, <2>3, <2>4, <2>5
<1> DEFINE Tu == <<up', met', bumped', stranded'>> \in BOOLEAN \X BOOLEAN \X BOOLEAN \X BOOLEAN
<1>3. Tu
    BY <1>2
<1> HIDE DEF Tu
<1>4. NULL \in Place /\ Node \subseteq Place /\ 0 \in -MaxGates .. MaxGates
    BY GateListAssumption DEF Place
<1>5. ASSUME NEW g \in Gate, Accept(g) PROVE TypeOK'
    <2>1. armed' \in SUBSET Gate /\ lost' \in SUBSET armed'
        BY <1>5 DEF Accept, TypeOK
    <2>2. acceptor' \in [pc : {"wait", "alloc", "test", "first", "link", "back", "last", "count", "inc"},
                         gate : Gate \cup {NoGate}, node : Place, count : -MaxGates .. MaxGates]
        BY <1>4, <1>5 DEF Accept, Waiting
    <2>3. QED
        BY <1>3, <1>5, <2>1, <2>2 DEF Accept, TypeOK, listVars, Tu
<1>6. ASSUME NEW g \in Gate, Lose(g) PROVE TypeOK'
    <2>1. worker' \in [pc : {"wait", "search", "unlink", "relink", "free", "count", "dec"},
                       gate : Gate \cup {NoGate}, node : Place, next : Place, prev : Place,
                       count : -MaxGates .. MaxGates]
        BY <1>4, <1>6 DEF Lose, Unoccupied, TypeOK
    <2>2. lost' \in SUBSET armed' /\ early' \in SUBSET Gate
        BY <1>6 DEF Lose, TypeOK
    <2>3. QED
        BY <1>3, <1>6, <2>1, <2>2 DEF Lose, TypeOK, listVars, Tu
<1>7. CASE Allocate
    <2>1. PICK n \in Node :
              /\ live' = live \cup {n}
              /\ next' = [next EXCEPT ![n] = NULL]
              /\ prev' = [prev EXCEPT ![n] = NULL]
              /\ data' = [data EXCEPT ![n] = acceptor.gate]
              /\ acceptor' = [acceptor EXCEPT !.pc = "test", !.node = n]
        BY <1>7 DEF Allocate
    <2>2. /\ live' \in SUBSET Node /\ next' \in [Node -> Place] /\ prev' \in [Node -> Place]
          /\ data' \in [Node -> Gate \cup {NoGate}]
        BY <1>4, <2>1 DEF TypeOK
    <2>3. acceptor' \in [pc : {"wait", "alloc", "test", "first", "link", "back", "last", "count", "inc"},
                         gate : Gate \cup {NoGate}, node : Place, count : -MaxGates .. MaxGates]
        BY <1>4, <2>1 DEF TypeOK
    <2>4. QED
        BY <1>3, <1>7, <2>2, <2>3 DEF Allocate, TypeOK, Tu
<1>8. CASE TestHead
    BY <1>3, <1>8 DEF TestHead, TypeOK, listVars, Tu
<1>9. CASE LinkFirst
    BY <1>3, <1>4, <1>9 DEF LinkFirst, TypeOK, Tu
<1>10. CASE Link
    <2>1. CASE tail \in live
        BY <1>3, <1>4, <1>10, <2>1 DEF Link, TypeOK, Tu
    <2>2. CASE tail \notin live
        BY <1>3, <1>10, <2>2 DEF Link, Dies, listVars, TypeOK, Tu
    <2>3. QED
        BY <2>1, <2>2
<1>11. CASE LinkBack
    BY <1>3, <1>11 DEF LinkBack, TypeOK, Tu
<1>12. CASE SetLast
    BY <1>3, <1>4, <1>12 DEF SetLast, TypeOK, Tu
<1>13. CASE ReadToAdd
    BY <1>3, <1>13 DEF ReadToAdd, TypeOK, listVars, Tu
<1>14. CASE Increment
    <2>1. count' \in -MaxGates .. MaxGates
        <3>1. count' \in Int /\ armed' \in SUBSET Gate /\ lost' \in SUBSET armed'
            BY <1>14, GateListAssumption DEF Increment, TypeOK
        <3>2. QED
            BY <1>1, <3>1, CountTyped
    <2>2. acceptor' \in [pc : {"wait", "alloc", "test", "first", "link", "back", "last", "count", "inc"},
                         gate : Gate \cup {NoGate}, node : Place, count : -MaxGates .. MaxGates]
        BY <1>4, <1>14 DEF Increment, Waiting
    <2>3. QED
        BY <1>3, <1>14, <2>1, <2>2 DEF Increment, TypeOK, Tu
<1>15. CASE Search
    <2>1. worker' \in [pc : {"wait", "search", "unlink", "relink", "free", "count", "dec"},
                       gate : Gate \cup {NoGate}, node : Place, next : Place, prev : Place,
                       count : -MaxGates .. MaxGates]
        <3>1. CASE worker.node \notin live \cup {NULL}
            BY <1>15, <3>1 DEF Search, Dies, TypeOK
        <3>2. CASE worker.node = NULL
            BY <1>4, <1>15, <3>2 DEF Search, Unoccupied
        <3>3. CASE worker.node \in live /\ worker.node # NULL
            <4>1. next[worker.node] \in Place /\ prev[worker.node] \in Place
                BY <3>3 DEF TypeOK
            <4>2. \/ worker' = [worker EXCEPT !.pc = "unlink", !.next = next[worker.node],
                                              !.prev = prev[worker.node]]
                  \/ worker' = [worker EXCEPT !.node = next[worker.node]]
                BY <1>15, <3>3 DEF Search
            <4>3. QED
                BY <4>1, <4>2 DEF TypeOK
        <3>4. QED
            BY <3>1, <3>2, <3>3
    <2>2. QED
        BY <1>3, <1>15, <2>1 DEF Search, Dies, TypeOK, listVars, Tu
<1>16. CASE Unlink
    <2>1. head' \in Place /\ next' \in [Node -> Place]
        BY <1>16 DEF Unlink, TypeOK
    <2>2. QED
        BY <1>3, <1>16, <2>1 DEF Unlink, TypeOK, Tu
<1>17. CASE Relink
    <2>1. tail' \in Place /\ prev' \in [Node -> Place]
        BY <1>17 DEF Relink, TypeOK
    <2>2. QED
        BY <1>3, <1>17, <2>1 DEF Relink, TypeOK, Tu
<1>18. CASE FreeNode
    BY <1>3, <1>4, <1>18 DEF FreeNode, TypeOK, Tu
<1>19. CASE ReadToRemove
    BY <1>3, <1>19 DEF ReadToRemove, TypeOK, listVars, Tu
<1>20. CASE Decrement
    <2>1. count' \in -MaxGates .. MaxGates
        <3>1. count' \in Int /\ armed' \in SUBSET Gate /\ lost' \in SUBSET armed'
            BY <1>20, GateListAssumption DEF Decrement, TypeOK
        <3>2. QED
            BY <1>1, <3>1, CountTyped
    <2>2. worker' \in [pc : {"wait", "search", "unlink", "relink", "free", "count", "dec"},
                       gate : Gate \cup {NoGate}, node : Place, next : Place, prev : Place,
                       count : -MaxGates .. MaxGates]
        BY <1>4, <1>20 DEF Decrement, Unoccupied
    <2>3. QED
        BY <1>3, <1>20, <2>1, <2>2 DEF Decrement, TypeOK, Tu
<1>21. CASE Scan
    BY <1>3, <1>21 DEF Scan, TypeOK, listVars, Tu
<1>22. CASE GetHead
    <2>1. { Listed[i] : i \in DOMAIN Listed } \in SUBSET Gate
        <3>1. DOMAIN Listed = DOMAIN Nodes
            BY DEF Listed
        <3>2. \A i \in DOMAIN Nodes : Listed[i] \in armed
            BY DEF Linked
        <3>3. QED
            BY <3>1, <3>2 DEF TypeOK
    <2>2. QED
        BY <1>3, <1>22, <2>1 DEF GetHead, TypeOK, listVars, Tu
<1>23. CASE Visit
    BY <1>3, <1>23 DEF Visit, Dies, TypeOK, listVars, Tu
<1>24. CASE GetNext
    <2>1. main' \in [pc : {"scan", "head", "visit", "next"}, node : Place]
        BY <1>24 DEF GetNext, Dies, TypeOK
    <2>2. QED
        BY <1>3, <1>24, <2>1 DEF GetNext, Dies, TypeOK, listVars, Tu
<1>25. QED
    BY <1>5, <1>6, <1>7, <1>8, <1>9, <1>10, <1>11, <1>12, <1>13, <1>14, <1>15, <1>16, <1>17,
       <1>18, <1>19, <1>20, <1>21, <1>22, <1>23, <1>24 DEF Next, Step, Adding, Removing, MainLoop
-----------------------------------------------------------------------------
(* The links.                                                              *)

\* As long as the adder and the remover do not meet, m_lpTail is the last node
\* when the adder reads it.
LEMMA TailIsLast ==
    ASSUME TypeOK, ListInv, acceptor.pc \in {"first", "link"}
    PROVE  tail = At(Nodes, Len(Nodes))
<1>1. ~ (worker.pc = "relink" /\ worker.next = NULL /\ tail = worker.node)
    BY DEF ListInv, Meeting
<1>2. QED
    BY <1>1 DEF ListInv, Backward

LEMMA LinkAlive ==
    ASSUME TypeOK, ListInv, Link
    PROVE  Len(Nodes) # 0 /\ tail = Nodes[Len(Nodes)] /\ tail \in live
<1>1. acceptor.pc = "link"
    BY DEF Link
<1>2. Placed
    BY LinkedPlaced DEF ListInv
<1>3. Len(Nodes) # 0 /\ Len(Nodes) \in 1 .. Len(Nodes)
    BY <1>1, <1>2 DEF Placed, ListInv, AdderInv
<1>4. tail = Nodes[Len(Nodes)]
    BY <1>1, <1>2, <1>3, TailIsLast DEF Placed
<1>5. QED
    BY <1>2, <1>3, <1>4 DEF Placed

\* What a step can do to the list.
Kept == Nodes' = Nodes /\ Listed' = Listed
Grown ==
    /\ Longer(Nodes, Nodes', acceptor.node) /\ Longer(Listed, Listed', acceptor.gate)
    /\ Nodes' = Append(Nodes, acceptor.node)
Cut(i) ==
    /\ Nodes[i] = worker.node /\ Listed[i] = worker.gate
    /\ worker.prev = At(Nodes, i - 1) /\ worker.next = At(Nodes, i + 1)
    /\ Shorter(Nodes, Nodes', i) /\ Shorter(Listed, Listed', i)

LEMMA KeptLinked ==
    ASSUME TypeOK, Linked, head' = head, armed \subseteq armed',
           \A i \in 1 .. Len(Nodes) :
              /\ next'[Nodes[i]] = next[Nodes[i]] /\ data'[Nodes[i]] = data[Nodes[i]]
              /\ Nodes[i] \in live'
    PROVE  Kept /\ Linked'
<1>1. /\ Nodes \in Seq(Node) /\ DOMAIN Nodes = 1 .. Len(Nodes)
      /\ Chain(Nodes, head, next)
    BY LinkedPlaced DEF Placed, Linked
<1>2. Chain(Nodes, head', next')
    BY <1>1 DEF Chain
<1>3. Nodes' = Nodes
    BY <1>2, NodesAreNext
<1>4. Listed' = [i \in DOMAIN Nodes' |-> data'[Nodes'[i]]]
    BY DEF Listed
<1>5. \A i \in DOMAIN Nodes : data'[Nodes[i]] = data[Nodes[i]] /\ Nodes[i] \in live'
    BY <1>1
<1>6. Listed' = Listed
    BY <1>3, <1>4, <1>5 DEF Listed
<1>7. Linked'
    <2>1. Chain(Nodes', head', next')
        BY <1>2, <1>3
    <2>2. \A i \in DOMAIN Nodes' : Nodes'[i] \in live' /\ Listed'[i] \in armed'
        BY <1>3, <1>5, <1>6 DEF Linked
    <2>3. IsInjective(Listed')
        BY <1>6 DEF Linked
    <2>4. QED
        BY <2>1, <2>2, <2>3 DEF Linked
<1>8. QED
    BY <1>3, <1>6, <1>7 DEF Kept

LEMMA GrownLinked ==
    ASSUME TypeOK, ListInv, LinkFirst \/ Link
    PROVE  Grown /\ Linked'
<1> DEFINE k == Len(Nodes)
           n == acceptor.node
           t == Append(Nodes, n)
<1>1. /\ Placed /\ Nodes \in Seq(Node) /\ Links(Nodes, k, head, next)
    BY LinkedPlaced DEF ListInv
<1>2. acceptor.pc \in {"first", "link"}
    BY DEF LinkFirst, Link
<1>3. /\ n \in live /\ ~ Contains(Nodes, n) /\ next[n] = NULL /\ data[n] = acceptor.gate
      /\ ~ Contains(Listed, acceptor.gate) /\ acceptor.gate \in armed
    BY <1>2 DEF ListInv, AdderInv
<1>4. n \in Node /\ next \in [Node -> Place]
    BY <1>3 DEF TypeOK
<1>5. k \in Nat /\ DOMAIN Nodes = 1 .. k /\ \A i \in 1 .. k : Nodes[i] # n
    BY <1>1, <1>3 DEF Placed
<1>6. LinkedBehind(Nodes, k, n, head, next, head', next')
    <2>1. CASE LinkFirst
        <3>1. k = 0
            BY <1>1, <2>1 DEF LinkFirst, ListInv, AdderInv, Placed
        <3>2. QED
            BY <2>1, <3>1 DEF LinkFirst, LinkedBehind
    <2>2. CASE Link
        <3>1. k # 0 /\ tail = Nodes[k] /\ tail \in live
            BY <2>2, LinkAlive
        <3>2. QED
            BY <2>2, <3>1 DEF Link, LinkedBehind
    <2>3. QED
        BY <2>1, <2>2
<1>7. t \in Seq(Node) /\ Longer(Nodes, t, n)
    BY <1>1, <1>4, AppendIsLonger
<1> HIDE DEF t
<1>8. t[k + 1] = n /\ Len(t) = k + 1 /\ \A i \in 1 .. k : t[i] = Nodes[i]
    BY <1>7 DEF Longer
<1>9. Links(t, k + 1, head', next')
    BY <1>1, <1>3, <1>4, <1>5, <1>6, <1>8, LinksLonger
<1>10. Chain(t, head', next')
    BY <1>7, <1>8, <1>9, ChainIsLinks
<1>11. Nodes' = t
    BY <1>10, NodesAreNext
<1>12. DOMAIN t = 1 .. k + 1
    BY <1>7, <1>8, LenProperties
<1>13. /\ live' = live /\ armed' = armed /\ data' = data
    BY LinkAlive DEF LinkFirst, Link
<1>14. Listed' = [i \in 1 .. k + 1 |-> data[t[i]]]
    BY <1>11, <1>12, <1>13 DEF Listed
<1>15. \A i \in 1 .. k : Listed'[i] = Listed[i]
    BY <1>1, <1>8, <1>14 DEF Placed
<1>16. Listed'[k + 1] = acceptor.gate
    BY <1>3, <1>5, <1>8, <1>14
<1>17. Len(Listed') = k + 1
    BY <1>5, <1>14
<1>18. Longer(Listed, Listed', acceptor.gate)
    BY <1>1, <1>15, <1>16, <1>17 DEF Longer, Placed
<1>19. IsInjective(Listed')
    <2>1. DOMAIN Listed' = 1 .. k + 1
        BY <1>14
    <2>2. /\ \A i \in 1 .. k : Listed[i] # acceptor.gate
          /\ \A i, j \in 1 .. k : Listed[i] = Listed[j] => i = j
        BY <1>1, <1>3 DEF Placed
    <2>3. \A i, j \in 1 .. k + 1 : Listed'[i] = Listed'[j] => i = j
        BY <1>5, <1>15, <1>16, <2>2
    <2>4. QED
        BY <2>1, <2>3 DEF IsInjective
<1>20. \A i \in 1 .. k + 1 : t[i] \in live /\ Listed'[i] \in armed
    BY <1>1, <1>3, <1>5, <1>8, <1>15, <1>16 DEF Placed
<1>21. Linked'
    BY <1>10, <1>11, <1>12, <1>13, <1>19, <1>20 DEF Linked
<1>22. QED
    <2>1. Nodes' = Append(Nodes, acceptor.node)
        BY <1>11 DEF t
    <2>2. QED
        BY <1>7, <1>11, <1>18, <1>21, <2>1 DEF Grown

LEMMA CutLinked ==
    ASSUME TypeOK, ListInv, Unlink
    PROVE  (\E i \in 1 .. Len(Nodes) : Cut(i)) /\ Linked'
<1> DEFINE k == Len(Nodes)
<1>1. /\ Placed /\ Nodes \in Seq(Node) /\ Links(Nodes, k, head, next)
    BY LinkedPlaced DEF ListInv
<1>2. PICK i \in 1 .. k :
          /\ worker.node = Nodes[i] /\ worker.gate = Listed[i]
          /\ worker.prev = At(Nodes, i - 1) /\ worker.next = At(Nodes, i + 1)
    BY <1>1 DEF Unlink, ListInv, RemoverInv, Placed
<1>3. /\ k \in Nat /\ next \in [Node -> Place]
      /\ \A j \in 1 .. k : Nodes[j] # NULL
    BY <1>1 DEF Placed, TypeOK, Node, NULL
<1>4. /\ worker.prev = IF i = 1 THEN NULL ELSE Nodes[i - 1]
      /\ worker.next = IF i = k THEN NULL ELSE Nodes[i + 1]
    <2>1. \A j \in Int : At(Nodes, j) = IF j \in 1 .. k THEN Nodes[j] ELSE NULL
        BY <1>1 DEF Placed
    <2>2. /\ i - 1 \in Int /\ i + 1 \in Int
          /\ i - 1 \in 1 .. k <=> i # 1
          /\ i + 1 \in 1 .. k <=> i # k
        BY <1>3
    <2>3. QED
        BY <1>2, <2>1, <2>2
<1>5. TakenOut(Nodes, k, i, head, next, head', next')
    <2>1. CASE i = 1
        BY <1>4, <2>1 DEF Unlink, TakenOut
    <2>2. CASE i # 1
        <3>1. worker.prev = Nodes[i - 1] /\ worker.prev # NULL
            BY <1>3, <1>4, <2>2
        <3>2. QED
            BY <1>4, <2>2, <3>1 DEF Unlink, TakenOut
    <2>3. QED
        BY <2>1, <2>2
<1> DEFINE t == RemoveAt(Nodes, i)
<1>6. t \in Seq(Node) /\ Shorter(Nodes, t, i)
    BY <1>1, RemoveAtIsShorter
<1> HIDE DEF t
<1>7. Len(t) = k - 1 /\ \A j \in 1 .. k - 1 : t[j] = IF j < i THEN Nodes[j] ELSE Nodes[j + 1]
    BY <1>6 DEF Shorter
<1>8. Links(t, k - 1, head', next')
    BY <1>1, <1>3, <1>5, <1>7, LinksShorter
<1>9. Chain(t, head', next')
    BY <1>6, <1>7, <1>8, ChainIsLinks
<1>10. Nodes' = t
    BY <1>9, NodesAreNext
<1>11. DOMAIN t = 1 .. k - 1
    BY <1>6, <1>7, LenProperties
<1>12. live' = live /\ armed' = armed /\ data' = data
    BY DEF Unlink
<1>13. Listed' = [j \in 1 .. k - 1 |-> data[t[j]]]
    BY <1>10, <1>11, <1>12 DEF Listed
<1>14. Len(Listed') = k - 1 /\ DOMAIN Listed' = 1 .. k - 1
    BY <1>3, <1>13
<1>15. \A j \in 1 .. k - 1 : Listed'[j] = IF j < i THEN Listed[j] ELSE Listed[j + 1]
    BY <1>1, <1>3, <1>7, <1>13 DEF Placed
<1>16. Shorter(Listed, Listed', i)
    BY <1>1, <1>14, <1>15 DEF Shorter, Placed
<1>17. IsInjective(Listed')
    <2>1. \A m, j \in 1 .. k : Listed[m] = Listed[j] => m = j
        BY <1>1 DEF Placed
    <2>2. \A m, j \in 1 .. k - 1 : Listed'[m] = Listed'[j] => m = j
        BY <1>3, <1>15, <2>1
    <2>3. QED
        BY <1>14, <2>2 DEF IsInjective
<1>18. \A j \in 1 .. k - 1 : t[j] \in live /\ Listed'[j] \in armed
    BY <1>1, <1>3, <1>7, <1>15 DEF Placed
<1>19. Linked'
    BY <1>9, <1>10, <1>11, <1>12, <1>17, <1>18 DEF Linked
<1>20. Cut(i)
    BY <1>2, <1>6, <1>10, <1>16 DEF Cut
<1>21. QED
    BY <1>19, <1>20
\* The list stays a chain: AddNewNode puts a node behind it, RemoveNodeByData
\* takes one out, and nothing else moves.
LEMMA NodesStep ==
    TypeOK /\ ListInv /\ Next =>
        /\ Linked'
        /\ LinkFirst \/ Link => Grown
        /\ Unlink => \E i \in 1 .. Len(Nodes) : Cut(i)
        /\ ~ (LinkFirst \/ Link \/ Unlink) => Kept
<1> SUFFICES ASSUME TypeOK, ListInv, Next
             PROVE  /\ Linked'
                    /\ LinkFirst \/ Link => Grown
                    /\ Unlink => \E i \in 1 .. Len(Nodes) : Cut(i)
                    /\ ~ (LinkFirst \/ Link \/ Unlink) => Kept
    OBVIOUS
<1>0. ~ ((LinkFirst \/ Link) /\ Unlink)
    <2>1. Unlink => worker.pc = "unlink" /\ worker'.pc = "relink"
        BY DEF Unlink, TypeOK
    <2>2. LinkFirst \/ Link => worker' = worker
        BY DEF LinkFirst, Link, Dies
    <2>3. QED
        BY <2>1, <2>2
<1>1. CASE LinkFirst \/ Link
    <2>1. ~ Unlink
        BY <1>1, <1>0
    <2>2. QED
        BY <1>1, <2>1, GrownLinked
<1>2. CASE Unlink
    <2>1. ~ LinkFirst /\ ~ Link
        BY <1>2, <1>0
    <2>2. QED
        BY <1>2, <2>1, CutLinked
<1>3. CASE ~ (LinkFirst \/ Link \/ Unlink)
    <2> SUFFICES Kept /\ Linked'
        BY <1>3
    <2>1. Placed /\ Links(Nodes, Len(Nodes), head, next)
        BY LinkedPlaced DEF ListInv
    <2>2. \A i \in 1 .. Len(Nodes) : Nodes[i] \in Node /\ Nodes[i] \in live
        BY <2>1 DEF Placed
    <2>3. ASSUME head' = head, armed \subseteq armed',
                 \A i \in 1 .. Len(Nodes) :
                    /\ next'[Nodes[i]] = next[Nodes[i]] /\ data'[Nodes[i]] = data[Nodes[i]]
                    /\ Nodes[i] \in live'
          PROVE  Kept /\ Linked'
        BY <2>3, KeptLinked DEF ListInv
    <2>4. ASSUME head' = head, armed' = armed, next' = next, data' = data, live' = live
          PROVE  Kept /\ Linked'
        <3>1. armed \subseteq armed' /\ \A i \in 1 .. Len(Nodes) : Nodes[i] \in live'
            BY <2>2, <2>4
        <3>2. QED
            BY <2>3, <2>4, <3>1
    <2>5. ASSUME NEW g \in Gate, Accept(g) PROVE Kept /\ Linked'
        BY <2>2, <2>3, <2>5 DEF Accept, listVars
    <2>6. ASSUME NEW g \in Gate, Lose(g) PROVE Kept /\ Linked'
        BY <2>4, <2>6 DEF Lose, listVars
    <2>7. CASE Allocate
        <3>1. PICK n \in Node \ live :
                  /\ live' = live \cup {n}
                  /\ next' = [next EXCEPT ![n] = NULL]
                  /\ data' = [data EXCEPT ![n] = acceptor.gate]
            BY <2>7 DEF Allocate
        <3>2. ASSUME NEW i \in 1 .. Len(Nodes)
              PROVE  /\ next'[Nodes[i]] = next[Nodes[i]] /\ data'[Nodes[i]] = data[Nodes[i]]
                     /\ Nodes[i] \in live'
            <4>1. Nodes[i] # n /\ Nodes[i] \in Node /\ Nodes[i] \in live
                BY <2>2
            <4>2. QED
                BY <3>1, <4>1 DEF TypeOK
        <3>3. head' = head /\ armed \subseteq armed'
            BY <2>7 DEF Allocate
        <3>4. QED
            BY <2>3, <3>2, <3>3
    <2>8. CASE TestHead \/ LinkBack \/ ReadToAdd \/ Increment
        BY <2>4, <2>8 DEF TestHead, LinkBack, ReadToAdd, Increment, listVars
    <2>9. CASE SetLast
        <3>1. Len(Nodes) # 0 /\ acceptor.node = Nodes[Len(Nodes)]
            BY <2>1, <2>9 DEF SetLast, ListInv, AdderInv, Placed
        <3>2. Len(Nodes) \in Nat /\ Len(Nodes) \in 1 .. Len(Nodes)
            BY <2>1, <3>1 DEF Placed
        <3>3. next[acceptor.node] = NULL
            BY <2>1, <3>1, <3>2 DEF Links
        <3>4. next' = next
            BY <2>2, <2>9, <3>1, <3>2, <3>3 DEF SetLast, TypeOK
        <3>5. QED
            BY <2>4, <2>9, <3>4 DEF SetLast
    <2>10. CASE Search \/ Relink \/ ReadToRemove \/ Decrement
        BY <2>4, <2>10 DEF Search, Dies, Relink, ReadToRemove, Decrement, listVars
    <2>11. CASE FreeNode
        <3>1. \A i \in 1 .. Len(Nodes) : Nodes[i] # worker.node
            BY <2>1, <2>11 DEF FreeNode, ListInv, RemoverInv, Placed
        <3>2. /\ head' = head /\ armed \subseteq armed' /\ next' = next /\ data' = data
              /\ live' = live \ {worker.node}
            BY <2>11 DEF FreeNode
        <3>3. \A i \in 1 .. Len(Nodes) : Nodes[i] \in live'
            BY <2>2, <3>1, <3>2
        <3>4. QED
            BY <2>3, <3>2, <3>3
    <2>12. CASE MainLoop
        BY <2>4, <2>12 DEF MainLoop, Scan, GetHead, Visit, GetNext, Dies, listVars
    <2>13. QED
        BY <1>3, <2>5, <2>6, <2>7, <2>8, <2>9, <2>10, <2>11, <2>12
        DEF Next, Step, Adding, Removing
<1>4. QED
    BY <1>1, <1>2, <1>3
-----------------------------------------------------------------------------
(* The adder.                                                              *)

\* What an action of the adder or of the main loop leaves as it is.
LEMMA AdderKeeps ==
    ASSUME Adding \/ MainLoop \/ \E g \in Gate : Accept(g)
    PROVE  worker' = worker /\ lost' = lost /\ early' = early
BY DEF Adding, MainLoop, Accept, Allocate, TestHead, LinkFirst, Link, LinkBack, SetLast,
       ReadToAdd, Increment, Scan, GetHead, Visit, GetNext, Dies, listVars

\* RemoveNodeByData goes on to the next node, has found the gate or gives up.
LEMMA SearchEnds ==
    ASSUME TypeOK, Search
    PROVE  /\ worker.pc = "search"
           /\ \/ worker' = worker /\ worker.node \notin live \cup {NULL}
              \/ worker' = Unoccupied /\ worker.node = NULL
              \/ /\ worker.node \in live /\ data[worker.node] = worker.gate
                 /\ worker' = [worker EXCEPT !.pc = "unlink", !.next = next[worker.node],
                                             !.prev = prev[worker.node]]
                 /\ worker'.pc = "unlink"
              \/ /\ worker.node \in live /\ data[worker.node] # worker.gate
                 /\ worker' = [worker EXCEPT !.node = next[worker.node]]
                 /\ worker'.pc = "search"
           /\ worker'.pc \notin {"relink", "free"}
<1>1. CASE worker.node \notin live \cup {NULL}
    BY <1>1 DEF Search, Dies
<1>2. CASE worker.node = NULL
    BY <1>2 DEF Search, Unoccupied
<1>3. CASE worker.node \in live /\ worker.node # NULL
    <2>1. CASE data[worker.node] = worker.gate
        <3>1. worker' = [worker EXCEPT !.pc = "unlink", !.next = next[worker.node],
                                       !.prev = prev[worker.node]]
            BY <1>3, <2>1 DEF Search
        <3>2. worker'.pc = "unlink"
            BY <3>1 DEF TypeOK
        <3>3. QED
            BY <1>3, <2>1, <3>1, <3>2 DEF Search
    <2>2. CASE data[worker.node] # worker.gate
        <3>1. worker' = [worker EXCEPT !.node = next[worker.node]]
            BY <1>3, <2>2 DEF Search
        <3>2. worker'.pc = "search"
            BY <3>1 DEF TypeOK, Search
        <3>3. QED
            BY <1>3, <2>2, <3>1, <3>2 DEF Search
    <2>3. QED
        BY <2>1, <2>2
<1>4. QED
    BY <1>1, <1>2, <1>3

\* A step in which neither thread reaches its link leaves the list alone.
LEMMA KeptWhen ==
    ASSUME TypeOK, ListInv, Next,
           worker' = worker \/ worker.pc # "unlink",
           acceptor' = acceptor \/ acceptor.pc \notin {"first", "link"}
    PROVE  Kept
<1>1. Unlink => worker.pc = "unlink" /\ worker'.pc = "relink"
    BY DEF Unlink, TypeOK
<1>2. LinkFirst => acceptor.pc = "first" /\ acceptor'.pc = "last"
    BY DEF LinkFirst, TypeOK
<1>3. Link => acceptor.pc = "link" /\ acceptor'.pc = "back"
    BY LinkAlive DEF Link, TypeOK
<1>4. ~ (LinkFirst \/ Link \/ Unlink)
    BY <1>1, <1>2, <1>3
<1>5. QED
    BY <1>4, NodesStep

\* The node in hand is nobody else's until it is linked, and then the last.
LEMMA AdderStep ==
    TypeOK /\ TypeOK' /\ ListInv /\ Next => AdderInv'
<1> SUFFICES ASSUME TypeOK, TypeOK', ListInv, Next PROVE AdderInv'
    OBVIOUS
<1> DEFINE k == Len(Nodes)
           n == acceptor.node
<1>1. /\ Linked'
      /\ LinkFirst \/ Link => Grown
      /\ Unlink => \E i \in 1 .. k : Cut(i)
      /\ ~ (LinkFirst \/ Link \/ Unlink) => Kept
    BY NodesStep
<1>2. Placed /\ Links(Nodes, k, head, next)
    BY LinkedPlaced DEF ListInv
<1>3. Placed'
    BY <1>1, LinkedPlacedNext
<1>4. AdderInv /\ RemoverInv /\ ~ Meeting
    BY DEF ListInv
<1>5. ASSUME NEW g \in Gate, Accept(g) PROVE AdderInv'
    <2>1. g \notin armed /\ armed' = armed \cup {g} /\ lost' = lost
        BY <1>5, GateListAssumption DEF Accept, Gate
    <2>2. acceptor'.pc = "alloc" /\ acceptor'.gate = g
        BY <1>5 DEF Accept, Waiting
    <2>3. Kept
        BY <1>5, KeptWhen DEF Accept
    <2>4. ~ Contains(Listed', g)
        BY <1>2, <2>1, <2>3 DEF Kept, Placed
    <2>5. g \notin lost'
        BY <2>1 DEF TypeOK
    <2>6. QED
        BY <2>1, <2>2, <2>4, <2>5 DEF AdderInv
<1>6. CASE Allocate
    <2>1. PICK m \in Node \ live :
              /\ live' = live \cup {m}
              /\ next' = [next EXCEPT ![m] = NULL]
              /\ data' = [data EXCEPT ![m] = acceptor.gate]
              /\ acceptor' = [acceptor EXCEPT !.pc = "test", !.node = m]
        BY <1>6 DEF Allocate
    <2>2. Kept
        BY <1>6, KeptWhen DEF Allocate
    <2>3. acceptor'.pc = "test" /\ acceptor'.node = m /\ acceptor'.gate = acceptor.gate
        BY <2>1 DEF TypeOK
    <2>4. m \in live' /\ next'[m] = NULL /\ data'[m] = acceptor.gate
        BY <2>1 DEF TypeOK
    <2>5. ~ Contains(Nodes', m)
        BY <1>2, <2>2 DEF Kept, Placed
    <2>6. worker'.pc \in {"relink", "free"} => worker'.node # m
        BY <1>4, <1>6 DEF Allocate, RemoverInv
    <2>7. /\ ~ Contains(Listed', acceptor.gate) /\ acceptor.gate \in armed'
          /\ acceptor.gate \in lost' => acceptor.gate \in early'
        BY <1>4, <1>6, <2>2 DEF Allocate, AdderInv, Kept
    <2>8. QED
        BY <2>3, <2>4, <2>5, <2>6, <2>7 DEF AdderInv
<1>7. CASE TestHead
    <2>1. Kept
        BY <1>7, KeptWhen DEF TestHead
    <2>2. head = NULL <=> Nodes = <<>>
        <3>1. /\ head = IF k = 0 THEN NULL ELSE Nodes[1]
              /\ k \in Nat /\ (Nodes = <<>> <=> k = 0)
            BY <1>2 DEF Links, Placed
        <3>2. k # 0 => Nodes[1] \in Node
            <4>1. k # 0 => 1 \in 1 .. k
                BY <3>1
            <4>2. QED
                BY <1>2, <4>1 DEF Placed
        <3>3. NULL \notin Node
            BY DEF Node, NULL
        <3>4. QED
            BY <3>1, <3>2, <3>3
    <2>3. /\ acceptor.pc = "test" /\ acceptor'.node = n /\ acceptor'.gate = acceptor.gate
          /\ acceptor'.pc = IF head = NULL THEN "first" ELSE "link"
        BY <1>7 DEF TestHead, TypeOK
    <2>4. /\ live' = live /\ next' = next /\ data' = data /\ armed' = armed
          /\ lost' = lost /\ early' = early /\ worker' = worker
        BY <1>7 DEF TestHead, listVars
    <2>5. QED
        BY <1>4, <2>1, <2>2, <2>3, <2>4 DEF AdderInv, Kept
<1>8. CASE LinkFirst \/ Link
    <2>1. /\ Len(Nodes') = k + 1 /\ Nodes'[k + 1] = n /\ k \in Nat
          /\ Nodes' # <<>> /\ Len(Nodes') \in Nat
        <3>1. Longer(Nodes, Nodes', n) /\ k \in Nat
            BY <1>1, <1>2, <1>8 DEF Grown, Placed
        <3>2. Len(Nodes') = k + 1 /\ Nodes'[k + 1] = n
            BY <3>1 DEF Longer
        <3>3. Nodes' = <<>> <=> Len(Nodes') = 0
            BY <1>3 DEF Placed
        <3>4. QED
            BY <3>1, <3>2, <3>3
    <2>2. Link => k # 0
        BY LinkAlive DEF ListInv
    <2>3. Link => tail \in live
        BY LinkAlive DEF ListInv
    <2>4. /\ acceptor'.node = n /\ acceptor'.gate = acceptor.gate /\ armed' = armed
          /\ acceptor'.pc = IF Link THEN "back" ELSE "last"
        BY <1>8, <2>3 DEF LinkFirst, Link, TypeOK
    <2>5. acceptor.gate \in armed
        BY <1>4, <1>8 DEF AdderInv, LinkFirst, Link
    <2>6. Link => Len(Nodes') >= 2
        BY <2>1, <2>2
    <2>7. n = Nodes'[Len(Nodes')]
        BY <2>1
    <2>8. acceptor'.pc \in {"back", "last"} /\ (acceptor'.pc = "back" => Len(Nodes') >= 2)
        BY <2>4, <2>6
    <2>9. QED
        BY <2>1, <2>4, <2>5, <2>7, <2>8 DEF AdderInv
<1>9. CASE LinkBack
    <2>1. Kept
        BY <1>9, KeptWhen DEF LinkBack
    <2>2. /\ acceptor.pc = "back" /\ acceptor'.pc = "last" /\ acceptor'.node = n
          /\ acceptor'.gate = acceptor.gate /\ armed' = armed
        BY <1>9 DEF LinkBack, TypeOK
    <2>3. QED
        BY <1>4, <2>1, <2>2 DEF AdderInv, Kept
<1>10. CASE SetLast \/ ReadToAdd
    <2>1. /\ acceptor.pc \in {"last", "count"} /\ acceptor'.pc \in {"count", "inc"}
          /\ acceptor'.gate = acceptor.gate /\ armed' = armed
        BY <1>10 DEF SetLast, ReadToAdd, TypeOK
    <2>2. QED
        BY <1>4, <2>1 DEF AdderInv
<1>11. CASE Increment
    BY <1>11 DEF Increment, Waiting, AdderInv
<1>12. ASSUME NEW g \in Gate, Lose(g) PROVE AdderInv'
    <2>1. Kept
        BY <1>12, KeptWhen DEF Lose
    <2>2. /\ live' = live /\ next' = next /\ data' = data /\ armed' = armed
          /\ acceptor' = acceptor /\ lost' = lost \cup {g}
          /\ early' = IF Contains(Listed, g) THEN early ELSE early \cup {g}
          /\ worker'.pc = "search"
        BY <1>12 DEF Lose, Unoccupied, listVars
    <2>3. ASSUME acceptor.pc \in {"alloc", "test", "first", "link"}, acceptor.gate \in lost'
          PROVE  acceptor.gate \in early'
        BY <1>4, <2>2, <2>3 DEF AdderInv
    <2>4. QED
        BY <1>4, <2>1, <2>2, <2>3 DEF AdderInv, Kept
<1>13. CASE Unlink
    <2>1. PICK i \in 1 .. k : Cut(i)
        BY <1>1, <1>13
    <2>2. /\ k \in Nat /\ Len(Nodes') = k - 1
          /\ \A j \in 1 .. k - 1 : Nodes'[j] = IF j < i THEN Nodes[j] ELSE Nodes[j + 1]
          /\ \A j \in 1 .. k - 1 : Listed'[j] = IF j < i THEN Listed[j] ELSE Listed[j + 1]
          /\ Nodes[i] = worker.node
        BY <1>2, <2>1 DEF Cut, Shorter, Placed
    <2>3. /\ \A x : Contains(Nodes', x) => Contains(Nodes, x)
          /\ \A x : Contains(Listed', x) => Contains(Listed, x)
        <3>1. \A j \in 1 .. k - 1 : /\ \E m \in 1 .. k : Nodes[m] = Nodes'[j]
                                    /\ \E m \in 1 .. k : Listed[m] = Listed'[j]
            <4>1. SUFFICES ASSUME NEW j \in 1 .. k - 1
                           PROVE  /\ \E m \in 1 .. k : Nodes[m] = Nodes'[j]
                                  /\ \E m \in 1 .. k : Listed[m] = Listed'[j]
                OBVIOUS
            <4>2. j \in 1 .. k /\ j + 1 \in 1 .. k
                BY <2>2
            <4>3. QED
                BY <2>2, <4>2
        <3>2. /\ \A x : Contains(Nodes, x) <=> \E m \in 1 .. k : Nodes[m] = x
              /\ \A x : Contains(Listed, x) <=> \E m \in 1 .. k : Listed[m] = x
            BY <1>2 DEF Placed
        <3>3. /\ \A x : Contains(Nodes', x) <=> \E j \in 1 .. k - 1 : Nodes'[j] = x
              /\ \A x : Contains(Listed', x) <=> \E j \in 1 .. k - 1 : Listed'[j] = x
            BY <1>3, <2>2 DEF Placed
        <3>4. ASSUME NEW x, Contains(Nodes', x) PROVE Contains(Nodes, x)
            <4>1. PICK j \in 1 .. k - 1 : Nodes'[j] = x
                BY <3>3, <3>4
            <4>2. QED
                BY <3>1, <3>2, <4>1
        <3>5. ASSUME NEW x, Contains(Listed', x) PROVE Contains(Listed, x)
            <4>1. PICK j \in 1 .. k - 1 : Listed'[j] = x
                BY <3>3, <3>5
            <4>2. QED
                BY <3>1, <3>2, <4>1
        <3>6. QED
            BY <3>4, <3>5
    <2>4. /\ acceptor' = acceptor /\ live' = live /\ data' = data /\ armed' = armed
          /\ lost' = lost /\ early' = early /\ worker'.node = worker.node
          /\ worker.pc = "unlink"
        BY <1>13 DEF Unlink, TypeOK
    <2>5. ASSUME acceptor.pc \in {"test", "first", "link"}
          PROVE  next'[n] = next[n] /\ worker'.node # n
        <3>1. ~ Contains(Nodes, n) /\ n \in Node
            BY <1>4, <2>5 DEF AdderInv, TypeOK
        <3>2. worker.node # n
            BY <1>2, <2>2, <3>1 DEF Placed
        <3>3. worker.prev # NULL => worker.prev # n
            <4>1. i - 1 \in Int
                BY <2>2
            <4>2. QED
                BY <1>2, <2>1, <3>1, <4>1 DEF Cut, Placed
        <3>4. \/ next' = next
              \/ next' = [next EXCEPT ![worker.prev] = worker.next] /\ worker.prev # NULL
            BY <1>13 DEF Unlink
        <3>5. QED
            BY <2>4, <3>1, <3>2, <3>3, <3>4 DEF TypeOK
    <2>6. acceptor.pc = "first" => k = 0
        BY <1>2, <1>4 DEF AdderInv, Placed
    <2>7. ASSUME acceptor.pc = "link" PROVE Nodes' # <<>>
        <3>1. worker.node # tail
            BY <1>4, <2>4, <2>7 DEF Meeting
        <3>2. tail = At(Nodes, k)
            BY <2>7, TailIsLast
        <3>3. k # i
            <4>1. k = i => At(Nodes, k) = Nodes[i]
                BY <1>2, <2>2 DEF Placed
            <4>2. QED
                BY <2>2, <3>1, <3>2, <4>1
        <3>4. QED
            BY <1>3, <2>2, <3>3 DEF Placed
    <2>8. ASSUME acceptor.pc \in {"back", "last"}
          PROVE  /\ Nodes' # <<>> /\ n = Nodes'[Len(Nodes')]
                 /\ acceptor.pc = "back" => Len(Nodes') >= 2
        <3>1. worker.node # tail /\ worker.node # n
            BY <1>4, <2>4, <2>8 DEF Meeting
        <3>2. n = Nodes[k] /\ (acceptor.pc = "back" => k >= 2)
            BY <1>4, <2>8 DEF AdderInv
        <3>3. tail = At(Nodes, k - 1)
            BY <2>4, <2>8 DEF ListInv, Backward
        <3>4. k # i
            BY <2>2, <3>1, <3>2
        <3>5. k - 1 # i
            <4>1. k - 1 \in Int
                BY <2>2
            <4>2. k - 1 = i => At(Nodes, k - 1) = Nodes[i]
                BY <1>2, <4>1 DEF Placed
            <4>3. QED
                BY <2>2, <3>1, <3>3, <4>2
        <3>6. k - 1 \in 1 .. k - 1 /\ Nodes'[k - 1] = Nodes[k] /\ Len(Nodes') # 0
            BY <2>2, <3>4
        <3>7. acceptor.pc = "back" => k >= 3
            BY <2>2, <3>2, <3>4, <3>5
        <3>8. acceptor.pc = "back" => Len(Nodes') >= 2
            BY <2>2, <3>7
        <3>9. Nodes' # <<>>
            BY <1>3, <3>6 DEF Placed
        <3>10. QED
            BY <2>2, <3>2, <3>6, <3>8, <3>9
    <2>9. acceptor.pc # "first"
        BY <2>2, <2>6
    <2>10. ~ Contains(Nodes, n) => ~ Contains(Nodes', n)
        BY <2>3
    <2>11. QED
        BY <1>4, <2>3, <2>4, <2>5, <2>7, <2>8, <2>9, <2>10 DEF AdderInv
<1>14. ASSUME Kept, acceptor' = acceptor, next' = next, data' = data, armed' = armed,
              lost' = lost, early' = early,
              acceptor.pc \in {"test", "first", "link"} => n \in live',
              worker'.pc \in {"relink", "free"} =>
                  worker.pc \in {"relink", "free"} /\ worker'.node = worker.node
       PROVE  AdderInv'
    BY <1>4, <1>14 DEF AdderInv, Kept
<1>15. CASE Search
    <2>1. Kept
        BY <1>15, KeptWhen DEF Search, Dies
    <2>2. worker'.pc \notin {"relink", "free"}
        BY <1>15, SearchEnds
    <2>3. /\ acceptor' = acceptor /\ next' = next /\ data' = data /\ armed' = armed
          /\ lost' = lost /\ early' = early /\ live' = live
        BY <1>15 DEF Search, Dies, listVars
    <2>4. QED
        BY <1>4, <1>14, <2>1, <2>2, <2>3 DEF AdderInv
<1>16. CASE Relink
    <2>1. Kept
        BY <1>16, KeptWhen DEF Relink
    <2>2. worker.pc = "relink" /\ worker'.node = worker.node
        BY <1>16 DEF Relink, TypeOK
    <2>3. QED
        BY <1>4, <1>14, <1>16, <2>1, <2>2 DEF Relink, AdderInv
<1>17. CASE FreeNode
    <2>1. Kept
        BY <1>17, KeptWhen DEF FreeNode
    <2>2. worker'.pc \notin {"relink", "free"}
        BY <1>17 DEF FreeNode, TypeOK
    <2>3. acceptor.pc \in {"test", "first", "link"} => n \in live'
        BY <1>4, <1>17 DEF FreeNode, AdderInv
    <2>4. QED
        BY <1>14, <1>17, <2>1, <2>2, <2>3 DEF FreeNode
<1>18. CASE ReadToRemove \/ Decrement
    <2>1. Kept
        BY <1>18, KeptWhen DEF ReadToRemove, Decrement
    <2>2. worker'.pc \notin {"relink", "free"}
        <3>1. ReadToRemove => worker'.pc = "dec"
            BY DEF ReadToRemove, TypeOK
        <3>2. Decrement => worker'.pc = "wait"
            BY DEF Decrement, Unoccupied
        <3>3. QED
            BY <1>18, <3>1, <3>2
    <2>3. /\ acceptor' = acceptor /\ next' = next /\ data' = data /\ armed' = armed
          /\ lost' = lost /\ early' = early /\ live' = live
        BY <1>18 DEF ReadToRemove, Decrement, listVars
    <2>4. QED
        BY <1>4, <1>14, <2>1, <2>2, <2>3 DEF AdderInv
<1>19. CASE MainLoop
    <2>1. /\ acceptor' = acceptor /\ next' = next /\ data' = data /\ armed' = armed
          /\ lost' = lost /\ early' = early /\ live' = live /\ worker' = worker
        BY <1>19 DEF MainLoop, Scan, GetHead, Visit, GetNext, Dies, listVars
    <2>2. Kept
        BY <2>1, KeptWhen
    <2>3. QED
        BY <1>4, <1>14, <2>1, <2>2 DEF AdderInv
<1>20. QED
    BY <1>5, <1>6, <1>7, <1>8, <1>9, <1>10, <1>11, <1>12, <1>13, <1>15, <1>16, <1>17, <1>18,
       <1>19 DEF Next, Step, Adding, Removing
-----------------------------------------------------------------------------
(* The links back.                                                         *)

\* prev and m_lpTail are what the nodes say, but for the step under way.
LEMMA BackwardStep ==
    TypeOK /\ TypeOK' /\ ListInv /\ Next => Backward'
<1> SUFFICES ASSUME TypeOK, TypeOK', ListInv, Next PROVE Backward'
    OBVIOUS
<1> DEFINE k == Len(Nodes)
           n == acceptor.node
           Loose == worker.pc = "relink" /\ worker.next = NULL
           Behind == acceptor.pc \in {"back", "last"}
<1>1. /\ Linked'
      /\ LinkFirst \/ Link => Grown
      /\ Unlink => \E i \in 1 .. k : Cut(i)
    BY NodesStep
<1>2. Placed /\ k \in Nat /\ \A i \in 1 .. k : Nodes[i] \in Node
    BY LinkedPlaced DEF ListInv, Placed
<1>3. Placed'
    BY <1>1, LinkedPlacedNext
<1>4. AdderInv /\ RemoverInv /\ ~ Meeting /\ Backward
    BY DEF ListInv
<1>5. \A i \in 1 .. k :
          \/ prev[Nodes[i]] = At(Nodes, i - 1)
          \/ acceptor.pc = "back" /\ i = k
          \/ worker.pc = "relink" /\ Nodes[i] = worker.next
    BY <1>2, <1>4 DEF Backward, Placed
<1>6. tail = IF Loose THEN worker.node ELSE IF Behind THEN At(Nodes, k - 1) ELSE At(Nodes, k)
    BY <1>4 DEF Backward
<1>7. acceptor.pc \in {"test", "first", "link", "back", "last"} => ~ Loose
    BY <1>4, <1>6 DEF Meeting
<1>8. DOMAIN Nodes' = 1 .. Len(Nodes')
    BY <1>3 DEF Placed
<1>9. ASSUME Kept, tail' = tail, \A i \in 1 .. k : prev'[Nodes[i]] = prev[Nodes[i]],
             acceptor'.pc = acceptor.pc \/ (~ Behind /\ ~ Behind'),
             worker'.pc = "relink" <=> worker.pc = "relink",
             worker.pc = "relink" => worker'.next = worker.next /\ worker'.node = worker.node
      PROVE  Backward'
    <2>1. Nodes' = Nodes
        BY <1>9 DEF Kept
    <2>2. \A i \in 1 .. k :
              \/ prev'[Nodes[i]] = At(Nodes, i - 1)
              \/ acceptor'.pc = "back" /\ i = k
              \/ worker'.pc = "relink" /\ Nodes[i] = worker'.next
        BY <1>5, <1>9
    <2>3. tail' = IF worker'.pc = "relink" /\ worker'.next = NULL THEN worker'.node
                  ELSE IF acceptor'.pc \in {"back", "last"} THEN At(Nodes, k - 1)
                  ELSE At(Nodes, k)
        BY <1>6, <1>9
    <2>4. QED
        BY <1>8, <2>1, <2>2, <2>3 DEF Backward
<1>10. ASSUME NEW g \in Gate, Accept(g) PROVE Backward'
    <2>1. Kept
        BY <1>10, KeptWhen DEF Accept
    <2>2. ~ Behind /\ ~ Behind'
        BY <1>10 DEF Accept, Waiting
    <2>3. QED
        BY <1>9, <1>10, <2>1, <2>2 DEF Accept, listVars
<1>11. CASE Allocate
    <2>1. Kept
        BY <1>11, KeptWhen DEF Allocate
    <2>2. ~ Behind /\ ~ Behind'
        BY <1>11 DEF Allocate, TypeOK
    <2>3. \A i \in 1 .. k : prev'[Nodes[i]] = prev[Nodes[i]]
        <3>1. PICK m \in Node \ live : prev' = [prev EXCEPT ![m] = NULL]
            BY <1>11 DEF Allocate
        <3>2. \A i \in 1 .. k : Nodes[i] \in Node /\ Nodes[i] \in live
            BY <1>2 DEF Placed
        <3>3. QED
            BY <3>1, <3>2 DEF TypeOK
    <2>4. tail' = tail /\ worker' = worker
        BY <1>11 DEF Allocate
    <2>5. QED
        BY <1>9, <2>1, <2>2, <2>3, <2>4
<1>12. CASE TestHead \/ ReadToAdd \/ Increment
    <2>1. acceptor.pc \in {"test", "count", "inc"} /\ ~ Behind'
        <3>1. TestHead => acceptor.pc = "test" /\ acceptor'.pc \in {"first", "link"}
            BY DEF TestHead, TypeOK
        <3>2. ReadToAdd => acceptor.pc = "count" /\ acceptor'.pc = "inc"
            BY DEF ReadToAdd, TypeOK
        <3>3. Increment => acceptor.pc = "inc" /\ acceptor'.pc = "wait"
            BY DEF Increment, Waiting
        <3>4. QED
            BY <1>12, <3>1, <3>2, <3>3
    <2>2. tail' = tail /\ worker' = worker /\ prev' = prev
        BY <1>12 DEF TestHead, ReadToAdd, Increment, listVars
    <2>3. Kept
        BY <2>1, <2>2, KeptWhen
    <2>4. QED
        BY <1>9, <2>1, <2>2, <2>3
<1>13. CASE LinkFirst
    <2>1. k = 0 /\ acceptor.pc = "first"
        BY <1>2, <1>4, <1>13 DEF LinkFirst, AdderInv, Placed
    <2>2. tail = NULL
        BY <1>2, <2>1, TailIsLast DEF Placed, ListInv
    <2>3. Len(Nodes') = 1 /\ Nodes'[1] = n
        <3>1. Longer(Nodes, Nodes', n)
            BY <1>1, <1>13 DEF Grown
        <3>2. QED
            BY <2>1, <3>1 DEF Longer
    <2>4. n \in Node
        BY <1>4, <2>1 DEF AdderInv, TypeOK
    <2>5. /\ tail' = tail /\ prev'[n] = NULL /\ acceptor'.pc = "last" /\ worker' = worker
        BY <1>13, <2>4 DEF LinkFirst, TypeOK
    <2>6. At(Nodes', 0) = NULL
        BY <1>3 DEF Placed
    <2>7. \A i \in 1 .. Len(Nodes') : prev'[Nodes'[i]] = At(Nodes', i - 1)
        BY <2>3, <2>5, <2>6
    <2>8. tail' = At(Nodes', Len(Nodes') - 1)
        BY <2>2, <2>3, <2>5, <2>6
    <2>9. ~ Loose'
        BY <1>7, <2>1, <2>5
    <2>10. QED
        BY <1>8, <2>5, <2>7, <2>8, <2>9 DEF Backward
<1>14. CASE Link
    <2>1. k # 0 /\ tail = Nodes[k] /\ tail \in live /\ acceptor.pc = "link"
        BY <1>14, LinkAlive DEF Link
    <2>2. Len(Nodes') = k + 1 /\ \A j \in 1 .. k : Nodes'[j] = Nodes[j]
        <3>1. Longer(Nodes, Nodes', n)
            BY <1>1, <1>14 DEF Grown
        <3>2. QED
            BY <3>1 DEF Longer
    <2>3. acceptor'.pc = "back" /\ tail' = tail /\ prev' = prev /\ worker' = worker
        BY <1>14, <2>1 DEF Link, TypeOK
    <2>4. /\ \A i \in Int : At(Nodes', i) = IF i \in 1 .. k + 1 THEN Nodes'[i] ELSE NULL
          /\ \A i \in Int : At(Nodes, i) = IF i \in 1 .. k THEN Nodes[i] ELSE NULL
        BY <1>2, <1>3, <2>2 DEF Placed
    <2>5. ASSUME NEW i \in 1 .. k + 1
          PROVE  \/ prev'[Nodes'[i]] = At(Nodes', i - 1)
                 \/ i = k + 1
                 \/ worker'.pc = "relink" /\ Nodes'[i] = worker'.next
        <3>1. CASE i \in 1 .. k
            <4>1. At(Nodes', i - 1) = At(Nodes, i - 1)
                BY <1>2, <2>2, <2>4, <3>1
            <4>2. QED
                BY <1>5, <2>1, <2>2, <2>3, <3>1, <4>1
        <3>2. QED
            BY <1>2, <3>1
    <2>6. tail' = At(Nodes', k + 1 - 1)
        BY <1>2, <2>1, <2>2, <2>3, <2>4
    <2>7. ~ Loose'
        BY <1>7, <2>1, <2>3
    <2>8. QED
        BY <1>8, <2>2, <2>3, <2>5, <2>6, <2>7 DEF Backward
<1>15. CASE LinkBack
    <2>1. Nodes' = Nodes
        BY <1>15, KeptWhen DEF LinkBack, Kept
    <2>2. /\ acceptor.pc = "back" /\ acceptor'.pc = "last" /\ tail' = tail /\ worker' = worker
          /\ prev' = [prev EXCEPT ![n] = tail]
        BY <1>15 DEF LinkBack, TypeOK
    <2>3. n = Nodes[k] /\ k \in 1 .. k
        BY <1>2, <1>4, <2>2 DEF AdderInv
    <2>4. ~ Loose /\ tail = At(Nodes, k - 1)
        BY <1>6, <1>7, <2>2
    <2>5. ASSUME NEW i \in 1 .. k
          PROVE  \/ prev'[Nodes[i]] = At(Nodes, i - 1)
                 \/ worker'.pc = "relink" /\ Nodes[i] = worker'.next
        <3>1. CASE i = k
            BY <1>2, <2>2, <2>3, <2>4, <3>1 DEF TypeOK
        <3>2. CASE i # k
            <4>1. Nodes[i] # Nodes[k] /\ Nodes[i] \in Node
                BY <1>2, <2>3, <3>2 DEF Placed
            <4>2. prev'[Nodes[i]] = prev[Nodes[i]]
                BY <2>2, <2>3, <4>1 DEF TypeOK
            <4>3. QED
                BY <1>5, <2>2, <3>2, <4>2
        <3>3. QED
            BY <3>1, <3>2
    <2>6. QED
        BY <1>8, <2>1, <2>2, <2>4, <2>5 DEF Backward
<1>16. CASE SetLast
    <2>1. Nodes' = Nodes
        BY <1>16, KeptWhen DEF SetLast, Kept
    <2>2. /\ acceptor.pc = "last" /\ acceptor'.pc = "count" /\ tail' = n /\ worker' = worker
          /\ prev' = prev
        BY <1>16 DEF SetLast, TypeOK
    <2>3. n = Nodes[k] /\ k \in 1 .. k
        BY <1>2, <1>4, <2>2 DEF AdderInv, Placed
    <2>4. tail' = At(Nodes, k)
        BY <1>2, <2>2, <2>3 DEF Placed
    <2>5. ~ Loose
        BY <1>7, <2>2
    <2>6. \A i \in 1 .. k :
              \/ prev'[Nodes[i]] = At(Nodes, i - 1)
              \/ worker'.pc = "relink" /\ Nodes[i] = worker'.next
        BY <1>5, <2>2
    <2>7. QED
        BY <1>8, <2>1, <2>2, <2>4, <2>5, <2>6 DEF Backward
<1>17. ASSUME NEW g \in Gate, Lose(g) PROVE Backward'
    <2>1. Kept
        BY <1>17, KeptWhen DEF Lose
    <2>2. worker.pc # "relink" /\ worker'.pc # "relink"
        BY <1>17 DEF Lose, Unoccupied
    <2>3. tail' = tail /\ prev' = prev /\ acceptor' = acceptor
        BY <1>17 DEF Lose, listVars
    <2>4. QED
        BY <1>9, <2>1, <2>2, <2>3
<1>18. CASE Search
    <2>1. Kept
        BY <1>18, KeptWhen DEF Search, Dies
    <2>2. worker.pc # "relink" /\ worker'.pc # "relink"
        BY <1>18, SearchEnds
    <2>3. tail' = tail /\ prev' = prev /\ acceptor' = acceptor
        BY <1>18 DEF Search, Dies, listVars
    <2>4. QED
        BY <1>9, <2>1, <2>2, <2>3
<1>19. CASE Unlink
    <2>1. PICK i \in 1 .. k : Cut(i)
        BY <1>1, <1>19
    <2>2. /\ Len(Nodes') = k - 1
          /\ \A j \in 1 .. k - 1 : Nodes'[j] = IF j < i THEN Nodes[j] ELSE Nodes[j + 1]
          /\ Nodes[i] = worker.node /\ worker.next = At(Nodes, i + 1)
        BY <2>1 DEF Cut, Shorter
    <2>3. /\ acceptor' = acceptor /\ tail' = tail /\ prev' = prev /\ worker.pc = "unlink"
          /\ worker'.pc = "relink" /\ worker'.node = worker.node /\ worker'.next = worker.next
        BY <1>19 DEF Unlink, TypeOK
    <2>4. /\ \A j \in Int : At(Nodes', j) = IF j \in 1 .. k - 1 THEN Nodes'[j] ELSE NULL
          /\ \A j \in Int : At(Nodes, j) = IF j \in 1 .. k THEN Nodes[j] ELSE NULL
        BY <1>2, <1>3, <2>2 DEF Placed
    <2>5. ASSUME NEW j \in 1 .. k - 1
          PROVE  \/ prev'[Nodes'[j]] = At(Nodes', j - 1)
                 \/ acceptor'.pc = "back" /\ j = k - 1
                 \/ worker'.pc = "relink" /\ Nodes'[j] = worker'.next
        <3>1. CASE j < i
            <4>1. j \in 1 .. k /\ j # k /\ Nodes'[j] = Nodes[j]
                BY <1>2, <2>2, <3>1
            <4>2. At(Nodes', j - 1) = At(Nodes, j - 1)
                <5>1. j - 1 \in Int /\ j - 1 < i /\ (j - 1 \in 1 .. k - 1 <=> j - 1 \in 1 .. k)
                    BY <1>2, <3>1
                <5>2. j - 1 \in 1 .. k - 1 => Nodes'[j - 1] = Nodes[j - 1]
                    BY <2>2, <5>1
                <5>3. QED
                    BY <2>4, <5>1, <5>2
            <4>3. QED
                BY <1>5, <2>3, <4>1, <4>2
        <3>2. CASE j = i
            <4>1. j + 1 \in 1 .. k /\ Nodes'[j] = Nodes[j + 1]
                BY <1>2, <2>2, <3>2
            <4>2. At(Nodes, i + 1) = Nodes[j + 1]
                BY <1>2, <2>4, <3>2, <4>1
            <4>3. QED
                BY <2>2, <2>3, <4>1, <4>2
        <3>3. CASE j > i
            <4>1. j + 1 \in 1 .. k /\ Nodes'[j] = Nodes[j + 1] /\ j \in 1 .. k
                BY <1>2, <2>2, <3>3
            <4>2. j - 1 \in 1 .. k - 1 /\ ~ (j - 1 < i) /\ (j - 1) + 1 = j /\ (j + 1) - 1 = j
                BY <1>2, <3>3
            <4>3. At(Nodes', j - 1) = Nodes[j]
                <5>1. At(Nodes', j - 1) = Nodes'[j - 1]
                    BY <2>4, <4>2
                <5>2. Nodes'[j - 1] = Nodes[(j - 1) + 1]
                    BY <2>2, <4>2
                <5>3. QED
                    BY <4>2, <5>1, <5>2
            <4>4. At(Nodes, (j + 1) - 1) = Nodes[j]
                BY <2>4, <4>1, <4>2
            <4>5. j + 1 = k => j = k - 1
                BY <1>2
            <4>6. QED
                BY <1>5, <2>3, <4>1, <4>3, <4>4, <4>5
        <3>4. QED
            BY <1>2, <3>1, <3>2, <3>3
    <2>6. tail = IF Behind THEN At(Nodes, k - 1) ELSE At(Nodes, k)
        BY <1>6, <2>3
    <2>7. Behind => worker.node # tail /\ worker.node # n /\ n = Nodes[k]
        BY <1>4, <2>3 DEF Meeting, AdderInv
    <2>8. CASE i = k
        <3>1. worker.next = NULL /\ ~ Behind
            BY <1>2, <2>2, <2>4, <2>7, <2>8
        <3>2. tail = worker.node
            BY <1>2, <2>2, <2>4, <2>6, <2>8, <3>1
        <3>3. QED
            BY <1>8, <2>2, <2>3, <2>5, <3>1, <3>2 DEF Backward
    <2>9. CASE i # k
        <3>1. i + 1 \in 1 .. k /\ i + 1 \in Int /\ worker.next \in Node
            BY <1>2, <2>2, <2>4, <2>9
        <3>2. worker.next # NULL
            BY <3>1 DEF Node, NULL
        <3>3. CASE Behind
            <4>1. k - 1 # i
                <5>1. k - 1 = i => k - 1 \in Int /\ At(Nodes, k - 1) = Nodes[i]
                    BY <1>2, <2>4
                <5>2. QED
                    BY <2>2, <2>6, <2>7, <3>3, <5>1
            <4>2. k - 2 \in 1 .. k - 1 /\ ~ (k - 2 < i) /\ (k - 2) + 1 = k - 1 /\ k - 1 \in 1 .. k
                BY <1>2, <2>9, <4>1
            <4>3. At(Nodes', k - 2) = Nodes[k - 1]
                <5>1. k - 2 \in Int /\ At(Nodes', k - 2) = Nodes'[k - 2]
                    BY <2>4, <4>2
                <5>2. Nodes'[k - 2] = Nodes[(k - 2) + 1]
                    BY <2>2, <4>2
                <5>3. QED
                    BY <4>2, <5>1, <5>2
            <4>4. tail = Nodes[k - 1]
                BY <2>4, <2>6, <3>3, <4>2
            <4>5. Len(Nodes') - 1 = k - 2
                BY <1>2, <2>2
            <4>6. tail' = At(Nodes', Len(Nodes') - 1)
                BY <2>3, <4>3, <4>4, <4>5
            <4>7. QED
                BY <1>8, <2>2, <2>3, <2>5, <3>2, <3>3, <4>6 DEF Backward
        <3>4. CASE ~ Behind
            <4>1. k - 1 \in 1 .. k - 1 /\ ~ (k - 1 < i) /\ (k - 1) + 1 = k /\ k \in 1 .. k
                BY <1>2, <2>9
            <4>2. At(Nodes', k - 1) = Nodes[k]
                BY <2>2, <2>4, <4>1
            <4>3. tail = Nodes[k]
                BY <1>2, <2>4, <2>6, <3>4, <4>1
            <4>4. tail' = At(Nodes', Len(Nodes'))
                BY <2>2, <2>3, <4>2, <4>3
            <4>5. QED
                BY <1>8, <2>2, <2>3, <2>5, <3>2, <3>4, <4>4 DEF Backward
        <3>5. QED
            BY <3>3, <3>4
    <2>10. QED
        BY <2>8, <2>9
<1>20. CASE Relink
    <2>1. Nodes' = Nodes
        BY <1>20, KeptWhen DEF Relink, Kept
    <2>2. /\ worker.pc = "relink" /\ worker'.pc = "free" /\ acceptor' = acceptor
        BY <1>20 DEF Relink, TypeOK
    <2>3. PICK i \in 0 .. k : worker.prev = At(Nodes, i) /\ worker.next = At(Nodes, i + 1)
        BY <1>4, <2>2 DEF RemoverInv
    <2>4. \A j \in Int : At(Nodes, j) = IF j \in 1 .. k THEN Nodes[j] ELSE NULL
        BY <1>2 DEF Placed
    <2>5. CASE worker.next = NULL
        <3>1. i = k
            <4>1. i # k => i + 1 \in 1 .. k /\ i + 1 \in Int
                BY <1>2
            <4>2. i # k => worker.next \in Node
                BY <1>2, <2>3, <2>4, <4>1
            <4>3. QED
                BY <2>5, <4>2 DEF Node, NULL
        <3>2. tail' = At(Nodes, k) /\ prev' = prev
            BY <1>20, <2>3, <2>5, <3>1 DEF Relink
        <3>3. ~ Behind
            BY <1>7, <2>2, <2>5
        <3>4. \A j \in 1 .. k : Nodes[j] # worker.next
            BY <1>2, <2>5 DEF Node, NULL
        <3>5. \A j \in 1 .. k : prev'[Nodes[j]] = At(Nodes, j - 1)
            BY <1>5, <3>2, <3>3, <3>4
        <3>6. QED
            BY <1>8, <2>1, <2>2, <3>2, <3>3, <3>5 DEF Backward
    <2>6. CASE worker.next # NULL
        <3>1. i + 1 \in 1 .. k /\ worker.next = Nodes[i + 1]
            BY <1>2, <2>3, <2>4, <2>6
        <3>2. tail' = tail /\ prev' = [prev EXCEPT ![worker.next] = worker.prev]
            BY <1>20, <2>6 DEF Relink
        <3>3. ASSUME NEW j \in 1 .. k
              PROVE  \/ prev'[Nodes[j]] = At(Nodes, j - 1)
                     \/ acceptor'.pc = "back" /\ j = k
            <4>1. CASE j = i + 1
                <5>1. j - 1 = i /\ Nodes[j] \in Node
                    BY <1>2, <4>1
                <5>2. prev'[Nodes[j]] = worker.prev
                    BY <3>1, <3>2, <4>1, <5>1 DEF TypeOK
                <5>3. QED
                    BY <2>3, <5>1, <5>2
            <4>2. CASE j # i + 1
                <5>1. Nodes[j] # worker.next /\ Nodes[j] \in Node
                    BY <1>2, <3>1, <4>2 DEF Placed
                <5>2. prev'[Nodes[j]] = prev[Nodes[j]]
                    BY <3>2, <5>1 DEF TypeOK
                <5>3. QED
                    BY <1>5, <2>2, <5>1, <5>2
            <4>3. QED
                BY <4>1, <4>2
        <3>4. tail' = IF acceptor'.pc \in {"back", "last"} THEN At(Nodes, k - 1) ELSE At(Nodes, k)
            BY <1>6, <2>2, <2>6, <3>2
        <3>5. QED
            BY <1>8, <2>1, <2>2, <3>3, <3>4 DEF Backward
    <2>7. QED
        BY <2>5, <2>6
<1>21. CASE FreeNode \/ ReadToRemove \/ Decrement
    <2>1. worker.pc \in {"free", "count", "dec"} /\ worker'.pc \in {"count", "dec", "wait"}
        <3>1. FreeNode => worker.pc = "free" /\ worker'.pc = "count"
            BY DEF FreeNode, TypeOK
        <3>2. ReadToRemove => worker.pc = "count" /\ worker'.pc = "dec"
            BY DEF ReadToRemove, TypeOK
        <3>3. Decrement => worker.pc = "dec" /\ worker'.pc = "wait"
            BY DEF Decrement, Unoccupied
        <3>4. QED
            BY <1>21, <3>1, <3>2, <3>3
    <2>2. tail' = tail /\ prev' = prev /\ acceptor' = acceptor
        BY <1>21 DEF FreeNode, ReadToRemove, Decrement, listVars
    <2>3. Kept
        BY <2>1, <2>2, KeptWhen
    <2>4. QED
        BY <1>9, <2>1, <2>2, <2>3
<1>22. CASE MainLoop
    <2>1. tail' = tail /\ prev' = prev /\ acceptor' = acceptor /\ worker' = worker
        BY <1>22 DEF MainLoop, Scan, GetHead, Visit, GetNext, Dies, listVars
    <2>2. Kept
        BY <2>1, KeptWhen
    <2>3. QED
        BY <1>9, <2>1, <2>2
<1>23. QED
    BY <1>10, <1>11, <1>12, <1>13, <1>14, <1>15, <1>16, <1>17, <1>18, <1>19, <1>20, <1>21,
       <1>22 DEF Next, Step, Adding, Removing
-----------------------------------------------------------------------------
(* The remover.                                                            *)

\* A step of the others that leaves the list as it is.
LEMMA RemoverKept ==
    ASSUME RemoverInv, Kept, worker' = worker, early \subseteq early',
           worker.pc \in {"relink", "free"} =>
              worker.node \in live' /\ next'[worker.node] = next[worker.node]
    PROVE  RemoverInv'
<1>1. Nodes' = Nodes /\ Listed' = Listed
    BY DEF Kept
<1>2. worker.pc = "search" =>
          /\ worker.node = NULL \/ Contains(Nodes, worker.node)
          /\ worker.gate \in early' \/ Reaches(worker.node, worker.gate)
    BY DEF RemoverInv
<1>3. Reaches(worker.node, worker.gate) => Reaches(worker.node, worker.gate)'
    BY <1>1 DEF Reaches
<1>4. QED
    BY <1>1, <1>2, <1>3 DEF RemoverInv

\* A new node behind the list: the remover is not at its end.
LEMMA RemoverGrown ==
    ASSUME TypeOK, TypeOK', ListInv, Next, LinkFirst \/ Link
    PROVE  RemoverInv'
<1> DEFINE k == Len(Nodes)
           n == acceptor.node
<1>1. Grown /\ Linked'
    BY NodesStep
<1>2. Placed /\ k \in Nat
    BY LinkedPlaced DEF ListInv, Placed
<1>3. Placed'
    BY <1>1, LinkedPlacedNext
<1>4. AdderInv /\ RemoverInv /\ ~ Meeting /\ Backward
    BY DEF ListInv
<1>5. acceptor.pc \in {"first", "link"} /\ tail = At(Nodes, k)
    BY TailIsLast DEF LinkFirst, Link
<1>6. /\ Len(Nodes') = k + 1 /\ Nodes'[k + 1] = n
      /\ \A j \in 1 .. k : Nodes'[j] = Nodes[j]
      /\ \A j \in 1 .. k : Listed'[j] = Listed[j]
    BY <1>1, <1>2 DEF Grown, Longer, Placed
<1>7. \A j \in Int : At(Nodes, j) = IF j \in 1 .. k THEN Nodes[j] ELSE NULL
    BY <1>2 DEF Placed
<1>8. \A j \in Int : At(Nodes', j) = IF j \in 1 .. k + 1 THEN Nodes'[j] ELSE NULL
    BY <1>3, <1>6 DEF Placed
<1>9. \A j \in Int : j <= k => At(Nodes', j) = At(Nodes, j)
    BY <1>2, <1>6, <1>7, <1>8
<1>10. \A x : Contains(Nodes, x) => Contains(Nodes', x)
    <2>1. SUFFICES ASSUME NEW x, NEW j \in 1 .. k, Nodes[j] = x PROVE Contains(Nodes', x)
        BY <1>2 DEF Placed
    <2>2. j \in 1 .. Len(Nodes') /\ Nodes'[j] = x
        BY <1>2, <1>6, <2>1
    <2>3. QED
        BY <1>3, <2>2 DEF Placed
<1>11. ASSUME NEW i \in DOMAIN Nodes
       PROVE  i \in DOMAIN Nodes' /\ Nodes'[i] = Nodes[i] /\ Listed'[i] = Listed[i]
    BY <1>2, <1>3, <1>6 DEF Placed
<1>12. worker' = worker /\ live' = live /\ early' = early
    BY LinkAlive DEF LinkFirst, Link
<1>13. ASSUME worker.pc = "search"
       PROVE  /\ worker.node = NULL \/ Contains(Nodes', worker.node)
              /\ \/ worker.gate \in early
                 \/ \E i, j \in DOMAIN Nodes' :
                        i <= j /\ Nodes'[i] = worker.node /\ Listed'[j] = worker.gate
    <2>1. worker.node = NULL \/ Contains(Nodes, worker.node)
        BY <1>4, <1>13 DEF RemoverInv
    <2>2. \/ worker.gate \in early
          \/ \E i, j \in DOMAIN Nodes :
                 i <= j /\ Nodes[i] = worker.node /\ Listed[j] = worker.gate
        BY <1>4, <1>13 DEF RemoverInv, Reaches
    <2>3. QED
        BY <1>10, <1>11, <2>1, <2>2
<1>14. ASSUME worker.pc = "unlink"
       PROVE  \E i \in DOMAIN Nodes' :
                  /\ worker.node = Nodes'[i] /\ worker.gate = Listed'[i]
                  /\ worker.prev = At(Nodes', i - 1) /\ worker.next = At(Nodes', i + 1)
    <2>1. PICK i \in 1 .. k :
              /\ worker.node = Nodes[i] /\ worker.gate = Listed[i]
              /\ worker.prev = At(Nodes, i - 1) /\ worker.next = At(Nodes, i + 1)
        BY <1>2, <1>4, <1>14 DEF RemoverInv, Placed
    <2>2. i # k
        <3>1. i = k => k \in Int /\ tail = Nodes[i]
            BY <1>5, <1>7, <1>2
        <3>2. QED
            BY <1>4, <1>5, <1>14, <2>1, <3>1 DEF Meeting
    <2>3. i \in 1 .. k + 1 /\ i - 1 \in Int /\ i + 1 \in Int /\ i - 1 <= k /\ i + 1 <= k
        BY <1>2, <2>2
    <2>4. At(Nodes', i - 1) = At(Nodes, i - 1) /\ At(Nodes', i + 1) = At(Nodes, i + 1)
        BY <1>9, <2>3
    <2>5. i \in DOMAIN Nodes' /\ Nodes'[i] = Nodes[i] /\ Listed'[i] = Listed[i]
        BY <1>3, <1>6, <2>3 DEF Placed
    <2>6. QED
        BY <2>1, <2>4, <2>5
<1>15. ASSUME worker.pc = "relink"
       PROVE  \E i \in 0 .. Len(Nodes') :
                  worker.prev = At(Nodes', i) /\ worker.next = At(Nodes', i + 1)
    <2>1. PICK i \in 0 .. k : worker.prev = At(Nodes, i) /\ worker.next = At(Nodes, i + 1)
        BY <1>4, <1>15 DEF RemoverInv
    <2>2. worker.next # NULL
        BY <1>4, <1>5, <1>15 DEF Backward, Meeting
    <2>3. i # k
        <3>1. i = k => i + 1 \in Int /\ i + 1 \notin 1 .. k
            BY <1>2
        <3>2. QED
            BY <1>7, <2>1, <2>2, <3>1
    <2>4. /\ i \in 0 .. Len(Nodes') /\ i \in Int /\ i + 1 \in Int /\ i <= k /\ i + 1 <= k
        BY <1>2, <1>6, <2>3
    <2>5. QED
        BY <1>9, <2>1, <2>4
<1>16. ASSUME worker.pc \in {"relink", "free"}
       PROVE  /\ worker.node \in live /\ ~ Contains(Nodes', worker.node)
              /\ next'[worker.node] = worker.next
              /\ worker.next = NULL \/ Contains(Nodes', worker.next)
    <2>1. /\ worker.node \in live /\ ~ Contains(Nodes, worker.node)
          /\ next[worker.node] = worker.next
          /\ worker.next = NULL \/ Contains(Nodes, worker.next)
        BY <1>4, <1>16 DEF RemoverInv
    <2>2. worker.node # n
        BY <1>4, <1>5, <1>16 DEF AdderInv
    <2>3. ~ Contains(Nodes', worker.node)
        <3>1. \A j \in 1 .. k : Nodes[j] # worker.node
            BY <1>2, <2>1 DEF Placed
        <3>2. \A j \in 1 .. k + 1 : Nodes'[j] # worker.node
            BY <1>2, <1>6, <2>2, <3>1
        <3>3. QED
            BY <1>3, <1>6, <3>2 DEF Placed
    <2>4. next'[worker.node] = next[worker.node]
        <3>1. CASE LinkFirst
            BY <3>1 DEF LinkFirst
        <3>2. CASE Link
            <4>1. tail # worker.node /\ tail \in live
                BY <1>4, <1>5, <1>16, <3>2, LinkAlive DEF Meeting
            <4>2. next' = [next EXCEPT ![tail] = n]
                BY <3>2, <4>1 DEF Link
            <4>3. worker.node \in Node
                BY <2>1 DEF TypeOK
            <4>4. QED
                BY <4>1, <4>2, <4>3 DEF TypeOK
        <3>3. QED
            BY <3>1, <3>2
    <2>5. QED
        BY <1>10, <2>1, <2>3, <2>4
<1>17. QED
    BY <1>12, <1>13, <1>14, <1>15, <1>16 DEF RemoverInv, Reaches

\* RemoveNodeByData comes to the node that holds the gate and reads its links,
\* which are what they seem unless the adder is setting them.
LEMMA RemoverSearches ==
    ASSUME TypeOK, TypeOK', ListInv, Next, ~ Meeting', Search
    PROVE  RemoverInv'
<1> DEFINE k == Len(Nodes)
<1>1. Kept
    BY KeptWhen DEF Search, Dies
<1>2. Placed /\ k \in Nat /\ Links(Nodes, k, head, next)
    BY LinkedPlaced DEF ListInv, Placed
<1>3. RemoverInv /\ Backward
    BY DEF ListInv
<1>4. /\ acceptor' = acceptor /\ early' = early /\ worker.pc = "search"
    BY DEF Search, Dies
<1>5. worker.node = NULL \/ \E i \in 1 .. k : worker.node = Nodes[i]
    BY <1>2, <1>3, <1>4 DEF RemoverInv, Placed
<1>6. \A j \in Int : At(Nodes, j) = IF j \in 1 .. k THEN Nodes[j] ELSE NULL
    BY <1>2 DEF Placed
<1>7. CASE worker' = worker /\ worker.node \notin live \cup {NULL}
    BY <1>2, <1>5, <1>7 DEF Placed
<1>8. CASE worker' = Unoccupied
    BY <1>8 DEF RemoverInv, Unoccupied
<1>9. CASE /\ worker.node \in live /\ data[worker.node] = worker.gate
           /\ worker' = [worker EXCEPT !.pc = "unlink", !.next = next[worker.node],
                                       !.prev = prev[worker.node]]
    <2>1. worker.node # NULL
        BY <1>9 DEF TypeOK, Node, NULL
    <2>2. PICK i \in 1 .. k : worker.node = Nodes[i]
        BY <1>5, <2>1
    <2>3. /\ worker'.pc = "unlink" /\ worker'.node = worker.node /\ worker'.gate = worker.gate
          /\ worker'.next = next[worker.node] /\ worker'.prev = prev[worker.node]
        BY <1>9 DEF TypeOK
    <2>4. worker.gate = Listed[i]
        BY <1>2, <1>9, <2>2 DEF Placed
    <2>5. worker'.next = At(Nodes, i + 1)
        <3>1. next[Nodes[i]] = IF i = k THEN NULL ELSE Nodes[i + 1]
            BY <1>2 DEF Links
        <3>2. i + 1 \in Int /\ (i + 1 \in 1 .. k <=> i # k)
            BY <1>2
        <3>3. QED
            BY <1>6, <2>2, <2>3, <3>1, <3>2
    <2>6. worker'.prev = At(Nodes, i - 1)
        <3>1. ~ (acceptor.pc = "back" /\ i = k)
            <4>1. SUFFICES ASSUME acceptor.pc = "back", i = k PROVE FALSE
                OBVIOUS
            <4>2. acceptor.node = Nodes[i]
                BY <4>1 DEF ListInv, AdderInv
            <4>3. QED
                BY <1>4, <2>2, <2>3, <4>1, <4>2 DEF Meeting
        <3>2. i \in DOMAIN Nodes
            BY <1>2 DEF Placed
        <3>3. QED
            BY <1>3, <1>4, <2>2, <2>3, <3>1, <3>2 DEF Backward
    <2>7. i \in DOMAIN Nodes
        BY <1>2 DEF Placed
    <2>8. QED
        BY <1>1, <2>2, <2>3, <2>4, <2>5, <2>6, <2>7 DEF RemoverInv, Kept
<1>10. CASE /\ worker.node \in live /\ data[worker.node] # worker.gate
            /\ worker' = [worker EXCEPT !.node = next[worker.node]]
    <2>1. worker.node # NULL
        BY <1>10 DEF TypeOK, Node, NULL
    <2>2. PICK i \in 1 .. k : worker.node = Nodes[i]
        BY <1>5, <2>1
    <2>3. /\ worker'.pc = "search" /\ worker'.node = next[worker.node]
          /\ worker'.gate = worker.gate
        BY <1>4, <1>10 DEF TypeOK
    <2>4. next[Nodes[i]] = IF i = k THEN NULL ELSE Nodes[i + 1]
        BY <1>2 DEF Links
    <2>5. i # k => i + 1 \in 1 .. k
        BY <1>2
    <2>6. worker'.node = NULL \/ Contains(Nodes, worker'.node)
        <3>1. worker'.node = IF i = k THEN NULL ELSE Nodes[i + 1]
            BY <2>2, <2>3, <2>4
        <3>2. i # k => \E j \in 1 .. k : Nodes[j] = Nodes[i + 1]
            BY <2>5
        <3>3. \A x : Contains(Nodes, x) <=> \E j \in 1 .. k : Nodes[j] = x
            BY <1>2 DEF Placed
        <3>4. i # k => Contains(Nodes, Nodes[i + 1])
            BY <3>2, <3>3
        <3>5. QED
            BY <3>1, <3>4
    <2>7. ASSUME worker.gate \notin early
          PROVE  \E h, j \in DOMAIN Nodes :
                     h <= j /\ Nodes[h] = worker'.node /\ Listed[j] = worker.gate
        <3>1. PICK h \in 1 .. k, j \in 1 .. k :
                  h <= j /\ Nodes[h] = worker.node /\ Listed[j] = worker.gate
            BY <1>2, <1>3, <1>4, <2>7 DEF RemoverInv, Reaches, Placed
        <3>2. h = i
            BY <1>2, <2>2, <3>1 DEF Placed
        <3>3. Listed[i] # worker.gate
            BY <1>2, <1>10, <2>2 DEF Placed
        <3>4. i # k /\ i + 1 \in 1 .. k /\ i + 1 <= j
            BY <1>2, <3>1, <3>2, <3>3
        <3>5. Nodes[i + 1] = worker'.node
            BY <2>2, <2>3, <2>4, <3>4
        <3>6. DOMAIN Nodes = 1 .. k
            BY <1>2 DEF Placed
        <3>7. QED
            BY <3>1, <3>4, <3>5, <3>6
    <2>8. QED
        BY <1>1, <1>4, <2>3, <2>6, <2>7 DEF RemoverInv, Reaches, Kept
<1>11. QED
    BY <1>7, <1>8, <1>9, <1>10, SearchEnds

\* The node it has taken out leads on to the one that took its place.
LEMMA RemoverCuts ==
    ASSUME TypeOK, TypeOK', ListInv, Next, Unlink
    PROVE  RemoverInv'
<1> DEFINE k == Len(Nodes)
<1>1. (\E i \in 1 .. k : Cut(i)) /\ Linked'
    BY NodesStep
<1>2. Placed /\ k \in Nat /\ Links(Nodes, k, head, next)
    BY LinkedPlaced DEF ListInv, Placed
<1>3. Placed'
    BY <1>1, LinkedPlacedNext
<1>4. PICK i \in 1 .. k : Cut(i)
    BY <1>1
<1>5. /\ Len(Nodes') = k - 1 /\ Nodes[i] = worker.node
      /\ \A j \in 1 .. k - 1 : Nodes'[j] = IF j < i THEN Nodes[j] ELSE Nodes[j + 1]
      /\ worker.prev = At(Nodes, i - 1) /\ worker.next = At(Nodes, i + 1)
    BY <1>4 DEF Cut, Shorter
<1>6. \A j \in Int : At(Nodes, j) = IF j \in 1 .. k THEN Nodes[j] ELSE NULL
    BY <1>2 DEF Placed
<1>7. \A j \in Int : At(Nodes', j) = IF j \in 1 .. k - 1 THEN Nodes'[j] ELSE NULL
    BY <1>3, <1>5 DEF Placed
<1>8. /\ worker'.pc = "relink" /\ worker'.node = worker.node /\ worker'.next = worker.next
      /\ worker'.prev = worker.prev /\ live' = live
    BY DEF Unlink, TypeOK
<1>9. At(Nodes', i - 1) = At(Nodes, i - 1)
    <2>1. i - 1 \in Int /\ (i - 1 \in 1 .. k - 1 <=> i - 1 \in 1 .. k) /\ i - 1 < i
        BY <1>2
    <2>2. i - 1 \in 1 .. k - 1 => Nodes'[i - 1] = Nodes[i - 1]
        BY <1>5, <2>1
    <2>3. QED
        BY <1>6, <1>7, <2>1, <2>2
<1>10. At(Nodes', i) = At(Nodes, i + 1)
    <2>1. /\ i \in Int /\ i + 1 \in Int /\ (i \in 1 .. k - 1 <=> i + 1 \in 1 .. k)
          /\ ~ (i < i)
        BY <1>2
    <2>2. i \in 1 .. k - 1 => Nodes'[i] = Nodes[i + 1]
        BY <1>5, <2>1
    <2>3. QED
        BY <1>6, <1>7, <2>1, <2>2
<1>11. i - 1 \in 0 .. Len(Nodes') /\ (i - 1) + 1 = i
    BY <1>2, <1>5
<1>12. \A j \in 1 .. k - 1 : Nodes'[j] # worker.node
    <2>1. SUFFICES ASSUME NEW j \in 1 .. k - 1 PROVE Nodes'[j] # Nodes[i]
        BY <1>5
    <2>2. j \in 1 .. k /\ j + 1 \in 1 .. k /\ (j < i => j # i) /\ (~ (j < i) => j + 1 # i)
        BY <1>2
    <2>3. \A m, h \in 1 .. k : Nodes[m] = Nodes[h] => m = h
        BY <1>2 DEF Placed
    <2>4. QED
        BY <1>5, <2>2, <2>3
<1>13. ~ Contains(Nodes', worker.node)
    BY <1>3, <1>5, <1>12 DEF Placed
<1>14. worker.next = NULL \/ Contains(Nodes', worker.next)
    <2>1. i \in 1 .. k - 1 \/ worker.next = NULL
        BY <1>2, <1>5, <1>6
    <2>2. i \in 1 .. k - 1 => worker.next = Nodes'[i]
        BY <1>2, <1>5, <1>7, <1>10
    <2>3. QED
        BY <1>3, <1>5, <2>1, <2>2 DEF Placed
<1>15. worker.node \in live /\ worker.node \in Node
    BY <1>2, <1>5 DEF Placed
<1>16. next[worker.node] = worker.next
    <2>1. next[Nodes[i]] = IF i = k THEN NULL ELSE Nodes[i + 1]
        BY <1>2 DEF Links
    <2>2. i + 1 \in Int /\ (i + 1 \in 1 .. k <=> i # k)
        BY <1>2
    <2>3. QED
        BY <1>5, <1>6, <2>1, <2>2
<1>17. next'[worker.node] = next[worker.node]
    <2>1. CASE worker.prev = NULL
        BY <2>1 DEF Unlink
    <2>2. CASE worker.prev # NULL
        <3>1. i - 1 \in 1 .. k /\ worker.prev = Nodes[i - 1] /\ i - 1 # i
            BY <1>2, <1>5, <1>6, <2>2
        <3>2. worker.prev # worker.node
            BY <1>2, <1>5, <3>1 DEF Placed
        <3>3. next' = [next EXCEPT ![worker.prev] = worker.next]
            BY <2>2 DEF Unlink
        <3>4. QED
            BY <1>15, <3>2, <3>3 DEF TypeOK
    <2>3. QED
        BY <2>1, <2>2
<1>18. \E h \in 0 .. Len(Nodes') : /\ worker.prev = At(Nodes', h)
                                   /\ worker.next = At(Nodes', h + 1)
    BY <1>5, <1>9, <1>10, <1>11
<1>19. QED
    BY <1>8, <1>13, <1>14, <1>15, <1>16, <1>17, <1>18 DEF RemoverInv

LEMMA RemoverStep ==
    TypeOK /\ TypeOK' /\ ListInv /\ Next /\ ~ Meeting' => RemoverInv'
<1> SUFFICES ASSUME TypeOK, TypeOK', ListInv, Next, ~ Meeting' PROVE RemoverInv'
    OBVIOUS
<1> DEFINE k == Len(Nodes)
<1>1. Placed /\ k \in Nat /\ Links(Nodes, k, head, next)
    BY LinkedPlaced DEF ListInv, Placed
<1>2. RemoverInv /\ AdderInv
    BY DEF ListInv
<1>3. ASSUME NEW g \in Gate, Accept(g) PROVE RemoverInv'
    <2>1. Kept
        BY <1>3, KeptWhen DEF Accept
    <2>2. worker' = worker /\ early' = early /\ live' = live /\ next' = next
        BY <1>3 DEF Accept, listVars
    <2>3. QED
        BY <1>2, <2>1, <2>2, RemoverKept DEF RemoverInv
<1>4. CASE Allocate
    <2>1. Kept
        BY <1>4, KeptWhen DEF Allocate
    <2>2. PICK m \in Node \ live :
              live' = live \cup {m} /\ next' = [next EXCEPT ![m] = NULL]
        BY <1>4 DEF Allocate
    <2>3. worker' = worker /\ early' = early
        BY <1>4 DEF Allocate
    <2>4. ASSUME worker.pc \in {"relink", "free"}
          PROVE  worker.node \in live' /\ next'[worker.node] = next[worker.node]
        <3>1. worker.node \in live
            BY <1>2, <2>4 DEF RemoverInv
        <3>2. worker.node # m /\ worker.node \in Node
            BY <2>2, <3>1 DEF TypeOK
        <3>3. QED
            BY <2>2, <3>1, <3>2 DEF TypeOK
    <2>5. QED
        BY <1>2, <2>1, <2>3, <2>4, RemoverKept
<1>5. CASE LinkFirst \/ Link
    BY <1>5, RemoverGrown
<1>6. CASE TestHead \/ LinkBack \/ ReadToAdd \/ Increment
    <2>1. worker' = worker /\ early' = early /\ live' = live /\ next' = next
        BY <1>6 DEF TestHead, LinkBack, ReadToAdd, Increment, listVars
    <2>2. acceptor.pc \notin {"first", "link"}
        BY <1>6 DEF TestHead, LinkBack, ReadToAdd, Increment
    <2>3. Kept
        BY <2>1, <2>2, KeptWhen
    <2>4. QED
        BY <1>2, <2>1, <2>3, RemoverKept DEF RemoverInv
<1>7. CASE SetLast
    <2>1. Kept
        BY <1>7, KeptWhen DEF SetLast
    <2>2. /\ worker' = worker /\ early' = early /\ live' = live
          /\ next' = [next EXCEPT ![acceptor.node] = NULL]
        BY <1>7 DEF SetLast
    <2>3. Contains(Nodes, acceptor.node)
        <3>1. Nodes # <<>> /\ acceptor.node = Nodes[k]
            BY <1>2, <1>7 DEF SetLast, AdderInv
        <3>2. k \in 1 .. k
            BY <1>1, <3>1 DEF Placed
        <3>3. QED
            BY <1>1, <3>1, <3>2 DEF Placed
    <2>4. ASSUME worker.pc \in {"relink", "free"}
          PROVE  worker.node \in live' /\ next'[worker.node] = next[worker.node]
        <3>1. worker.node \in live /\ worker.node # acceptor.node
            BY <1>2, <2>3, <2>4 DEF RemoverInv
        <3>2. worker.node \in Node
            BY <3>1 DEF TypeOK
        <3>3. QED
            BY <2>2, <3>1, <3>2 DEF TypeOK
    <2>5. QED
        BY <1>2, <2>1, <2>2, <2>4, RemoverKept
<1>8. ASSUME NEW g \in Gate, Lose(g) PROVE RemoverInv'
    <2>1. Kept
        BY <1>8, KeptWhen DEF Lose
    <2>2. /\ worker'.pc = "search" /\ worker'.gate = g /\ worker'.node = head
          /\ early' = IF Contains(Listed, g) THEN early ELSE early \cup {g}
        BY <1>8 DEF Lose, Unoccupied
    <2>3. head = IF k = 0 THEN NULL ELSE Nodes[1]
        BY <1>1 DEF Links
    <2>4. k # 0 => 1 \in 1 .. k
        BY <1>1
    <2>5. head = NULL \/ Contains(Nodes, head)
        BY <1>1, <2>3, <2>4 DEF Placed
    <2>6. ASSUME Contains(Listed, g)
          PROVE  \E i, j \in DOMAIN Nodes : i <= j /\ Nodes[i] = head /\ Listed[j] = g
        <3>1. PICK j \in 1 .. k : Listed[j] = g
            BY <1>1, <2>6 DEF Placed
        <3>2. k # 0 /\ 1 \in 1 .. k /\ 1 <= j
            BY <1>1
        <3>3. Nodes[1] = head /\ DOMAIN Nodes = 1 .. k
            BY <1>1, <2>3, <3>2 DEF Placed
        <3>4. QED
            BY <3>1, <3>2, <3>3
    <2>7. g \in early' \/ \E i, j \in DOMAIN Nodes : i <= j /\ Nodes[i] = head /\ Listed[j] = g
        BY <2>2, <2>6
    <2>8. QED
        BY <2>1, <2>2, <2>5, <2>7 DEF RemoverInv, Reaches, Kept
<1>9. CASE Search
    BY <1>9, RemoverSearches
<1>10. CASE Unlink
    BY <1>10, RemoverCuts
<1>11. CASE Relink
    <2>1. Kept
        BY <1>11, KeptWhen DEF Relink
    <2>2. /\ worker.pc = "relink" /\ worker'.pc = "free" /\ worker'.node = worker.node
          /\ worker'.next = worker.next /\ live' = live /\ next' = next
        BY <1>11 DEF Relink, TypeOK
    <2>3. QED
        BY <1>2, <2>1, <2>2 DEF RemoverInv, Kept
<1>12. CASE FreeNode \/ ReadToRemove \/ Decrement
    <2>1. worker'.pc \in {"count", "dec", "wait"}
        <3>1. FreeNode => worker'.pc = "count"
            BY DEF FreeNode, TypeOK
        <3>2. ReadToRemove => worker'.pc = "dec"
            BY DEF ReadToRemove, TypeOK
        <3>3. Decrement => worker'.pc = "wait"
            BY DEF Decrement, Unoccupied
        <3>4. QED
            BY <1>12, <3>1, <3>2, <3>3
    <2>2. QED
        BY <2>1 DEF RemoverInv
<1>13. CASE MainLoop
    <2>1. /\ worker' = worker /\ early' = early /\ live' = live /\ next' = next
          /\ acceptor' = acceptor
        BY <1>13 DEF MainLoop, Scan, GetHead, Visit, GetNext, Dies, listVars
    <2>2. Kept
        BY <2>1, KeptWhen
    <2>3. QED
        BY <1>2, <2>1, <2>2, RemoverKept DEF RemoverInv
<1>14. QED
    BY <1>3, <1>4, <1>5, <1>6, <1>7, <1>8, <1>9, <1>10, <1>11, <1>12, <1>13
    DEF Next, Step, Adding, Removing
-----------------------------------------------------------------------------
(* The main loop.                                                          *)

\* A step that leaves list and walk as they are.
LEMMA WalkKept ==
    ASSUME Kept, OnTheWay, stranded => stranded', main' = main, owed' = owed,
           worker.pc \in {"relink", "free"} =>
              /\ worker'.pc \in {"relink", "free"}
              /\ worker'.node = worker.node /\ worker'.next = worker.next
    PROVE  OnTheWay'
<1>1. CASE stranded
    BY <1>1 DEF OnTheWay
<1>2. CASE /\ Contains(Nodes, main.node)
           /\ \A g \in owed : Reaches(main.node, g) /\ (main.pc = "next" => Passes(main.node, g))
    BY <1>2 DEF OnTheWay, Kept, Reaches, Passes
<1>3. CASE /\ worker.pc \in {"relink", "free"} /\ main.node = worker.node
           /\ \A g \in owed : Reaches(worker.next, g)
    BY <1>3 DEF OnTheWay, Kept, Reaches
<1>4. QED
    BY <1>1, <1>2, <1>3 DEF OnTheWay

\* A gate behind the list leaves what is ahead of the walk as it is.
LEMMA WalkGrown ==
    ASSUME TypeOK, TypeOK', ListInv, Next, LinkFirst \/ Link, OnTheWay, stranded => stranded'
    PROVE  OnTheWay'
<1> DEFINE k == Len(Nodes)
<1>1. Grown /\ Linked'
    BY NodesStep
<1>2. Placed /\ k \in Nat
    BY LinkedPlaced DEF ListInv, Placed
<1>3. Placed'
    BY <1>1, LinkedPlacedNext
<1>4. /\ Len(Nodes') = k + 1
      /\ \A j \in 1 .. k : Nodes'[j] = Nodes[j]
      /\ \A j \in 1 .. k : Listed'[j] = Listed[j]
    BY <1>1, <1>2 DEF Grown, Longer, Placed
<1>5. ASSUME NEW i \in DOMAIN Nodes
      PROVE  i \in DOMAIN Nodes' /\ Nodes'[i] = Nodes[i] /\ Listed'[i] = Listed[i]
    BY <1>2, <1>3, <1>4 DEF Placed
<1>6. main' = main /\ owed' = owed /\ worker' = worker
    BY LinkAlive DEF LinkFirst, Link
<1>7. CASE stranded
    BY <1>7 DEF OnTheWay
<1>8. CASE /\ Contains(Nodes, main.node)
           /\ \A g \in owed : Reaches(main.node, g) /\ (main.pc = "next" => Passes(main.node, g))
    <2>1. Contains(Nodes', main.node)
        <3>1. PICK j \in 1 .. k : Nodes[j] = main.node
            BY <1>2, <1>8 DEF Placed
        <3>2. j \in 1 .. Len(Nodes') /\ Nodes'[j] = main.node
            BY <1>2, <1>4, <3>1
        <3>3. \A x : Contains(Nodes', x) <=> \E h \in 1 .. Len(Nodes') : Nodes'[h] = x
            BY <1>3 DEF Placed
        <3>4. QED
            BY <3>2, <3>3
    <2>2. \A g \in owed :
              /\ \E i, j \in DOMAIN Nodes' : i <= j /\ Nodes'[i] = main.node /\ Listed'[j] = g
              /\ main.pc = "next" =>
                    \E i, j \in DOMAIN Nodes' : i < j /\ Nodes'[i] = main.node /\ Listed'[j] = g
        <3>1. \A g \in owed :
                  /\ \E i, j \in DOMAIN Nodes : i <= j /\ Nodes[i] = main.node /\ Listed[j] = g
                  /\ main.pc = "next" =>
                        \E i, j \in DOMAIN Nodes : i < j /\ Nodes[i] = main.node /\ Listed[j] = g
            BY <1>8 DEF Reaches, Passes
        <3>2. QED
            BY <1>5, <3>1
    <2>3. QED
        BY <1>6, <2>1, <2>2 DEF OnTheWay, Reaches, Passes
<1>9. CASE /\ worker.pc \in {"relink", "free"} /\ main.node = worker.node
           /\ \A g \in owed : Reaches(worker.next, g)
    <2>1. \A g \in owed :
              \E i, j \in DOMAIN Nodes : i <= j /\ Nodes[i] = worker.next /\ Listed[j] = g
        BY <1>9 DEF Reaches
    <2>2. \A g \in owed :
              \E i, j \in DOMAIN Nodes' : i <= j /\ Nodes'[i] = worker.next /\ Listed'[j] = g
        BY <1>5, <2>1
    <2>3. QED
        BY <1>6, <1>9, <2>2 DEF OnTheWay, Reaches
<1>10. QED
    BY <1>7, <1>8, <1>9 DEF OnTheWay
\* A gate is taken out of the list before, under or ahead of the walk.
LEMMA WalkCut ==
    ASSUME TypeOK, TypeOK', ListInv, Next, Unlink, OnTheWay, stranded => stranded'
    PROVE  OnTheWay'
<1> DEFINE k == Len(Nodes)
<1>1. (\E i \in 1 .. k : Cut(i)) /\ Linked'
    BY NodesStep
<1>2. Placed /\ k \in Nat
    BY LinkedPlaced DEF ListInv, Placed
<1>3. Placed'
    BY <1>1, LinkedPlacedNext
<1>4. PICK c \in 1 .. k : Cut(c)
    BY <1>1
<1>5. /\ Len(Nodes') = k - 1 /\ Nodes[c] = worker.node /\ Listed[c] = worker.gate
      /\ \A j \in 1 .. k - 1 : Nodes'[j] = IF j < c THEN Nodes[j] ELSE Nodes[j + 1]
      /\ \A j \in 1 .. k - 1 : Listed'[j] = IF j < c THEN Listed[j] ELSE Listed[j + 1]
      /\ worker.next = At(Nodes, c + 1)
    BY <1>2, <1>4 DEF Cut, Shorter, Placed
<1> DEFINE to(j) == IF j < c THEN j ELSE j - 1  \* the place j has then
<1>6. ASSUME NEW j \in 1 .. k, j # c
      PROVE  to(j) \in DOMAIN Nodes' /\ Nodes'[to(j)] = Nodes[j] /\ Listed'[to(j)] = Listed[j]
    <2>1. to(j) \in 1 .. k - 1 /\ j = IF to(j) < c THEN to(j) ELSE to(j) + 1
        BY <1>2, <1>6
    <2> HIDE DEF to
    <2>2. Nodes'[to(j)] = Nodes[j] /\ Listed'[to(j)] = Listed[j]
        BY <1>5, <2>1
    <2>3. QED
        BY <1>3, <1>5, <2>1, <2>2 DEF Placed
<1>7. ASSUME NEW i \in 1 .. k, NEW j \in 1 .. k, i # c, j # c
      PROVE  (i <= j => to(i) <= to(j)) /\ (i < j => to(i) < to(j))
    BY <1>2, <1>7
<1>8. \A j \in 1 .. k : c < j => to(j) \in Int /\ c <= to(j)
    BY <1>2
<1> HIDE DEF to
<1>9. /\ worker'.pc = "relink" /\ worker'.node = worker.node /\ worker'.next = worker.next
      /\ main' = main /\ owed' = owed \ {worker.gate} /\ worker.pc = "unlink"
    BY DEF Unlink, TypeOK
<1>10. CASE stranded
    BY <1>10 DEF OnTheWay
<1>11. CASE ~ stranded
    <2>1. /\ Contains(Nodes, main.node)
          /\ \A g \in owed : Reaches(main.node, g) /\ (main.pc = "next" => Passes(main.node, g))
        BY <1>9, <1>11 DEF OnTheWay
    <2>2. PICK m \in 1 .. k : Nodes[m] = main.node
        BY <1>2, <2>1 DEF Placed
    <2>3. \A i \in 1 .. k : Nodes[i] = main.node => i = m
        BY <1>2, <2>2 DEF Placed
    <2>4. ASSUME NEW g \in owed'
          PROVE  \E j \in 1 .. k : j # c /\ m <= j /\ Listed[j] = g /\ (main.pc = "next" => m < j)
        <3>1. g \in owed /\ g # worker.gate
            BY <1>9
        <3>2. PICK i \in DOMAIN Nodes, j \in DOMAIN Nodes :
                  i <= j /\ Nodes[i] = main.node /\ Listed[j] = g
            BY <2>1, <3>1 DEF Reaches
        <3>3. DOMAIN Nodes = 1 .. k
            BY <1>2 DEF Placed
        <3>4. i = m /\ j # c
            BY <1>5, <2>3, <3>1, <3>2, <3>3
        <3>5. ASSUME main.pc = "next" PROVE m < j
            <4>1. PICK h \in DOMAIN Nodes, l \in DOMAIN Nodes :
                      h < l /\ Nodes[h] = main.node /\ Listed[l] = g
                BY <2>1, <3>1, <3>5 DEF Passes
            <4>2. h = m /\ l = j
                BY <1>2, <2>3, <3>2, <3>3, <4>1 DEF Placed
            <4>3. QED
                BY <4>1, <4>2
        <3>6. QED
            BY <3>2, <3>3, <3>4, <3>5
    <2>5. CASE m = c
        <3>1. ASSUME NEW g \in owed'
              PROVE  \E i, j \in DOMAIN Nodes' :
                        i <= j /\ Nodes'[i] = worker.next /\ Listed'[j] = g
            <4>1. PICK j \in 1 .. k : j # c /\ m <= j /\ Listed[j] = g
                BY <2>4
            <4>2. c < j /\ c \in 1 .. k - 1 /\ ~ (c < c) /\ c + 1 \in 1 .. k /\ c + 1 \in Int
                BY <1>2, <2>5, <4>1
            <4>3. worker.next = Nodes[c + 1]
                BY <1>2, <1>5, <4>2 DEF Placed
            <4>4. Nodes'[c] = worker.next
                BY <1>5, <4>2, <4>3
            <4>5. to(j) \in DOMAIN Nodes' /\ Listed'[to(j)] = g /\ c <= to(j)
                BY <1>6, <1>8, <4>1, <4>2
            <4>6. c \in DOMAIN Nodes'
                BY <1>3, <1>5, <4>2 DEF Placed
            <4>7. QED
                BY <4>4, <4>5, <4>6
        <3>2. QED
            BY <1>5, <1>9, <2>2, <2>5, <3>1 DEF OnTheWay, Reaches
    <2>6. CASE m # c
        <3>1. to(m) \in DOMAIN Nodes' /\ Nodes'[to(m)] = main.node
            BY <1>6, <2>2, <2>6
        <3>2. Contains(Nodes', main.node)
            <4>1. DOMAIN Nodes' = 1 .. Len(Nodes')
                BY <1>3 DEF Placed
            <4>2. \E h \in 1 .. Len(Nodes') : Nodes'[h] = main.node
                BY <3>1, <4>1
            <4>3. \A x : Contains(Nodes', x) <=> \E h \in 1 .. Len(Nodes') : Nodes'[h] = x
                BY <1>3 DEF Placed
            <4>4. QED
                BY <4>2, <4>3
        <3>3. ASSUME NEW g \in owed'
              PROVE  /\ \E i, j \in DOMAIN Nodes' :
                           i <= j /\ Nodes'[i] = main.node /\ Listed'[j] = g
                     /\ main.pc = "next" =>
                           \E i, j \in DOMAIN Nodes' :
                               i < j /\ Nodes'[i] = main.node /\ Listed'[j] = g
            <4>1. PICK j \in 1 .. k :
                      j # c /\ m <= j /\ Listed[j] = g /\ (main.pc = "next" => m < j)
                BY <2>4
            <4>2. to(j) \in DOMAIN Nodes' /\ Listed'[to(j)] = g
                BY <1>6, <4>1
            <4>3. to(m) <= to(j) /\ (main.pc = "next" => to(m) < to(j))
                <5>1. (m <= j => to(m) <= to(j)) /\ (m < j => to(m) < to(j))
                    BY <1>7, <2>6, <4>1
                <5>2. QED
                    BY <4>1, <5>1
            <4>4. QED
                BY <3>1, <4>2, <4>3
        <3>4. QED
            BY <1>9, <3>2, <3>3 DEF OnTheWay, Reaches, Passes
    <2>7. QED
        BY <2>5, <2>6
<1>12. QED
    BY <1>10, <1>11

\* The walk itself: from the head, from a node to the next, or from the one that
\* was taken out back to the list.
LEMMA WalkGoesOn ==
    ASSUME TypeOK, TypeOK', ListInv, Next, MainLoop, stranded => stranded',
           main'.pc \in {"visit", "next"}
    PROVE  OnTheWay'
<1> DEFINE k == Len(Nodes)
<1>1. Kept
    <2>1. acceptor' = acceptor /\ worker' = worker
        BY DEF MainLoop, Scan, GetHead, Visit, GetNext, Dies
    <2>2. QED
        BY <2>1, KeptWhen
<1>2. Placed /\ k \in Nat /\ Links(Nodes, k, head, next) /\ DOMAIN Nodes = 1 .. k
    BY LinkedPlaced DEF ListInv, Placed
<1>3. RemoverInv
    BY DEF ListInv
<1>4. worker' = worker
    BY DEF MainLoop, Scan, GetHead, Visit, GetNext, Dies
<1>5. main.pc \in {"visit", "next"} => main.node # NULL /\ OnTheWay
    BY DEF ListInv, WalkInv
<1>6. \A x : Contains(Nodes, x) <=> \E j \in 1 .. k : Nodes[j] = x
    BY <1>2 DEF Placed
<1>7. CASE Scan
    BY <1>7 DEF Scan, TypeOK
<1>8. CASE GetHead
    <2>1. /\ main'.pc = (IF head = NULL THEN "scan" ELSE "visit") /\ main'.node = head
          /\ owed' = { Listed[i] : i \in DOMAIN Listed }
        BY <1>8 DEF GetHead
    <2>2. main'.pc = "visit" /\ head # NULL
        BY <2>1
    <2>3. k # 0 /\ head = Nodes[1] /\ 1 \in 1 .. k
        <3>1. head = IF k = 0 THEN NULL ELSE Nodes[1]
            BY <1>2 DEF Links
        <3>2. QED
            BY <1>2, <2>2, <3>1
    <2>4. Contains(Nodes, head)
        BY <1>6, <2>3
    <2>5. ASSUME NEW g \in owed'
          PROVE  \E i, j \in DOMAIN Nodes : i <= j /\ Nodes[i] = head /\ Listed[j] = g
        <3>1. DOMAIN Listed = 1 .. k
            BY <1>2 DEF Placed
        <3>2. PICK j \in 1 .. k : Listed[j] = g
            BY <2>1, <3>1
        <3>3. 1 <= j
            BY <1>2
        <3>4. QED
            BY <1>2, <2>3, <3>2, <3>3
    <2>6. QED
        BY <1>1, <2>1, <2>2, <2>4, <2>5 DEF OnTheWay, Reaches, Kept
<1>9. ASSUME main.pc \in {"visit", "next"}, ~ stranded, main.node \in live,
             NEW o \in SUBSET owed, owed' = o,
             \/ /\ main.pc = "visit" /\ main'.pc = "next" /\ main'.node = main.node
                /\ data[main.node] \notin o
             \/ /\ main.pc = "next" /\ main'.pc = "visit" /\ main'.node = next[main.node]
                /\ main'.node # NULL
      PROVE  OnTheWay'
    <2>1. CASE /\ Contains(Nodes, main.node)
               /\ \A g \in owed :
                     Reaches(main.node, g) /\ (main.pc = "next" => Passes(main.node, g))
        <3>1. PICK m \in 1 .. k : Nodes[m] = main.node
            BY <1>6, <2>1
        <3>2. \A i \in 1 .. k : Nodes[i] = main.node => i = m
            BY <1>2, <3>1 DEF Placed
        <3>3. CASE /\ main.pc = "visit" /\ main'.pc = "next" /\ main'.node = main.node
                   /\ data[main.node] \notin o
            <4>1. ASSUME NEW g \in o
                  PROVE  \E i, j \in DOMAIN Nodes :
                            i < j /\ i <= j /\ Nodes[i] = main.node /\ Listed[j] = g
                <5>1. PICK i \in 1 .. k, j \in 1 .. k :
                          i <= j /\ Nodes[i] = main.node /\ Listed[j] = g
                    BY <1>2, <2>1 DEF Reaches
                <5>2. Listed[i] = data[main.node]
                    BY <1>2, <5>1 DEF Placed
                <5>3. i # j
                    BY <3>3, <5>1, <5>2
                <5>4. QED
                    BY <1>2, <5>1, <5>3
            <4>2. QED
                BY <1>1, <1>9, <2>1, <3>3, <4>1 DEF OnTheWay, Reaches, Passes, Kept
        <3>4. CASE /\ main.pc = "next" /\ main'.pc = "visit" /\ main'.node = next[main.node]
                   /\ main'.node # NULL
            <4>1. m # k /\ m + 1 \in 1 .. k /\ main'.node = Nodes[m + 1]
                <5>1. next[Nodes[m]] = IF m = k THEN NULL ELSE Nodes[m + 1]
                    BY <1>2 DEF Links
                <5>2. k \in Nat
                    BY <1>2
                <5>3. m # k => m + 1 \in 1 .. k
                    BY <5>2
                <5>4. QED
                    BY <3>1, <3>4, <5>1, <5>3
            <4>2. Contains(Nodes, main'.node)
                <5>1. Contains(Nodes, Nodes[m + 1])
                    BY <1>6, <4>1
                <5>2. QED
                    BY <4>1, <5>1
            <4>3. ASSUME NEW g \in o
                  PROVE  \E i, j \in DOMAIN Nodes :
                            i <= j /\ Nodes[i] = main'.node /\ Listed[j] = g
                <5>1. PICK i \in 1 .. k, j \in 1 .. k :
                          i < j /\ Nodes[i] = main.node /\ Listed[j] = g
                    BY <1>2, <2>1, <3>4 DEF Passes
                <5>2. i = m /\ m + 1 <= j
                    BY <3>2, <5>1
                <5>3. QED
                    BY <1>2, <4>1, <5>1, <5>2
            <4>4. QED
                BY <1>1, <1>9, <3>4, <4>2, <4>3 DEF OnTheWay, Reaches, Kept
        <3>5. QED
            BY <1>9, <3>3, <3>4
    <2>2. CASE /\ worker.pc \in {"relink", "free"} /\ main.node = worker.node
               /\ \A g \in owed : Reaches(worker.next, g)
        <3>1. \A g \in o : Reaches(worker.next, g)
            BY <2>2
        <3>2. CASE main'.node = main.node
            BY <1>1, <1>4, <1>9, <2>2, <3>1, <3>2 DEF OnTheWay, Reaches, Kept
        <3>3. CASE main'.pc = "visit" /\ main'.node = next[main.node] /\ main'.node # NULL
            <4>1. main'.node = worker.next /\ Contains(Nodes, worker.next)
                BY <1>3, <2>2, <3>3 DEF RemoverInv
            <4>2. QED
                BY <1>1, <1>9, <3>1, <3>3, <4>1 DEF OnTheWay, Reaches, Kept
        <3>4. QED
            BY <1>9, <3>2, <3>3
    <2>3. QED
        BY <1>5, <1>9, <2>1, <2>2 DEF OnTheWay
<1>10. CASE Visit \/ GetNext
    <2>1. main.pc \in {"visit", "next"}
        BY <1>10 DEF Visit, GetNext
    <2>2. CASE stranded
        BY <2>2 DEF OnTheWay
    <2>3. CASE main.node \notin live
        <3>1. main' = main /\ owed' = owed
            BY <1>10, <2>3 DEF Visit, GetNext, Dies
        <3>2. QED
            BY <1>1, <1>4, <1>5, <2>1, <3>1, WalkKept
    <2>4. CASE ~ stranded /\ main.node \in live
        <3>1. CASE Visit
            <4>1. /\ main.pc = "visit" /\ main'.pc = "next" /\ main'.node = main.node
                  /\ owed' = owed \ {data[main.node]}
                BY <2>4, <3>1 DEF Visit, TypeOK
            <4>2. owed' \in SUBSET owed /\ data[main.node] \notin owed'
                BY <4>1
            <4>3. QED
                BY <1>9, <2>4, <4>1, <4>2
        <3>2. CASE GetNext
            <4>1. /\ main.pc = "next" /\ main'.node = next[main.node] /\ owed' = owed
                  /\ main'.pc = IF next[main.node] = NULL THEN "scan" ELSE "visit"
                BY <2>4, <3>2 DEF GetNext
            <4>2. main'.pc = "visit" /\ main'.node # NULL
                BY <4>1
            <4>3. owed' \in SUBSET owed
                BY <4>1
            <4>4. QED
                BY <1>9, <2>4, <4>1, <4>2, <4>3
        <3>3. QED
            BY <1>10, <3>1, <3>2
    <2>5. QED
        BY <2>2, <2>3, <2>4
<1>11. QED
    BY <1>7, <1>8, <1>10 DEF MainLoop

\* What the two flags of the main loop say never becomes false again.
LEMMA StrandedStays ==
    Next => /\ stranded => stranded'
            /\ main'.node = NULL \/ main'.node \in live' \/ stranded'
<1> SUFFICES ASSUME Next
             PROVE  /\ stranded => stranded'
                    /\ main'.node = NULL \/ main'.node \in live' \/ stranded'
    OBVIOUS
<1>1. stranded' = (stranded \/ (main'.node # NULL /\ main'.node \notin live'))
    BY DEF Next, Witness
<1>2. QED
    BY <1>1, Zenon

\* Which steps are whose.
LEMMA OthersKeepWalk ==
    ASSUME Adding \/ Removing \/ \E g \in Gate : Accept(g) \/ Lose(g)
    PROVE  main' = main /\ (owed' = owed \/ (Unlink /\ owed' = owed \ {worker.gate}))
<1>1. CASE Adding
    BY <1>1 DEF Adding, Allocate, TestHead, LinkFirst, Link, LinkBack, SetLast, ReadToAdd,
                Increment, Dies
<1>2. CASE Removing
    BY <1>2 DEF Removing, Search, Unlink, Relink, FreeNode, ReadToRemove, Decrement, Dies
<1>3. CASE \E g \in Gate : Accept(g) \/ Lose(g)
    BY <1>3 DEF Accept, Lose
<1>4. QED
    BY <1>1, <1>2, <1>3

LEMMA WalkStep ==
    TypeOK /\ TypeOK' /\ ListInv /\ Next => WalkInv'
<1> SUFFICES ASSUME TypeOK, TypeOK', ListInv, Next PROVE WalkInv'
    OBVIOUS
<1>1. /\ stranded => stranded'
      /\ main'.node = NULL \/ main'.node \in live' \/ stranded'
    BY StrandedStays
<1>2. SUFFICES ASSUME main'.pc \in {"visit", "next"} PROVE main'.node # NULL /\ OnTheWay'
    BY <1>1 DEF WalkInv
<1>3. CASE MainLoop
    <2>1. OnTheWay'
        BY <1>1, <1>2, <1>3, WalkGoesOn
    <2>2. main'.node # NULL
        <3>1. main.pc \in {"visit", "next"} => main.node # NULL
            BY DEF ListInv, WalkInv
        <3>2. CASE Scan
            BY <1>2, <3>2 DEF Scan, TypeOK
        <3>3. CASE GetHead
            BY <1>2, <3>3 DEF GetHead
        <3>4. CASE Visit
            BY <3>1, <3>4 DEF Visit, Dies, TypeOK
        <3>5. CASE GetNext
            BY <1>2, <3>1, <3>5 DEF GetNext, Dies
        <3>6. QED
            BY <1>3, <3>2, <3>3, <3>4, <3>5 DEF MainLoop
    <2>3. QED
        BY <2>1, <2>2
<1>4. CASE ~ MainLoop
    <2>1. main' = main /\ (owed' = owed \/ (Unlink /\ owed' = owed \ {worker.gate}))
        BY <1>4, OthersKeepWalk DEF Next, Step
    <2>2. main.node # NULL /\ OnTheWay
        BY <1>2, <2>1 DEF ListInv, WalkInv
    <2> SUFFICES OnTheWay'
        BY <2>1, <2>2
    <2>3. CASE LinkFirst \/ Link
        BY <1>1, <2>2, <2>3, WalkGrown
    <2>4. CASE Unlink
        BY <1>1, <2>2, <2>4, WalkCut
    <2>5. CASE ~ (LinkFirst \/ Link \/ Unlink)
        <3>1. Kept /\ owed' = owed
            BY <2>1, <2>5, NodesStep
        <3>2. ASSUME worker.pc \in {"relink", "free"} =>
                        /\ worker'.pc \in {"relink", "free"}
                        /\ worker'.node = worker.node /\ worker'.next = worker.next
              PROVE  OnTheWay'
            BY <1>1, <2>1, <2>2, <3>1, <3>2, WalkKept
        <3>3. CASE \E g \in Gate : Accept(g)
            BY <3>2, <3>3 DEF Accept
        <3>4. CASE Adding
            <4>1. worker' = worker
                BY <3>4 DEF Adding, Allocate, TestHead, LinkFirst, Link, LinkBack, SetLast,
                            ReadToAdd, Increment, Dies
            <4>2. QED
                BY <3>2, <4>1
        <3>5. CASE \E g \in Gate : Lose(g)
            BY <3>2, <3>5 DEF Lose
        <3>6. CASE Search
            BY <3>2, <3>6 DEF Search
        <3>7. CASE Relink
            <4>1. /\ worker'.pc = "free" /\ worker'.node = worker.node
                  /\ worker'.next = worker.next
                BY <3>7 DEF Relink, TypeOK
            <4>2. QED
                BY <3>2, <4>1
        <3>8. CASE ReadToRemove \/ Decrement
            BY <3>2, <3>8 DEF ReadToRemove, Decrement
        <3>9. CASE FreeNode
            <4>1. live' = live \ {worker.node} /\ worker.pc = "free"
                BY <3>9 DEF FreeNode
            <4>2. CASE main.node = worker.node
                <5>1. stranded'
                    BY <1>1, <2>1, <2>2, <4>1, <4>2
                <5>2. QED
                    BY <5>1 DEF OnTheWay
            <4>3. CASE main.node # worker.node
                <5>1. CASE stranded
                    BY <1>1, <5>1 DEF OnTheWay
                <5>2. CASE ~ stranded
                    <6>1. /\ Contains(Nodes, main.node)
                          /\ \A g \in owed : /\ Reaches(main.node, g)
                                             /\ main.pc = "next" => Passes(main.node, g)
                        BY <2>2, <4>3, <5>2 DEF OnTheWay
                    <6>2. QED
                        BY <2>1, <3>1, <6>1 DEF OnTheWay, Reaches, Passes, Kept
                <5>3. QED
                    BY <5>1, <5>2
            <4>4. QED
                BY <4>2, <4>3
        <3>10. QED
            BY <1>4, <2>5, <3>3, <3>4, <3>5, <3>6, <3>7, <3>8, <3>9 DEF Next, Step, Removing
    <2>6. QED
        BY <2>3, <2>4, <2>5
<1>5. QED
    BY <1>3, <1>4

\* What is owed has been reached where the walk ends.
LEMMA WalkCompleteStep ==
    TypeOK /\ ListInv /\ WalkComplete /\ Next => WalkComplete'
<1> SUFFICES ASSUME TypeOK, ListInv, WalkComplete, Next, main'.pc = "scan"
             PROVE  owed' = {} \/ stranded'
    BY DEF WalkComplete
<1>1. stranded => stranded'
    BY StrandedStays
<1>2. CASE ~ MainLoop
    <2>1. main' = main /\ (owed' = owed \/ owed' = owed \ {worker.gate})
        BY <1>2, OthersKeepWalk DEF Next, Step
    <2>2. owed = {} \/ stranded
        BY <2>1 DEF WalkComplete
    <2>3. QED
        BY <1>1, <2>1, <2>2
<1>3. CASE Scan
    BY <1>3 DEF Scan, TypeOK
<1>4. CASE GetHead
    <2>1. head = NULL /\ owed' = { Listed[i] : i \in DOMAIN Listed }
        BY <1>4 DEF GetHead
    <2>2. Placed /\ Links(Nodes, Len(Nodes), head, next)
        BY LinkedPlaced DEF ListInv
    <2>3. Len(Nodes) = 0
        <3>1. head = IF Len(Nodes) = 0 THEN NULL ELSE Nodes[1]
            BY <2>2 DEF Links
        <3>2. Len(Nodes) # 0 => 1 \in 1 .. Len(Nodes)
            BY <2>2 DEF Placed
        <3>3. Len(Nodes) # 0 => Nodes[1] \in Node
            BY <2>2, <3>2 DEF Placed
        <3>4. QED
            BY <2>1, <3>1, <3>3 DEF Node, NULL
    <2>4. DOMAIN Listed = {}
        BY <2>2, <2>3 DEF Placed
    <2>5. QED
        BY <2>1, <2>4
<1>5. CASE Visit
    BY <1>5 DEF Visit, Dies, TypeOK
<1>6. CASE GetNext
    <2>1. main.pc = "next" /\ OnTheWay
        BY <1>6 DEF GetNext, ListInv, WalkInv
    <2>2. main.node \in live /\ next[main.node] = NULL /\ owed' = owed
        BY <1>6, <2>1 DEF GetNext, Dies
    <2>3. Placed /\ Links(Nodes, Len(Nodes), head, next)
        BY LinkedPlaced DEF ListInv
    <2>4. \A i \in DOMAIN Nodes : Nodes[i] # NULL
        BY <2>3 DEF Placed, Node, NULL
    <2>5. ASSUME NEW g \in owed, ~ stranded PROVE FALSE
        <3>1. CASE Passes(main.node, g)
            <4>1. PICK i \in 1 .. Len(Nodes), j \in 1 .. Len(Nodes) :
                      i < j /\ Nodes[i] = main.node
                BY <2>3, <3>1 DEF Passes, Placed
            <4>2. next[Nodes[i]] = IF i = Len(Nodes) THEN NULL ELSE Nodes[i + 1]
                BY <2>3 DEF Links
            <4>3. Len(Nodes) \in Nat
                BY <2>3 DEF Placed
            <4>4. i # Len(Nodes) /\ i + 1 \in 1 .. Len(Nodes)
                BY <4>1, <4>3
            <4>5. i + 1 \in DOMAIN Nodes
                BY <2>3, <4>4 DEF Placed
            <4>6. QED
                BY <2>2, <2>4, <4>1, <4>2, <4>4, <4>5
        <3>2. CASE /\ worker.pc \in {"relink", "free"} /\ main.node = worker.node
                   /\ Reaches(worker.next, g)
            <4>1. worker.next = NULL
                BY <2>2, <3>2 DEF ListInv, RemoverInv
            <4>2. QED
                BY <2>4, <3>2, <4>1 DEF Reaches
        <3>3. QED
            BY <2>1, <2>5, <3>1, <3>2 DEF OnTheWay
    <2>6. QED
        BY <1>1, <2>2, <2>5
<1>7. QED
    BY <1>2, <1>3, <1>4, <1>5, <1>6 DEF MainLoop

\* A thread touches only nodes that are allocated, the main loop but for the
\* one that was freed under it.
LEMMA DiesStep ==
    TypeOK /\ ListInv /\ Next => OnlyStrandedDies'
<1> SUFFICES ASSUME TypeOK, ListInv, Next PROVE up' \/ stranded'
    BY DEF OnlyStrandedDies
<1>1. stranded => stranded'
    BY StrandedStays
<1>2. up
    BY DEF Next
<1>3. CASE up' = up
    BY <1>2, <1>3
<1>4. CASE Link
    BY <1>3, <1>4, LinkAlive DEF Link
<1>5. CASE Search
    <2>1. worker.node = NULL \/ Contains(Nodes, worker.node)
        BY <1>5 DEF Search, ListInv, RemoverInv
    <2>2. Placed
        BY LinkedPlaced DEF ListInv
    <2>3. worker.node \in live \cup {NULL}
        BY <2>1, <2>2 DEF Placed
    <2>4. QED
        BY <1>3, <1>5, <2>3 DEF Search
<1>6. CASE Visit \/ GetNext
    <2>1. main.pc \in {"visit", "next"}
        BY <1>6 DEF Visit, GetNext
    <2>2. main.node \in live \/ stranded
        BY <2>1 DEF ListInv, WalkInv
    <2>3. main.node \in live => up' = up
        BY <1>6 DEF Visit, GetNext
    <2>4. QED
        BY <1>1, <1>3, <2>2, <2>3
<1>7. CASE ~ (Link \/ Search \/ Visit \/ GetNext)
    <2>1. up' = up
        BY <1>7 DEF Next, Step, Adding, Removing, MainLoop, Accept, Lose, Allocate, TestHead,
                    LinkFirst, LinkBack, SetLast, ReadToAdd, Increment, Unlink, Relink, FreeNode,
                    ReadToRemove, Decrement, Scan, GetHead
    <2>2. QED
        BY <1>3, <2>1
<1>8. QED
    BY <1>4, <1>5, <1>6, <1>7
-----------------------------------------------------------------------------
(* What the list is to the rest of the server.                             *)

\* How far the count is behind the links, and ahead of them.
Behind == IF acceptor.pc \in {"last", "back", "count", "inc"} THEN 1 ELSE 0
Ahead == IF worker.pc \in {"relink", "free", "count", "dec"} THEN 1 ELSE 0

LEMMA CountAgreesStep ==
    TypeOK /\ ListInv /\ CountInv /\ CountAgrees /\ Next => CountAgrees'
<1> SUFFICES ASSUME TypeOK, ListInv, CountInv, CountAgrees, Next, ~ bumped'
             PROVE  count' = Len(Listed') - Behind' + Ahead'
    BY DEF CountAgrees, Behind, Ahead
<1>1. bumped' = (bumped \/ (acceptor'.pc = "inc" /\ worker'.pc = "dec")) /\ ~ met
    BY DEF Next, Witness
<1>2. ~ bumped
    BY <1>1, Zenon
<1>3. count = Len(Listed) - Behind + Ahead
    BY <1>1, <1>2 DEF CountAgrees, Behind, Ahead
<1>4. Len(Listed) \in Int /\ count \in Int
    BY LinkedPlaced, GateListAssumption DEF ListInv, Placed, TypeOK
<1>5. /\ LinkFirst \/ Link => Grown
      /\ Unlink => \E i \in 1 .. Len(Nodes) : Cut(i)
      /\ ~ (LinkFirst \/ Link \/ Unlink) => Kept
    BY NodesStep
<1>6. Behind \in {0, 1} /\ Ahead \in {0, 1}
    BY DEF Behind, Ahead
<1>7. ASSUME Kept, count' = count, Behind' = Behind, Ahead' = Ahead
      PROVE  count' = Len(Listed') - Behind' + Ahead'
    BY <1>3, <1>7 DEF Kept
<1>8. acceptor' = acceptor => Behind' = Behind
    BY DEF Behind
<1>9. worker' = worker => Ahead' = Ahead
    BY DEF Ahead
<1>10. ASSUME NEW g \in Gate, Accept(g) PROVE count' = Len(Listed') - Behind' + Ahead'
    <2>1. Kept
        BY <1>10, KeptWhen DEF Accept
    <2>2. count' = count /\ worker' = worker
        BY <1>10 DEF Accept, listVars
    <2>3. Behind = 0 /\ Behind' = 0
        BY <1>10 DEF Accept, Waiting, Behind
    <2>4. QED
        BY <1>7, <1>9, <2>1, <2>2, <2>3
<1>11. CASE Allocate \/ TestHead
    <2>1. acceptor.pc \in {"alloc", "test"} /\ acceptor'.pc \in {"test", "first", "link"}
        <3>1. Allocate => acceptor.pc = "alloc" /\ acceptor'.pc = "test"
            BY DEF Allocate, TypeOK
        <3>2. TestHead => acceptor.pc = "test" /\ acceptor'.pc \in {"first", "link"}
            BY DEF TestHead, TypeOK
        <3>3. QED
            BY <1>11, <3>1, <3>2
    <2>2. count' = count /\ worker' = worker
        BY <1>11 DEF Allocate, TestHead, listVars
    <2>3. Kept
        BY <2>1, <2>2, KeptWhen
    <2>4. Behind = 0 /\ Behind' = 0
        BY <2>1 DEF Behind
    <2>5. QED
        BY <1>7, <1>9, <2>2, <2>3, <2>4
<1>12. CASE LinkFirst \/ Link
    <2>1. /\ acceptor.pc \in {"first", "link"} /\ acceptor'.pc \in {"back", "last"}
          /\ count' = count /\ worker' = worker
        BY <1>12, LinkAlive DEF LinkFirst, Link, TypeOK
    <2>2. Len(Listed') = Len(Listed) + 1
        BY <1>5, <1>12 DEF Grown, Longer
    <2>3. Behind = 0 /\ Behind' = 1
        BY <2>1 DEF Behind
    <2>4. QED
        BY <1>3, <1>4, <1>6, <1>9, <2>1, <2>2, <2>3
<1>13. CASE LinkBack \/ SetLast \/ ReadToAdd
    <2>1. acceptor.pc \in {"back", "last", "count"} /\ acceptor'.pc \in {"last", "count", "inc"}
        <3>1. LinkBack => acceptor.pc = "back" /\ acceptor'.pc = "last"
            BY DEF LinkBack, TypeOK
        <3>2. SetLast => acceptor.pc = "last" /\ acceptor'.pc = "count"
            BY DEF SetLast, TypeOK
        <3>3. ReadToAdd => acceptor.pc = "count" /\ acceptor'.pc = "inc"
            BY DEF ReadToAdd, TypeOK
        <3>4. QED
            BY <1>13, <3>1, <3>2, <3>3
    <2>2. count' = count /\ worker' = worker
        BY <1>13 DEF LinkBack, SetLast, ReadToAdd, listVars
    <2>3. Kept
        BY <2>1, <2>2, KeptWhen
    <2>4. Behind = 1 /\ Behind' = 1
        BY <2>1 DEF Behind
    <2>5. QED
        BY <1>7, <1>9, <2>2, <2>3, <2>4
<1>14. CASE Increment
    <2>1. /\ acceptor.pc = "inc" /\ acceptor'.pc = "wait" /\ worker' = worker
          /\ count' = acceptor.count + 1
        BY <1>14 DEF Increment, Waiting
    <2>2. acceptor.count = count
        BY <1>2, <2>1 DEF CountInv
    <2>3. Kept
        BY <2>1, KeptWhen
    <2>4. Behind = 1 /\ Behind' = 0
        BY <2>1 DEF Behind
    <2>5. QED
        BY <1>3, <1>4, <1>6, <1>9, <2>1, <2>2, <2>3, <2>4 DEF Kept
<1>15. ASSUME NEW g \in Gate, Lose(g) PROVE count' = Len(Listed') - Behind' + Ahead'
    <2>1. Kept
        BY <1>15, KeptWhen DEF Lose
    <2>2. count' = count /\ acceptor' = acceptor
        BY <1>15 DEF Lose, listVars
    <2>3. Ahead = 0 /\ Ahead' = 0
        BY <1>15 DEF Lose, Unoccupied, Ahead
    <2>4. QED
        BY <1>7, <1>8, <2>1, <2>2, <2>3
<1>16. CASE Search
    <2>1. Kept
        BY <1>16, KeptWhen DEF Search, Dies
    <2>2. count' = count /\ acceptor' = acceptor
        BY <1>16 DEF Search, Dies, listVars
    <2>3. Ahead = 0 /\ Ahead' = 0
        BY <1>16, SearchEnds DEF Unoccupied, Ahead
    <2>4. QED
        BY <1>7, <1>8, <2>1, <2>2, <2>3
<1>17. CASE Unlink
    <2>1. /\ worker.pc = "unlink" /\ worker'.pc = "relink" /\ count' = count
          /\ acceptor' = acceptor
        BY <1>17 DEF Unlink, TypeOK
    <2>2. Len(Listed') = Len(Listed) - 1
        BY <1>5, <1>17 DEF Cut, Shorter
    <2>3. Ahead = 0 /\ Ahead' = 1
        BY <2>1 DEF Ahead
    <2>4. QED
        BY <1>3, <1>4, <1>6, <1>8, <2>1, <2>2, <2>3
<1>18. CASE Relink \/ FreeNode \/ ReadToRemove
    <2>1. worker.pc \in {"relink", "free", "count"} /\ worker'.pc \in {"free", "count", "dec"}
        <3>1. Relink => worker.pc = "relink" /\ worker'.pc = "free"
            BY DEF Relink, TypeOK
        <3>2. FreeNode => worker.pc = "free" /\ worker'.pc = "count"
            BY DEF FreeNode, TypeOK
        <3>3. ReadToRemove => worker.pc = "count" /\ worker'.pc = "dec"
            BY DEF ReadToRemove, TypeOK
        <3>4. QED
            BY <1>18, <3>1, <3>2, <3>3
    <2>2. count' = count /\ acceptor' = acceptor
        BY <1>18 DEF Relink, FreeNode, ReadToRemove, listVars
    <2>3. Kept
        BY <2>1, <2>2, KeptWhen
    <2>4. Ahead = 1 /\ Ahead' = 1
        BY <2>1 DEF Ahead
    <2>5. QED
        BY <1>7, <1>8, <2>2, <2>3, <2>4
<1>19. CASE Decrement
    <2>1. /\ worker.pc = "dec" /\ worker'.pc = "wait" /\ acceptor' = acceptor
          /\ count' = worker.count - 1
        BY <1>19 DEF Decrement, Unoccupied
    <2>2. worker.count = count
        BY <1>2, <2>1 DEF CountInv
    <2>3. Kept
        BY <2>1, KeptWhen
    <2>4. Ahead = 1 /\ Ahead' = 0
        BY <2>1 DEF Ahead
    <2>5. QED
        BY <1>3, <1>4, <1>6, <1>8, <2>1, <2>2, <2>3, <2>4 DEF Kept
<1>20. CASE MainLoop
    <2>1. count' = count /\ acceptor' = acceptor /\ worker' = worker
        BY <1>20 DEF MainLoop, Scan, GetHead, Visit, GetNext, Dies, listVars
    <2>2. Kept
        BY <2>1, KeptWhen
    <2>3. QED
        BY <1>7, <1>8, <1>9, <2>1, <2>2
<1>21. QED
    BY <1>10, <1>11, <1>12, <1>13, <1>14, <1>15, <1>16, <1>17, <1>18, <1>19, <1>20
    DEF Next, Step, Adding, Removing

\* A gate that is lost and was listed in time is being taken out, or is out.
LEMMA LostStep ==
    TypeOK /\ ListInv /\ LostAreGone /\ Next => LostAreGone'
<1> SUFFICES ASSUME TypeOK, ListInv, LostAreGone, Next,
                    NEW g \in lost' \ early', Contains(Listed', g)
             PROVE  worker'.gate = g /\ worker'.pc \in {"search", "unlink"}
    BY DEF LostAreGone
<1>1. ~ met
    BY DEF Next
<1>2. g \in lost \ early /\ Contains(Listed, g) =>
          worker.gate = g /\ worker.pc \in {"search", "unlink"}
    BY <1>1 DEF LostAreGone
<1>3. /\ LinkFirst \/ Link => Grown
      /\ Unlink => \E i \in 1 .. Len(Nodes) : Cut(i)
      /\ ~ (LinkFirst \/ Link \/ Unlink) => Kept
      /\ Linked'
    BY NodesStep
<1>4. Placed /\ Len(Nodes) \in Nat
    BY LinkedPlaced DEF ListInv, Placed
<1>5. \A x : Contains(Listed', x) <=> \E i \in 1 .. Len(Listed') : Listed'[i] = x
    BY DEF Contains
<1>6. PICK j \in 1 .. Len(Listed') : Listed'[j] = g
    BY <1>5
<1>7. Kept => Contains(Listed, g)
    BY DEF Kept
<1>8. ASSUME NEW x \in Gate, Lose(x)
      PROVE  worker'.gate = g /\ worker'.pc \in {"search", "unlink"}
    <2>1. Kept
        BY <1>8, KeptWhen DEF Lose
    <2>2. /\ lost' = lost \cup {x} /\ worker.pc = "wait"
          /\ worker'.pc = "search" /\ worker'.gate = x
          /\ early \subseteq early'
        BY <1>8 DEF Lose, Unoccupied
    <2>3. g = x
        BY <1>2, <1>7, <2>1, <2>2
    <2>4. QED
        BY <2>2, <2>3
<1>9. CASE ~ \E x \in Gate : Lose(x)
    <2>1. lost' = lost /\ early' = early
        BY <1>9 DEF Next, Step, Adding, Removing, MainLoop, Accept, Allocate, TestHead,
                    LinkFirst, Link, LinkBack, SetLast, ReadToAdd, Increment, Search, Unlink,
                    Relink, FreeNode, ReadToRemove, Decrement, Scan, GetHead, Visit, GetNext, Dies
    <2>2. Contains(Listed, g) => worker.gate = g /\ worker.pc \in {"search", "unlink"}
        BY <1>2, <2>1
    <2>3. CASE LinkFirst \/ Link
        <3>1. g # acceptor.gate
            BY <2>1, <2>3 DEF ListInv, AdderInv, LinkFirst, Link
        <3>2. /\ Len(Listed') = Len(Nodes) + 1 /\ Listed'[Len(Nodes) + 1] = acceptor.gate
              /\ \A i \in 1 .. Len(Nodes) : Listed'[i] = Listed[i]
            BY <1>3, <1>4, <2>3 DEF Grown, Longer, Placed
        <3>3. j \in 1 .. Len(Nodes) /\ Listed[j] = g
            BY <1>4, <1>6, <3>1, <3>2
        <3>4. Contains(Listed, g)
            BY <1>4, <3>3 DEF Placed
        <3>5. worker' = worker
            BY <2>3 DEF LinkFirst, Link, Dies
        <3>6. QED
            BY <2>2, <3>4, <3>5
    <2>4. CASE Unlink
        <3>1. PICK i \in 1 .. Len(Nodes) : Cut(i)
            BY <1>3, <2>4
        <3>2. /\ Len(Listed') = Len(Nodes) - 1 /\ Listed[i] = worker.gate
              /\ \A m \in 1 .. Len(Nodes) - 1 :
                     Listed'[m] = IF m < i THEN Listed[m] ELSE Listed[m + 1]
            BY <1>4, <3>1 DEF Cut, Shorter, Placed
        <3>3. \E m \in 1 .. Len(Nodes) : m # i /\ Listed[m] = g
            <4>1. /\ j < i => j \in 1 .. Len(Nodes) /\ j # i /\ Listed[j] = g
                  /\ ~ (j < i) => j + 1 \in 1 .. Len(Nodes) /\ j + 1 # i /\ Listed[j + 1] = g
                BY <1>4, <1>6, <3>2
            <4>2. QED
                BY <4>1
        <3>4. Contains(Listed, g) /\ g # worker.gate
            BY <1>4, <3>2, <3>3 DEF Placed
        <3>5. QED
            BY <2>2, <3>4
    <2>5. CASE ~ (LinkFirst \/ Link \/ Unlink)
        <3>1. worker.gate = g /\ worker.pc \in {"search", "unlink"}
            BY <1>3, <1>7, <2>2, <2>5
        <3>2. CASE Search
            <4>1. g \notin early
                BY <2>1
            <4>2. Reaches(worker.node, g)
                BY <3>1, <3>2, <4>1 DEF Search, ListInv, RemoverInv
            <4>3. worker.node # NULL
                <5>1. \A i \in DOMAIN Nodes : Nodes[i] # NULL
                    BY <1>4 DEF Placed, Node, NULL
                <5>2. QED
                    BY <4>2, <5>1 DEF Reaches
            <4>4. worker'.gate = worker.gate /\ worker'.pc \in {"search", "unlink"}
                BY <3>1, <3>2, <4>3, SearchEnds DEF TypeOK
            <4>5. QED
                BY <3>1, <4>4
        <3>3. CASE Relink \/ FreeNode \/ ReadToRemove \/ Decrement
            BY <3>1, <3>3 DEF Relink, FreeNode, ReadToRemove, Decrement
        <3>4. CASE Adding \/ MainLoop \/ \E x \in Gate : Accept(x)
            BY <3>1, <3>4, AdderKeeps
        <3>5. QED
            BY <1>9, <2>5, <3>2, <3>3, <3>4 DEF Next, Step, Removing
    <2>6. QED
        BY <2>3, <2>4, <2>5
<1>10. QED
    BY <1>8, <1>9
-----------------------------------------------------------------------------
(* The theorems.                                                           *)

\* The two writers are apart in every step but the one that brings them together.
LEMMA ListStep ==
    TypeOK /\ TypeOK' /\ ListInv /\ Next => met' \/ ListInv'
<1> SUFFICES ASSUME TypeOK, TypeOK', ListInv, Next PROVE met' \/ ListInv'
    OBVIOUS
<1>1. met' = (met \/ Meeting')
    BY DEF Next, Witness
<1>2. Meeting' => met'
    BY <1>1, Zenon
<1>3. ASSUME ~ Meeting' PROVE ListInv'
    BY <1>3, NodesStep, BackwardStep, AdderStep, RemoverStep, WalkStep DEF ListInv
<1>4. QED
    BY <1>2, <1>3

LEMMA ListStutter ==
    TypeOK /\ ListInv /\ UNCHANGED vars => Kept /\ ListInv'
<1> SUFFICES ASSUME TypeOK, ListInv, UNCHANGED vars PROVE Kept /\ ListInv'
    OBVIOUS
<1>1. /\ head' = head /\ tail' = tail /\ next' = next /\ prev' = prev /\ data' = data
      /\ live' = live /\ armed' = armed /\ lost' = lost /\ acceptor' = acceptor
      /\ worker' = worker /\ main' = main /\ stranded' = stranded /\ early' = early
      /\ owed' = owed
    BY DEF vars, listVars, history
<1>2. Placed
    BY LinkedPlaced DEF ListInv
<1>3. Kept /\ Linked'
    <2>1. \A i \in 1 .. Len(Nodes) : Nodes[i] \in live'
        BY <1>1, <1>2 DEF Placed
    <2>2. QED
        BY <1>1, <2>1, KeptLinked DEF ListInv
<1>4. Nodes' = Nodes /\ Listed' = Listed
    BY <1>3 DEF Kept
<1>5. ~ Meeting' /\ Backward' /\ AdderInv'
    BY <1>1, <1>4 DEF ListInv, Meeting, Backward, AdderInv
<1>6. RemoverInv'
    <2>1. early \subseteq early'
        BY <1>1
    <2>2. QED
        BY <1>1, <1>3, <2>1, RemoverKept DEF ListInv, RemoverInv
<1>7. WalkInv'
    <2>1. OnTheWay => OnTheWay'
        BY <1>1, <1>3, WalkKept
    <2>2. QED
        BY <1>1, <2>1 DEF ListInv, WalkInv
<1>8. QED
    BY <1>3, <1>5, <1>6, <1>7 DEF ListInv

LEMMA EmptyAtFirst == Init => TypeOK /\ Linked /\ Placed /\ Len(Nodes) = 0
<1> SUFFICES ASSUME Init PROVE TypeOK /\ Linked /\ Placed /\ Len(Nodes) = 0
    OBVIOUS
<1>1. TypeOK
    <2>1. /\ NULL \in Place /\ NoGate \in Gate \cup {NoGate}
          /\ 0 \in -MaxGates .. MaxGates
        BY GateListAssumption DEF Place
    <2>2. /\ acceptor \in [pc : {"wait", "alloc", "test", "first", "link", "back", "last",
                                 "count", "inc"},
                           gate : Gate \cup {NoGate}, node : Place, count : -MaxGates .. MaxGates]
          /\ worker \in [pc : {"wait", "search", "unlink", "relink", "free", "count", "dec"},
                         gate : Gate \cup {NoGate}, node : Place, next : Place, prev : Place,
                         count : -MaxGates .. MaxGates]
        BY <2>1 DEF Init, Waiting, Unoccupied
    <2>3. QED
        BY <2>1, <2>2 DEF Init, TypeOK
<1>2. Chain(<<>>, head, next)
    <2>1. <<>> \in Seq(Node) /\ DOMAIN <<>> = {}
        OBVIOUS
    <2>2. IsInjective(<<>>)
        BY <2>1 DEF IsInjective
    <2>3. head = At(<<>>, 1)
        BY <2>1 DEF Init, At
    <2>4. QED
        BY <2>1, <2>2, <2>3 DEF Chain
<1>3. Nodes = <<>>
    BY <1>2, NodesAre
<1>4. DOMAIN Nodes = {} /\ DOMAIN Listed = {}
    BY <1>3 DEF Listed
<1>5. Linked
    BY <1>2, <1>3, <1>4 DEF Linked, IsInjective
<1>6. QED
    BY <1>1, <1>3, <1>5, LinkedPlaced DEF Placed

LEMMA InitIInv == Init => IInv
<1> SUFFICES ASSUME Init PROVE IInv
    OBVIOUS
<1>1. TypeOK /\ Linked /\ Placed /\ Len(Nodes) = 0
    BY EmptyAtFirst
<1>2. acceptor.pc = "wait" /\ worker.pc = "wait" /\ main.pc = "scan" /\ main.node = NULL
    BY DEF Init, Waiting, Unoccupied
<1>3. DOMAIN Nodes = {} /\ Len(Listed) = 0
    BY <1>1 DEF Placed
<1>4. CountInv
    <2>1. Cardinality(armed) = 0 /\ Cardinality(lost) = 0
        BY FS_EmptySet DEF Init
    <2>2. Additions = 0 /\ Removals = 0
        BY <1>2, <2>1 DEF Additions, Removals
    <2>3. InBounds(count)
        BY <2>2 DEF InBounds, Init
    <2>4. QED
        BY <1>2, <2>3 DEF CountInv
<1>5. Backward
    <2>1. tail = At(Nodes, Len(Nodes))
        BY <1>1, <1>3 DEF Init, At
    <2>2. QED
        BY <1>2, <1>3, <2>1 DEF Backward
<1>6. ~ Meeting /\ AdderInv /\ RemoverInv /\ WalkInv
    BY <1>2 DEF Meeting, AdderInv, RemoverInv, WalkInv
<1>7. OnlyStrandedDies /\ WalkComplete /\ LostAreGone
    BY DEF Init, OnlyStrandedDies, WalkComplete, LostAreGone
<1>8. CountAgrees
    BY <1>2, <1>3 DEF Init, CountAgrees
<1>9. QED
    BY <1>1, <1>4, <1>5, <1>6, <1>7, <1>8 DEF IInv, ListInv

LEMMA IInvStep == IInv /\ [Next]_vars => IInv'
<1> SUFFICES ASSUME IInv, [Next]_vars PROVE IInv'
    OBVIOUS
<1>1. CASE Next
    <2>1. ListInv
        BY <1>1 DEF IInv, Next
    <2>2. TypeOK'
        BY <1>1, <2>1, TypeStep DEF IInv, ListInv
    <2>3. QED
        BY <1>1, <2>1, <2>2, CountStep, DiesStep, WalkCompleteStep, CountAgreesStep, LostStep,
           ListStep DEF IInv
<1>2. CASE UNCHANGED vars
    <2>1. TypeOK' /\ CountInv' /\ OnlyStrandedDies' /\ WalkComplete'
        BY <1>2 DEF IInv, vars, listVars, history, TypeOK, CountInv, InBounds, Additions,
                    Removals, OnlyStrandedDies, WalkComplete
    <2>2. met' = met /\ bumped' = bumped
        BY <1>2 DEF vars, history
    <2>3. CASE met
        <3>1. met'
            BY <2>2, <2>3, Zenon
        <3>2. QED
            BY <2>1, <3>1 DEF IInv, CountAgrees, LostAreGone
    <2>4. CASE ~ met
        <3>1. Kept /\ ListInv'
            BY <1>2, <2>4, ListStutter DEF IInv
        <3>2. /\ count' = count /\ acceptor' = acceptor /\ worker' = worker
              /\ lost' = lost /\ early' = early /\ Listed' = Listed
            BY <1>2, <3>1 DEF vars, listVars, history, Kept
        <3>3. bumped => bumped'
            BY <2>2, Zenon
        <3>4. CountAgrees'
            BY <2>4, <3>2, <3>3 DEF IInv, CountAgrees
        <3>5. LostAreGone'
            BY <2>4, <3>2 DEF IInv, LostAreGone
        <3>6. QED
            BY <2>1, <3>1, <3>4, <3>5 DEF IInv
    <2>5. QED
        BY <2>3, <2>4
<1>3. QED
    BY <1>1, <1>2

\* The inductive invariant: as long as the adder and the remover have not met,
\* the nodes are a chain, linked back but for the step under way, each writer
\* knows where it is in it, and the main loop has what it owes ahead.
THEOREM ListInvariance == Spec => []IInv
<1>1. QED
    BY InitIInv, IInvStep, PTL DEF Spec

\* Every variable of the list, its threads and its histories keeps to its type.
THEOREM ListTypes == Spec => []TypeOK
<1>1. IInv => TypeOK
    BY DEF IInv
<1>2. QED
    BY <1>1, ListInvariance, PTL

\* As long as the writers have not met, no thread touches freed memory or a null
\* m_lpTail, but for the main loop at a node that was freed under it.
THEOREM OnlyStrandedDiesHolds == Spec => []OnlyStrandedDies
<1>1. IInv => OnlyStrandedDies
    BY DEF IInv
<1>2. QED
    BY <1>1, ListInvariance, PTL

\* A walk of the main loop comes by every gate that stays on the list, whatever
\* is added and removed meanwhile.
THEOREM WalkCompleteHolds == Spec => []WalkComplete
<1>1. IInv => WalkComplete
    BY DEF IInv
<1>2. QED
    BY <1>1, ListInvariance, PTL

\* m_nCount, though neither ++ nor -- is interlocked, is the number of gates
\* linked but for the step under way, unless the two have overlapped.
THEOREM CountAgreesHolds == Spec => []CountAgrees
<1>1. IInv => CountAgrees
    BY DEF IInv
<1>2. QED
    BY <1>1, ListInvariance, PTL

\* A gate whose loss was seen after it was listed is off the list for good once
\* RemoveNodeByData is through.
THEOREM LostAreGoneHolds == Spec => []LostAreGone
<1>1. IInv => LostAreGone
    BY DEF IInv
<1>2. QED
    BY <1>1, ListInvariance, PTL

\* A step puts a gate behind the list, takes one out, is not seen, or is the
\* last one.
LEMMA RegistryStep ==
    IInv /\ [Next]_vars =>
        [Registry!Next]_<<IF met THEN <<>> ELSE Listed, met>>
<1> SUFFICES ASSUME IInv, [Next]_vars
             PROVE  \/ Registry!Next
                    \/ UNCHANGED <<IF met THEN <<>> ELSE Listed, met>>
    OBVIOUS
<1>1. IInv' /\ met \in BOOLEAN /\ met' \in BOOLEAN
    <2>1. IInv'
        BY IInvStep
    <2>2. TypeOK /\ TypeOK'
        BY <2>1 DEF IInv
    <2>3. QED
        BY <2>1, <2>2 DEF TypeOK
<1>2. CASE met'
    <2>1. met' = TRUE
        BY <1>1, <1>2
    <2>2. QED
        BY <2>1 DEF Registry!Next, Registry!Damage
<1>3. CASE Next /\ ~ met'
    <2>1. ~ met
        BY <1>3 DEF Next
    <2>2. met = FALSE /\ met' = FALSE
        BY <1>1, <1>3, <2>1
    <2> DEFINE l == IF met THEN <<>> ELSE Listed
               l1 == IF met' THEN <<>> ELSE Listed'
    <2>3. l = Listed /\ l1 = Listed'
        BY <1>3, <2>1
    <2>4. ListInv /\ TypeOK
        BY <2>1 DEF IInv
    <2>5. ListInv' /\ TypeOK'
        BY <1>1, <1>3 DEF IInv
    <2>6. Listed \in Seq(Gate) /\ Placed /\ Len(Nodes) \in Nat
        BY <2>4, LinkedPlaced DEF ListInv, Placed
    <2>7. Listed' \in Seq(Gate)
        BY <2>5, LinkedPlacedNext DEF ListInv
    <2>8. /\ LinkFirst \/ Link => Grown
          /\ Unlink => \E i \in 1 .. Len(Nodes) : Cut(i)
          /\ ~ (LinkFirst \/ Link \/ Unlink) => Kept
        BY <1>3, <2>4, NodesStep
    <2>9. CASE LinkFirst \/ Link
        <3>1. /\ ~ Contains(Listed, acceptor.gate) /\ acceptor.gate \in Gate
            BY <2>4, <2>9 DEF ListInv, AdderInv, LinkFirst, Link, TypeOK
        <3>2. Longer(Listed, Listed', acceptor.gate)
            BY <2>8, <2>9 DEF Grown
        <3> DEFINE t == Append(Listed, acceptor.gate)
        <3>3. t \in Seq(Gate) /\ Longer(Listed, t, acceptor.gate)
            BY <2>6, <3>1, AppendIsLonger
        <3> HIDE DEF t
        <3>4. Listed' = t
            <4>1. /\ Len(Listed') = Len(t)
                  /\ \A j \in 1 .. Len(Listed') : Listed'[j] = t[j]
                <5>1. Len(Listed) = Len(Nodes)
                    BY <2>6 DEF Placed
                <5>2. QED
                    BY <2>6, <3>2, <3>3, <5>1 DEF Longer
            <4>2. QED
                BY <2>7, <3>3, <4>1, SeqEqual
        <3>5. l1 = Append(l, acceptor.gate) /\ ~ Contains(l, acceptor.gate)
            BY <2>3, <3>1, <3>4 DEF t
        <3>6. Registry!Enlist(acceptor.gate)
            BY <2>2, <3>5 DEF Registry!Enlist, Registry!Contains, Contains
        <3>7. QED
            BY <2>1, <3>1, <3>6 DEF Registry!Next
    <2>10. CASE Unlink
        <3>1. PICK i \in 1 .. Len(Nodes) : Cut(i)
            BY <2>8, <2>10
        <3>2. /\ Listed[i] = worker.gate /\ Shorter(Listed, Listed', i)
              /\ i \in 1 .. Len(Listed) /\ i \in DOMAIN Listed
            BY <2>6, <3>1 DEF Cut, Placed
        <3>3. worker.gate \in Gate
            <4>1. Listed[i] \in armed
                BY <2>6, <3>1 DEF Placed
            <4>2. QED
                BY <2>4, <3>2, <4>1 DEF TypeOK
        <3> DEFINE t == RemoveAt(Listed, i)
        <3>4. t \in Seq(Gate) /\ Shorter(Listed, t, i)
            BY <2>6, <3>2, RemoveAtIsShorter
        <3> HIDE DEF t
        <3>5. Listed' = t
            <4>1. /\ Len(Listed') = Len(t)
                  /\ \A j \in 1 .. Len(Listed') : Listed'[j] = t[j]
                BY <3>2, <3>4 DEF Shorter
            <4>2. QED
                BY <2>7, <3>4, <4>1, SeqEqual
        <3>6. \E j \in DOMAIN l : l[j] = worker.gate /\ l1 = RemoveAt(l, j)
            BY <2>3, <3>2, <3>5 DEF t
        <3>7. Registry!Delist(worker.gate)
            BY <2>2, <3>6 DEF Registry!Delist, Registry!RemoveAt, RemoveAt
        <3>8. QED
            BY <2>1, <3>3, <3>7 DEF Registry!Next
    <2>11. CASE ~ (LinkFirst \/ Link \/ Unlink)
        <3>1. l1 = l
            BY <2>3, <2>8, <2>11 DEF Kept
        <3>2. QED
            BY <2>2, <3>1
    <2>12. QED
        BY <2>9, <2>10, <2>11
<1>4. CASE UNCHANGED vars /\ ~ met'
    <2>1. met' = met
        BY <1>4 DEF vars, history
    <2>2. ~ met
        BY <1>4, <2>1, Zenon
    <2>3. Listed' = Listed
        BY <1>4, <2>2, ListStutter DEF IInv, Kept
    <2>4. QED
        BY <1>4, <2>1, <2>2, <2>3
<1>5. QED
    BY <1>2, <1>3, <1>4

\* To whoever reads it, the list with its three threads and one lock is a
\* sequence to which gates are added at the end and from which single gates are
\* taken, until the writers meet at its end.
THEOREM ListRefines == Spec => RegistrySpec
<1>1. Init => Registry!Init
    <2>1. SUFFICES ASSUME Init PROVE Registry!Init
        OBVIOUS
    <2>2. TypeOK /\ Linked /\ Len(Nodes) = 0 /\ Placed
        BY <2>1, EmptyAtFirst
    <2>3. Listed \in Seq(Gate) /\ Len(Listed) = 0
        BY <2>2, LinkedPlaced DEF Placed
    <2>4. Listed = <<>>
        BY <2>3, EmptySeq
    <2>5. QED
        BY <2>1, <2>4 DEF Init, Registry!Init
<1>2. QED
    BY <1>1, RegistryStep, ListInvariance, PTL DEF Spec, RegistrySpec, Registry!Spec
=============================================================================
