------------------------------ MODULE GateList ------------------------------
(***************************************************************************)
(* The game server's list of gates, g_xGateList, node by node.  Three      *)
(* threads work on it: AcceptThread adds a gate and takes no lock, the     *)
(* IOCP worker removes a lost gate under the list's lock, which nobody     *)
(* else takes, and the main loop walks the list without it.                *)
(*                                                                         *)
(* A thread is cut where it reads or writes what another one writes.  The  *)
(* increment and the decrement of m_nCount are a read and a write each:    *)
(* they are not interlocked.  Where a thread touches memory that is not    *)
(* its own (a freed node, a null m_lpTail) anything may follow, and the    *)
(* model ends with up = FALSE.  It also ends, with met = TRUE, where the   *)
(* adder and the remover are both at the end of the list: gates fall off   *)
(* the list there.                                                         *)
(***************************************************************************)
EXTENDS Integers, Sequences, SequencesExt

CONSTANTS MaxGates,  \* bound: connections of gates
          MaxNodes   \* the nodes GlobalAlloc can give out

ASSUME GateListAssumption ==
    /\ MaxGates \in Nat /\ MaxNodes \in Nat
    /\ MaxNodes >= MaxGates  \* memory for all gates

Gate == 1 .. MaxGates  \* the CGateInfo objects, in the order they are accepted
NoGate == 0
Node == 1 .. MaxNodes
NULL == 0

VARIABLES
    head, tail, count,  \* m_lpHead, m_lpTail, m_nCount
    next, prev, data,   \* the members of each node; data is lpData
    live,               \* the nodes allocated and not freed
    armed,              \* the gates whose receive was armed: they may be lost
    lost,               \* the gates whose loss the worker has seen
    acceptor,           \* AcceptThread: where it is, pGateInfo, lpCD, the count read
    worker,             \* ServerWorkerThread: the same, lpNode, its next and prev
    main,               \* the main loop and its pListNode
    up,                 \* FALSE once a thread has touched memory it does not own
    met,                \* history: adder and remover met at the end of the list
    bumped,             \* history: an increment and a decrement overlapped
    stranded,           \* history: the node the main loop stands at was freed
    early,              \* history: the gates lost before they were listed
    owed                \* history: the gates this walk has yet to reach

listVars == <<head, tail, count, next, prev, data, live>>
history == <<met, bumped, stranded, early, owed>>
vars == <<listVars, armed, lost, acceptor, worker, main, up, history>>

Place == Node \cup {NULL}

Waiting == [pc |-> "wait", gate |-> NoGate, node |-> NULL, count |-> 0]
Unoccupied == [pc |-> "wait", gate |-> NoGate, node |-> NULL, next |-> NULL, prev |-> NULL,
               count |-> 0]

TypeOK ==
    /\ head \in Place /\ tail \in Place
    /\ count \in -MaxGates .. MaxGates
    /\ next \in [Node -> Place] /\ prev \in [Node -> Place]
    /\ data \in [Node -> Gate \cup {NoGate}]
    /\ live \in SUBSET Node
    /\ armed \in SUBSET Gate /\ lost \in SUBSET armed
    /\ acceptor \in [pc : {"wait", "alloc", "test", "first", "link", "back", "last", "count", "inc"},
                     gate : Gate \cup {NoGate}, node : Place, count : -MaxGates .. MaxGates]
    /\ worker \in [pc : {"wait", "search", "unlink", "relink", "free", "count", "dec"},
                   gate : Gate \cup {NoGate}, node : Place, next : Place, prev : Place,
                   count : -MaxGates .. MaxGates]
    /\ main \in [pc : {"scan", "head", "visit", "next"}, node : Place]
    /\ <<up, met, bumped, stranded>> \in BOOLEAN \X BOOLEAN \X BOOLEAN \X BOOLEAN
    /\ early \in SUBSET Gate /\ owed \in SUBSET Gate

(* The global g_xGateList is built before main().                          *)
Init ==
    /\ head = NULL /\ tail = NULL /\ count = 0
    /\ next = [n \in Node |-> NULL] /\ prev = [n \in Node |-> NULL]
    /\ data = [n \in Node |-> NoGate]
    /\ live = {} /\ armed = {} /\ lost = {}
    /\ acceptor = Waiting /\ worker = Unoccupied
    /\ main = [pc |-> "scan", node |-> NULL]
    /\ up = TRUE /\ met = FALSE /\ bumped = FALSE /\ stranded = FALSE
    /\ early = {} /\ owed = {}

NextOf(n) == IF n = NULL THEN NULL ELSE next[n]

\* The nodes a walk from m_lpHead comes by, and their gates.
Walk[i \in 1 .. MaxNodes] == IF i = 1 THEN head ELSE NextOf(Walk[i - 1])
Nodes == [i \in { j \in 1 .. MaxNodes : Walk[j] # NULL } |-> Walk[i]]
Listed == LET nodes == Nodes IN [i \in DOMAIN nodes |-> data[nodes[i]]]

Dies == up' = FALSE /\ UNCHANGED <<listVars, armed, lost, acceptor, worker, main, early, owed>>

\* The remover is at the last node, or at the one being added, while the adder
\* is in AddNewNode.
Meeting ==
    /\ acceptor.pc \notin {"wait", "alloc", "count", "inc"}
    /\ worker.pc \in {"unlink", "relink", "free"}
    /\ worker.node \in {tail, acceptor.node}

Witness ==
    /\ met' = (met \/ Meeting')
    /\ bumped' = (bumped \/ (acceptor'.pc = "inc" /\ worker'.pc = "dec"))
    /\ stranded' = (stranded \/ (main'.node # NULL /\ main'.node \notin live'))

-----------------------------------------------------------------------------
(* AcceptThread: a new CGateInfo, its receive armed before it is listed.   *)
Accept(g) ==
    /\ acceptor.pc = "wait" /\ armed = 1 .. g - 1
    /\ armed' = armed \cup {g}
    /\ acceptor' = [Waiting EXCEPT !.pc = "alloc", !.gate = g]
    /\ UNCHANGED <<listVars, lost, worker, main, up, early, owed>>

(* CWHList::AddNewNode: GlobalAlloc(GPTR) gives out a node that was freed  *)
(* or the next that never was in use, and clears it.                       *)
Allocate ==
    /\ acceptor.pc = "alloc"
    /\ \E n \in Node \ live :
        /\ \A m \in 1 .. n - 1 : data[m] # NoGate
        /\ live' = live \cup {n}
        /\ next' = [next EXCEPT ![n] = NULL]
        /\ prev' = [prev EXCEPT ![n] = NULL]
        /\ data' = [data EXCEPT ![n] = acceptor.gate]
        /\ acceptor' = [acceptor EXCEPT !.pc = "test", !.node = n]
    /\ UNCHANGED <<head, tail, count, armed, lost, worker, main, up, early, owed>>

TestHead ==
    /\ acceptor.pc = "test"
    /\ acceptor' = [acceptor EXCEPT !.pc = IF head = NULL THEN "first" ELSE "link"]
    /\ UNCHANGED <<listVars, armed, lost, worker, main, up, early, owed>>

LinkFirstCounting ==  \* mutant: counts here and again at the end
    /\ acceptor.pc = "first"
    /\ head' = acceptor.node
    /\ prev' = [prev EXCEPT ![acceptor.node] = NULL]
    /\ count' = count + 1
    /\ acceptor' = [acceptor EXCEPT !.pc = "last"]
    /\ UNCHANGED <<tail, next, data, live, armed, lost, worker, main, up, early, owed>>

LinkFirst ==
    /\ acceptor.pc = "first"
    /\ head' = acceptor.node
    /\ prev' = [prev EXCEPT ![acceptor.node] = NULL]
    /\ acceptor' = [acceptor EXCEPT !.pc = "last"]
    /\ UNCHANGED <<tail, count, next, data, live, armed, lost, worker, main, up, early, owed>>

(* m_lpTail->next = lpCD                                                   *)
Link ==
    /\ acceptor.pc = "link"
    /\ IF tail \in live
       THEN /\ next' = [next EXCEPT ![tail] = acceptor.node]
            /\ acceptor' = [acceptor EXCEPT !.pc = "back"]
            /\ UNCHANGED <<head, tail, count, prev, data, live, armed, lost, worker, main, up, early, owed>>
       ELSE Dies

(* lpCD->prev = m_lpTail, read again                                       *)
LinkBack ==
    /\ acceptor.pc = "back"
    /\ prev' = [prev EXCEPT ![acceptor.node] = tail]
    /\ acceptor' = [acceptor EXCEPT !.pc = "last"]
    /\ UNCHANGED <<head, tail, count, next, data, live, armed, lost, worker, main, up, early, owed>>

SetLast ==
    /\ acceptor.pc = "last"
    /\ next' = [next EXCEPT ![acceptor.node] = NULL]
    /\ tail' = acceptor.node
    /\ acceptor' = [acceptor EXCEPT !.pc = "count"]
    /\ UNCHANGED <<head, count, prev, data, live, armed, lost, worker, main, up, early, owed>>

(* m_nCount++                                                              *)
ReadToAdd ==
    /\ acceptor.pc = "count"
    /\ acceptor' = [acceptor EXCEPT !.pc = "inc", !.count = count]
    /\ UNCHANGED <<listVars, armed, lost, worker, main, up, early, owed>>

Increment ==
    /\ acceptor.pc = "inc"
    /\ count' = acceptor.count + 1
    /\ acceptor' = Waiting
    /\ UNCHANGED <<head, tail, next, prev, data, live, armed, lost, worker, main, up, early, owed>>

Adding ==
    \/ Allocate \/ TestHead \/ LinkFirst \/ Link \/ LinkBack \/ SetLast
    \/ ReadToAdd \/ Increment

-----------------------------------------------------------------------------
(* ServerWorkerThread: the receive of a gate ends with 0 bytes.  (What it  *)
(* does to the gate's users is in RoomServer.)  RemoveNodeByData begins at *)
(* the head.                                                               *)
Lose(g) ==
    /\ worker.pc = "wait" /\ g \in armed \ lost
    /\ lost' = lost \cup {g}
    /\ worker' = [Unoccupied EXCEPT !.pc = "search", !.gate = g, !.node = head]
    /\ early' = IF Contains(Listed, g) THEN early ELSE early \cup {g}
    /\ UNCHANGED <<listVars, armed, acceptor, main, up, owed>>

SearchButLast ==  \* mutant: while (lpNode->next)
    /\ worker.pc = "search"
    /\ worker' =
          IF NextOf(worker.node) = NULL THEN Unoccupied
          ELSE IF data[worker.node] = worker.gate
          THEN [worker EXCEPT !.pc = "unlink", !.next = next[worker.node],
                              !.prev = prev[worker.node]]
          ELSE [worker EXCEPT !.node = next[worker.node]]
    /\ UNCHANGED <<listVars, armed, lost, acceptor, main, up, early, owed>>

SearchCounting ==  \* mutant: m_nCount-- also when the gate is not found
    /\ worker.pc = "search"
    /\ worker' =
          IF worker.node = NULL THEN [worker EXCEPT !.pc = "count"]
          ELSE IF data[worker.node] = worker.gate
          THEN [worker EXCEPT !.pc = "unlink", !.next = next[worker.node],
                              !.prev = prev[worker.node]]
          ELSE [worker EXCEPT !.node = next[worker.node]]
    /\ UNCHANGED <<listVars, armed, lost, acceptor, main, up, early, owed>>

Search ==
    /\ worker.pc = "search"
    /\ IF worker.node \in live \cup {NULL}
       THEN /\ worker' =
                  IF worker.node = NULL THEN Unoccupied
                  ELSE IF data[worker.node] = worker.gate
                  THEN [worker EXCEPT !.pc = "unlink", !.next = next[worker.node],
                                      !.prev = prev[worker.node]]
                  ELSE [worker EXCEPT !.node = next[worker.node]]
            /\ UNCHANGED <<listVars, armed, lost, acceptor, main, up, early, owed>>
       ELSE Dies

UnlinkFromHead ==  \* mutant: without the test of prev
    /\ worker.pc = "unlink"
    /\ head' = worker.next
    /\ worker' = [worker EXCEPT !.pc = "relink"]
    /\ owed' = owed \ {worker.gate}
    /\ UNCHANGED <<tail, count, next, prev, data, live, armed, lost, acceptor, main, up, early>>

(* if (prev) prev->next = next; else m_lpHead = next;                      *)
Unlink ==
    /\ worker.pc = "unlink"
    /\ IF worker.prev = NULL
       THEN head' = worker.next /\ UNCHANGED next
       ELSE next' = [next EXCEPT ![worker.prev] = worker.next] /\ UNCHANGED head
    /\ worker' = [worker EXCEPT !.pc = "relink"]
    /\ owed' = owed \ {worker.gate}
    /\ UNCHANGED <<tail, count, prev, data, live, armed, lost, acceptor, main, up, early>>

RelinkForward ==  \* mutant: m_lpTail is left as it is
    /\ worker.pc = "relink"
    /\ prev' = IF worker.next = NULL THEN prev ELSE [prev EXCEPT ![worker.next] = worker.prev]
    /\ worker' = [worker EXCEPT !.pc = "free"]
    /\ UNCHANGED <<head, tail, count, next, data, live, armed, lost, acceptor, main, up, early, owed>>

(* if (next) next->prev = prev; else m_lpTail = prev;                      *)
Relink ==
    /\ worker.pc = "relink"
    /\ IF worker.next = NULL
       THEN tail' = worker.prev /\ UNCHANGED prev
       ELSE prev' = [prev EXCEPT ![worker.next] = worker.prev] /\ UNCHANGED tail
    /\ worker' = [worker EXCEPT !.pc = "free"]
    /\ UNCHANGED <<head, count, next, data, live, armed, lost, acceptor, main, up, early, owed>>

(* GlobalFree(lpNode)                                                      *)
FreeNode ==
    /\ worker.pc = "free"
    /\ live' = live \ {worker.node}
    /\ worker' = [worker EXCEPT !.pc = "count", !.node = NULL]
    /\ UNCHANGED <<head, tail, count, next, prev, data, armed, lost, acceptor, main, up, early, owed>>

(* m_nCount--                                                              *)
ReadToRemove ==
    /\ worker.pc = "count"
    /\ worker' = [worker EXCEPT !.pc = "dec", !.count = count]
    /\ UNCHANGED <<listVars, armed, lost, acceptor, main, up, early, owed>>

Decrement ==
    /\ worker.pc = "dec"
    /\ count' = worker.count - 1
    /\ worker' = Unoccupied
    /\ UNCHANGED <<head, tail, next, prev, data, live, armed, lost, acceptor, main, up, early, owed>>

Removing == Search \/ Unlink \/ Relink \/ FreeNode \/ ReadToRemove \/ Decrement

-----------------------------------------------------------------------------
ScanMany ==  \* mutant: off by one
    /\ main.pc = "scan"
    /\ count > 1
    /\ main' = [main EXCEPT !.pc = "head"]
    /\ UNCHANGED <<listVars, armed, lost, acceptor, worker, up, early, owed>>

(* The main loop, once a round.  (m_nCount is unsigned: only 0 is nothing.) *)
Scan ==
    /\ main.pc = "scan"
    /\ count # 0
    /\ main' = [main EXCEPT !.pc = "head"]
    /\ UNCHANGED <<listVars, armed, lost, acceptor, worker, up, early, owed>>

GetHeadAtTail ==  \* mutant: GetTail for GetHead
    /\ main.pc = "head"
    /\ main' = [pc |-> IF tail = NULL THEN "scan" ELSE "visit", node |-> tail]
    /\ owed' = { Listed[i] : i \in DOMAIN Listed }
    /\ UNCHANGED <<listVars, armed, lost, acceptor, worker, up, early>>

GetHead ==
    /\ main.pc = "head"
    /\ main' = [pc |-> IF head = NULL THEN "scan" ELSE "visit", node |-> head]
    /\ owed' = { Listed[i] : i \in DOMAIN Listed }
    /\ UNCHANGED <<listVars, armed, lost, acceptor, worker, up, early>>

(* GetData, and xSend on that gate unless it is sending (Downlink).        *)
Visit ==
    /\ main.pc = "visit"
    /\ IF main.node \in live
       THEN /\ main' = [main EXCEPT !.pc = "next"]
            /\ owed' = owed \ {data[main.node]}
            /\ UNCHANGED <<listVars, armed, lost, acceptor, worker, up, early>>
       ELSE Dies

GetNext ==
    /\ main.pc = "next"
    /\ IF main.node \in live
       THEN /\ main' = [pc |-> IF next[main.node] = NULL THEN "scan" ELSE "visit",
                        node |-> next[main.node]]
            /\ UNCHANGED <<listVars, armed, lost, acceptor, worker, up, early, owed>>
       ELSE Dies

MainLoop == Scan \/ GetHead \/ Visit \/ GetNext

-----------------------------------------------------------------------------
Step == (\E g \in Gate : Accept(g) \/ Lose(g)) \/ Adding \/ Removing \/ MainLoop

Next == up /\ ~ met /\ Step /\ Witness

\* The scheduler runs every thread that has something to do.
Fairness ==
    /\ WF_vars(up /\ ~ met /\ Adding /\ Witness)
    /\ WF_vars(up /\ ~ met /\ Removing /\ Witness)
    /\ WF_vars(up /\ ~ met /\ MainLoop /\ Witness)

Spec == Init /\ [][Next]_vars
FairSpec == Spec /\ Fairness

-----------------------------------------------------------------------------
\* As long as the adder and the remover do not meet at the end of the list, a
\* thread touches memory it does not own only where the worker has freed the
\* node the main loop stands at.
OnlyStrandedDies == ~ up => stranded

\* Registry!Spec: the linked nodes are a sequence to which gates are added at
\* the end and from which the lost one is taken, whoever walks them meanwhile.
Registry == INSTANCE GateRegistry WITH list <- IF met THEN <<>> ELSE Listed, damaged <- met
RegistrySpec == Registry!Spec

\* A walk comes by every gate that is listed from its begin to its end.
WalkComplete == main.pc = "scan" => owed = {} \/ stranded

\* m_nCount, which decides whether the main loop walks at all, is the number of
\* gates but for the step or two its increment lags behind the link.
CountAgrees ==
    \/ met \/ bumped
    \/ count = Len(Listed)
               - (IF acceptor.pc \in {"last", "back", "count", "inc"} THEN 1 ELSE 0)
               + (IF worker.pc \in {"relink", "free", "count", "dec"} THEN 1 ELSE 0)

\* The loss of a gate takes it off the list for good, unless the worker saw it
\* before AcceptThread had listed the gate.
LostAreGone ==
    met \/ \A g \in lost \ early :
              Contains(Listed, g) => worker.gate = g /\ worker.pc \in {"search", "unlink"}

\* The main loop comes to every gate that stays on the list, again and again.
Visited(g) == main.pc = "next" /\ data[main.node] = g
Served ==
    \A g \in Gate :
        Contains(Listed, g)
            ~> (Visited(g) \/ ~ Contains(Listed, g) \/ met \/ stranded \/ bumped)

=============================================================================
