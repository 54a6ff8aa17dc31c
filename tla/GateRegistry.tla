---------------------------- MODULE GateRegistry ----------------------------
(***************************************************************************)
(* What the game server needs g_xGateList to be: a sequence of gates.  A   *)
(* new gate goes to its end, a lost one is taken out and leaves the others *)
(* as they stand.  Nothing is promised once the list is damaged.           *)
(***************************************************************************)
EXTENDS Integers, Sequences, SequencesExt

CONSTANT Gate

VARIABLES list,    \* the gates, in the order they were listed
          damaged  \* whether two threads have met at the end of the list

Init == list = <<>> /\ damaged = FALSE

Enlist(g) ==
    /\ ~ Contains(list, g)
    /\ list' = Append(list, g)
    /\ UNCHANGED damaged

Delist(g) ==
    /\ \E i \in DOMAIN list : list[i] = g /\ list' = RemoveAt(list, i)
    /\ UNCHANGED damaged

Damage == damaged' = TRUE

Next == Damage \/ (~ damaged /\ \E g \in Gate : Enlist(g) \/ Delist(g))

Spec == Init /\ [][Next]_<<list, damaged>>

=============================================================================
