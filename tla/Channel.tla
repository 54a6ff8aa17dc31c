------------------------------ MODULE Channel ------------------------------
(***************************************************************************)
(* What the gate promises each client: the packets the client has sent     *)
(* come out at the game server in the order they were sent, each at most   *)
(* once and none in between left out.  A session that ends may leave its   *)
(* last packets undelivered.                                               *)
(***************************************************************************)
EXTENDS Integers, Sequences

CONSTANT Session

VARIABLES sent,  \* how many packets each client has sent
          got    \* the numbers of the packets delivered, in order

Init ==
    /\ sent = [s \in Session |-> 0]
    /\ got = [s \in Session |-> <<>>]

Send(s) ==
    /\ sent' = [sent EXCEPT ![s] = @ + 1]
    /\ UNCHANGED got

Deliver(s) ==
    /\ Len(got[s]) < sent[s]
    /\ got' = [got EXCEPT ![s] = Append(@, Len(@) + 1)]
    /\ UNCHANGED sent

Next == \E s \in Session : Send(s) \/ Deliver(s)

Spec == Init /\ [][Next]_<<sent, got>>

=============================================================================
