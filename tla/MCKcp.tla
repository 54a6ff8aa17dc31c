------------------------------- MODULE MCKcp -------------------------------
(***************************************************************************)
(* An instance of Kcp: who sends which messages.                           *)
(***************************************************************************)
EXTENDS Kcp

(* The second message of the client does not fit the window of three beside the first. *)
FullWindow == [client |-> <<2, 2>>, server |-> <<>>]

=============================================================================
