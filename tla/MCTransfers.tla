---------------------------- MODULE MCTransfers ----------------------------
(* Instances of Transfers for TLC. *)
EXTENDS Transfers, TLC

CONSTANTS t1, t2, ana, north, south, l1, l2, c1

Visit(s, from, to) == [kind |-> "temporary", employee |-> ana, from |-> Null, to |-> s,
                       start |-> from, end |-> to]

\* Two visits to the south, one inside the other.
SharedAsked == (t1 :> Visit(south, 0, 2)) @@ (t2 :> Visit(south, 0, 1))

MCHome == ana :> north
NoneByHand == {}
=============================================================================
