---------------------------- MODULE MCPersonnel ----------------------------
(* Instances of Personnel, that is of Documents and Transfers, for TLC. *)
EXTENDS Personnel, TLC

CONSTANTS d1, d2, e1, e2, s1, c1, c2, t1, t2, t3, ana, north, south, west, l1, l2, l3

Visit(s, from, to) == [kind |-> "temporary", employee |-> ana, from |-> Null, to |-> s,
                       start |-> from, end |-> to]
Move(s) == [Visit(s, 0, 0) EXCEPT !.kind = "permanent"]

\* A visit to the south, said to be from the north, one to the west, which HR also
\* links by hand, and a move to the south.
MCAsked == (t1 :> [Visit(south, 1, 2) EXCEPT !.from = north]) @@ (t2 :> Visit(west, 0, 1)) @@ (t3 :> Move(south))
MCHome == ana :> north
MCByHand == {<<ana, west>>}
MCPostings == {<<ana, north>>}

Symmetry == Permutations(Calls) \cup Permutations(Docs) \cup Permutations(Entries)
=============================================================================
