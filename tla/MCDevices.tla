----------------------------- MODULE MCDevices -----------------------------
(* An instance of Devices for TLC. *)
EXTENDS Devices, TLC

CONSTANTS eve, sam, r1, r2, c1, c2, c3, c4, c5, t1, t2, mall, park

Symmetry == Permutations(Calls) \cup Permutations(Registrations) \cup Permutations(Terminals)
=============================================================================
