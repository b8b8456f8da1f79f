---------------------------- MODULE MCAttendance ----------------------------
(***************************************************************************)
(* An instance of TimeClock for TLC, whose punches come one at a time, are *)
(* stamped by the server's clock, and devices flush batches between them;  *)
(* and beside it a "race", where calls overlap, name logs and supply       *)
(* times.  Calls may die in all of them.                                   *)
(***************************************************************************)
EXTENDS TimeClock, FiniteSets, TLC

CONSTANTS eve, l1, l2, b1, b2, c1, c2, c3, c4

CONSTANT Scenes     \* which of them

ShiftTo(t) == eve :> [from |-> 0, to |-> t, breakTime |-> 1]
MorningShift == ShiftTo(3)

InOut(in, out) == {[kind |-> "clock_in", at |-> in], [kind |-> "clock_out", at |-> out]}
WithBreak(in, from, to, out) ==
    InOut(in, out) \cup {[kind |-> "break_start", at |-> from],
                         [kind |-> "break_end", at |-> to]}
OfflineBatches == {InOut(0, 2), WithBreak(0, 1, 2, 3)}

Race == INSTANCE Attendance WITH
            MaxTime <- 2, Shift <- ShiftTo(2), Batches <- {}, TicksPerMinute <- 2,
            Ops <- PunchKind \cup {"delete"}, ByName <- TRUE, BackDated <- TRUE, Exclusive <- FALSE

Begun == {c \in Calls : call[c].pc # "idle"}

MCInit ==
    /\ scene \in Scenes
    /\ TimeClockInit \/ (scene = "race" /\ Init /\ NoCorrections)
MCNext ==
    \/ TimeClockNext
    \/ /\ scene = "race" /\ Race!Next
       /\ Cardinality(Begun') <= 3
       /\ UNCHANGED <<scene, corrections>>
MCSpec == MCInit /\ [][MCNext]_<<scene, vars, corrections>>

Symmetry == Permutations(Calls) \cup Permutations(Logs) \cup Permutations(Breaks)
=============================================================================
