----------------------------- MODULE TimeClock -----------------------------
(***************************************************************************)
(* Attendance and Corrections, how the time of an employee is recorded and *)
(* how a record is put right.  Both write the rows of attendance_logs.     *)
(* They are explored apart: in each behaviour one of them runs and the     *)
(* other is not there; what a correction meets of punches and deletions is *)
(* in Corrections itself.                                                  *)
(***************************************************************************)
EXTENDS Attendance

CONSTANTS Deciders, Ids, Times, Unread, Gone, Overlap           \* Corrections

VARIABLES
    scene,                                                      \* never changes
    correction, overlap, applied, torn, meant                   \* Corrections, with log and call

corrections == <<correction, overlap, applied, torn, meant>>

Cor == INSTANCE Corrections WITH Calls <- Deciders

ASSUME TimeClockAssumption == Cor!CorrectionsAssumption

NoPunches == now = Null /\ break = Null /\ anomaly = Null
NoCorrections ==
    correction = Null /\ overlap = Null /\ applied = Null /\ torn = Null /\ meant = Null

TimeClockInit ==
    \/ scene = "punches" /\ Init /\ NoCorrections
    \/ scene = "corrections" /\ Cor!Init /\ NoPunches

TimeClockNext ==
    \/ scene = "punches" /\ Next /\ UNCHANGED <<scene, corrections>>
    \/ scene = "corrections" /\ Cor!Next /\ UNCHANGED <<scene, now, break, anomaly>>

TimeClockSpec == TimeClockInit /\ [][TimeClockNext]_<<scene, vars, corrections>>

\* What is recorded is of its type.
Types == IF scene = "corrections" THEN Cor!TypeOK ELSE TypeOK

\* Whatever overlaps, a row is one the checks allow.
LogsHoldUp == scene # "corrections" => FlagsExplained /\ ClosedAfterOpened

\* In turn, nobody is at work twice or on a break from a shift that is over, and
\* a batch is applied as it was sent.
PunchesInTurn ==
    scene = "punches" => OneOpenLog /\ NoDanglingBreak /\ SpansDisjoint /\ BatchApplies

\* Of corrections, in their scene.
CorrectionsHold == scene = "corrections" => Cor!CorrectionsHold
=============================================================================
