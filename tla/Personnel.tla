----------------------------- MODULE Personnel -----------------------------
(***************************************************************************)
(* Documents and Transfers, what HR keeps of people and where they work.   *)
(* They share nothing but the calls: in each behaviour one of them runs    *)
(* and the other stands still.                                             *)
(***************************************************************************)
EXTENDS Documents

CONSTANTS Employees, Stores, Transfers, Links, Asked, Home, ByHand, Postings,
          LastDay, Crashes                                                    \* Transfers

VARIABLES
    scene,                              \* which of them runs
    date, transfer, link, home, move    \* Transfers

transfers == <<date, transfer, link, home, move>>

T == INSTANCE Transfers WITH MaxDay <- LastDay, today <- date, call <- move

ASSUME PersonnelAssumption == T!TransfersAssumption

PersonnelInit == scene \in {"documents", "transfers"} /\ Init /\ T!Init
PersonnelNext ==
    \/ scene = "documents" /\ Next /\ UNCHANGED <<scene, transfers>>
    \/ scene = "transfers" /\ T!Next /\ UNCHANGED <<scene, vars>>
PersonnelSpec == PersonnelInit /\ [][PersonnelNext]_<<scene, vars, transfers>>

Filing == scene = "documents"
Moving == scene = "transfers"

Types == (Filing => TypeOK) /\ (Moving => T!TypeOK)

\* A guest is linked to the store while, and only while, the visit is on; a move is
\* made when it says so.
GuestsExplained == Moving => T!GuestWhileActive /\ T!CompletedLeavesNone /\ T!CompletedMoved

\* A sweep, or a purge or scan that was not shown a part of what is due, leaves
\* nothing due when it runs to its end, whatever one before it left half done.
SweepsCatchUp ==
    [][(Moving => T!SweepCatchesUp) /\ (Filing => PurgeCatchesUp /\ ScanCatchesUp)]_<<scene, vars, transfers>>
=============================================================================
