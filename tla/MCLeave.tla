------------------------------ MODULE MCLeave ------------------------------
(***************************************************************************)
(* Instances of Leave for TLC: "books", where the calls on one ledger come *)
(* one at a time (and those on different ledgers overlap), and "chain",    *)
(* where calls on one request overlap in every way and die.                *)
(***************************************************************************)
EXTENDS LeaveBooks, TLC

CONSTANTS c1, c2, c3, c4, r1, r2, r3, ana, ben

CONSTANT Scenes     \* which of them
VARIABLE scene      \* never changes

MCLedgerOf == (r1 :> ana) @@ (r2 :> ana) @@ (r3 :> ben)
MCDays == (r1 :> 2) @@ (r2 :> 1) @@ (r3 :> 3)

Chain == INSTANCE Leave WITH
            Calls <- {c1, c2, c3}, Requests <- {r1}, Ledgers <- {ana},
            LedgerOf <- r1 :> ana, Days <- r1 :> 2, Crashes <- TRUE, Exclusive <- FALSE

MCInit == Init /\ scene \in Scenes
MCNext ==
    /\ UNCHANGED scene
    /\ \/ scene = "books" /\ Next
       \/ scene = "chain" /\ Chain!Next
Goes(c) == scene = "books" /\ UNCHANGED scene /\ Proceed(c)
MCSpec == MCInit /\ [][MCNext]_<<vars, scene>> /\ \A c \in Calls : WF_<<vars, scene>>(Goes(c))

\* ImplementsLedger, of the calls that come one at a time.
BooksImplementLedger ==
    /\ scene = "books" => Ledger!Init
    /\ [][scene = "books" => Ledger!Next]_(Ledger!vars)

\* BooksSettle, of the same calls.
BooksSettleInTurn == scene = "books" => BooksSettle
=============================================================================
