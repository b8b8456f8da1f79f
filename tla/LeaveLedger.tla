---------------------------- MODULE LeaveLedger ----------------------------
(***************************************************************************)
(* What time off promises: a request is decided once, may be given back    *)
(* after it was granted, and each decision moves the request's days on its *)
(* ledger in the same step.                                                *)
(***************************************************************************)
EXTENDS Integers

CONSTANTS Requests, Ledgers, LedgerOf, Days

VARIABLES status, taken, pending

vars == <<status, taken, pending>>

Init ==
    /\ status = [r \in Requests |-> "none"]
    /\ taken = [l \in Ledgers |-> 0]
    /\ pending = [l \in Ledgers |-> 0]

Add(book, r, n) == [book EXCEPT ![LedgerOf[r]] = @ + n]

Request(r) ==
    /\ status[r] = "none"
    /\ status' = [status EXCEPT ![r] = "requested"]
    /\ pending' = Add(pending, r, Days[r])
    /\ UNCHANGED taken

Approve(r) ==
    /\ status[r] = "requested"
    /\ status' = [status EXCEPT ![r] = "approved"]
    /\ pending' = Add(pending, r, -Days[r])
    /\ taken' = Add(taken, r, Days[r])

Withdraw(r, outcome) ==
    /\ status[r] = "requested"
    /\ status' = [status EXCEPT ![r] = outcome]
    /\ pending' = Add(pending, r, -Days[r])
    /\ UNCHANGED taken

GiveBack(r) ==
    /\ status[r] = "approved"
    /\ status' = [status EXCEPT ![r] = "cancelled"]
    /\ taken' = Add(taken, r, -Days[r])
    /\ UNCHANGED pending

Next == \E r \in Requests :
            \/ Request(r)
            \/ Approve(r)
            \/ Withdraw(r, "rejected")
            \/ Withdraw(r, "cancelled")
            \/ GiveBack(r)

Spec == Init /\ [][Next]_vars
=============================================================================
