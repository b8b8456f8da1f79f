---------------------------- MODULE LeaveBooks -----------------------------
(***************************************************************************)
(* The leave ledger against the requests it accounts for, and the mapping  *)
(* under which Leave implements LeaveLedger.  The code moves the request   *)
(* and its ledger in two transactions; a call's decision counts from the   *)
(* one that writes the request, so what its ledger is still owed, or was   *)
(* given too early, is added back.                                         *)
(***************************************************************************)
EXTENDS Leave, FiniteSetsExt

CallsOn(l) == {c \in Calls : Active(c) /\ LedgerOf[call[c].req] = l}

\* create and approve have written the request and not yet the ledger; reject
\* and cancel have written the ledger and not yet the request.
Owed(c) ==
    CASE call[c].pc \in {"find", "store"} /\ call[c].op \in {"create", "approve"} ->
            call[c].delta
      [] call[c].pc = "close" ->
            [taken |-> -call[c].delta.taken, pending |-> -call[c].delta.pending]
      [] OTHER -> NoDelta

\* What a ledger is owed by the call that is at work on it: where calls on one ledger
\* come one at a time there is at most one.
InHand(l) == IF CallsOn(l) = {} THEN NoDelta ELSE Owed(CHOOSE c \in CallsOn(l) : TRUE)

SettledTaken(l) == balance[l].taken + InHand(l).taken
SettledPending(l) == balance[l].pending + InHand(l).pending

Ledger == INSTANCE LeaveLedger WITH
    status  <- [r \in Requests |-> request[r].status],
    taken   <- [l \in Ledgers |-> SettledTaken(l)],
    pending <- [l \in Ledgers |-> SettledPending(l)]

\* While the calls on one ledger come one at a time and none dies, the service
\* behaves as the abstract ledger: every decision of leave.service.ts moves
\* exactly the days of its request, once, whatever the calls on other ledgers
\* and the administrator's entitlements do meanwhile.
ImplementsLedger == Ledger!Spec

DaysOf(l, s) == MapThenSumSet(LAMBDA r : Days[r],
                              {r \in Requests : LedgerOf[r] = l /\ request[r].status = s})

\* Once no call is at work on it, a ledger's pending is the days of its open
\* requests and its taken the days of its granted ones: "requests -> approval
\* chain -> balance decrement" (leave.service.ts:32), "reserve pending
\* balance" (leave.service.ts:93).
BooksAgree ==
    \A l \in Ledgers : CallsOn(l) = {} =>
        /\ balance[l].pending = DaysOf(l, "requested")
        /\ balance[l].taken = DaysOf(l, "approved")

\* A ledger that disagrees with its requests is one a call is still at work
\* on, and it comes to agree: no call that does not die leaves its second
\* transaction undone.
BooksSettle ==
    \A l \in Ledgers : []<>(/\ balance[l].pending = DaysOf(l, "requested")
                            /\ balance[l].taken = DaysOf(l, "approved"))
=============================================================================
