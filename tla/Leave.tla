------------------------------- MODULE Leave -------------------------------
(***************************************************************************)
(* Time off: LeaveService over LeaveRepository.  Every repository call is  *)
(* one committed transaction of its own (DatabaseService.withTenant), and  *)
(* a handler is a sequence of such calls with nothing held in between, so  *)
(* the handlers of two HTTP calls interleave between any two of them.  A   *)
(* call is one HTTP request to the service; it runs once, and may die      *)
(* between two transactions when Crashes is set.                           *)
(*                                                                         *)
(* A request's employee, type and year select one row of leave_balances,   *)
(* its ledger.  Amounts are in half days, the service's smallest unit.     *)
(***************************************************************************)
EXTENDS Integers, Sequences

CONSTANTS
    Calls,         \* HTTP calls, each served at most once
    Requests,      \* leave_requests ids
    Ledgers,       \* (employee, type, year) keys of leave_balances
    LedgerOf,      \* the ledger a request draws on
    Days,          \* half days a request asks for, computed on creation
    ChainLengths,  \* lengths buildChain may return: one step, or two
    Entitlements,  \* values an administrator sets
    Crashes,       \* may a call die between two transactions?
    Exclusive      \* do the calls on one ledger come one at a time?

ASSUME LeaveAssumption ==
    /\ Requests # {}
    /\ LedgerOf \in [Requests -> Ledgers]
    /\ Days \in [Requests -> Nat \ {0}]
    /\ ChainLengths \subseteq Nat \ {0}
    /\ Entitlements \subseteq Nat
    /\ Crashes \in BOOLEAN
    /\ Exclusive \in BOOLEAN

VARIABLES
    request,       \* leave_requests
    balance,       \* leave_balances
    call           \* the locals of each HTTP call

vars == <<request, balance, call>>

-----------------------------------------------------------------------------
(* Types *)

StepStatus == {"pending", "approved", "rejected"}
RequestStatus == {"none", "requested", "approved", "rejected", "cancelled"}

RequestRow == [status : RequestStatus, chain : Seq(StepStatus), currentStep : Nat]
NoRequest == [status |-> "none", chain |-> <<>>, currentStep |-> 0]

BalanceRow == [exists : BOOLEAN, entitled : Nat, taken : Nat, pending : Nat]
NoBalance == [exists |-> FALSE, entitled |-> 0, taken |-> 0, pending |-> 0]

Delta == [taken : Int, pending : Int]
NoDelta == [taken |-> 0, pending |-> 0]

\* pc: "idle" before the call; "write" before the approver's update; "find"
\* and "store" inside adjustBalance; "close" before the update that ends
\* reject and cancel; "done" once it has answered or died.
Op == {"none", "create", "approve", "reject", "cancel"}
CallState == [pc : {"idle", "write", "find", "store", "close", "done"},
              op : Op,
              req : Requests,
              row : RequestRow,
              delta : Delta,
              found : BalanceRow]

TypeOK ==
    /\ request \in [Requests -> RequestRow]
    /\ balance \in [Ledgers -> BalanceRow]
    /\ call \in [Calls -> CallState]

Fresh == [pc |-> "idle", op |-> "none", req |-> CHOOSE r \in Requests : TRUE,
          row |-> NoRequest, delta |-> NoDelta, found |-> NoBalance]
Finished == [Fresh EXCEPT !.pc = "done"]

Init ==
    /\ request = [r \in Requests |-> NoRequest]
    /\ balance = [l \in Ledgers |-> NoBalance]
    /\ call = [c \in Calls |-> Fresh]

-----------------------------------------------------------------------------
(* Helpers *)

Active(c) == call[c].pc \notin {"idle", "done"}
Free(l) == Exclusive => \A c \in Calls : Active(c) => LedgerOf[call[c].req] # l

Begin(c, r) == call[c].pc = "idle" /\ Free(LedgerOf[r])
Locals(at, op, r, row, d) ==
    [pc |-> at, op |-> op, req |-> r, row |-> row, delta |-> d, found |-> NoBalance]

NewChain(n) == [i \in 1..n |-> "pending"]

\* step = chain[currentStep]; if (step) step.status = s.  The code counts
\* steps from 0, a sequence from 1.
Mark(row, s) == [i \in 1..Len(row.chain) |->
                    IF i = row.currentStep + 1 THEN s ELSE row.chain[i]]

\* (mutant of GiveBack: a granted request is given back as if still open)
GiveBackPending(r, status) == [taken |-> 0, pending |-> -Days[r]]

\* The deltas the handlers pass to adjustBalance.
Reserve(r) == [taken |-> 0, pending |-> Days[r]]
Take(r)    == [taken |-> Days[r], pending |-> -Days[r]]
Release(r) == [taken |-> 0, pending |-> -Days[r]]
GiveBack(r, status) ==
    [taken   |-> IF status = "approved" THEN -Days[r] ELSE 0,
     pending |-> IF status = "requested" THEN -Days[r] ELSE 0]

\* (mutant of Floor: the amounts are written as they come out)
Unfloored(n) == n

\* Math.max(0, n)
Floor(n) == IF n < 0 THEN 0 ELSE n

-----------------------------------------------------------------------------
(* createRequest: type, holidays and blackout dates are read first; a      *)
(* refusal there changes nothing.  The row is inserted, and only then is   *)
(* the ledger adjusted.                                                    *)

CreateRequest(c, r, n) ==
    /\ Begin(c, r)
    /\ request[r] = NoRequest
    /\ request' = [request EXCEPT ![r] = [status |-> "requested", chain |-> NewChain(n),
                                          currentStep |-> 0]]
    /\ call' = [call EXCEPT ![c] = Locals("find", "create", r, NoRequest, Reserve(r))]
    /\ UNCHANGED balance

(* approve: read and check, write chain, step and status in one update,    *)
(* then adjust the ledger if this was the last step.                       *)

ApproveRead(c, r) ==
    /\ Begin(c, r)
    /\ request[r].status = "requested"
    /\ call' = [call EXCEPT ![c] = Locals("write", "approve", r, request[r], Take(r))]
    /\ UNCHANGED <<request, balance>>

\* (mutant of ApproveWrite: the step is incremented in the database, the chain
\* still comes from the row read earlier)
ApproveWriteIncrementing(c) ==
    LET row == call[c].row
        nextStep == request[call[c].req].currentStep + 1
        final == nextStep >= Len(row.chain)
    IN  /\ call[c].pc = "write"
        /\ request' = [request EXCEPT ![call[c].req] =
                          [status |-> IF final THEN "approved" ELSE "requested",
                           chain |-> Mark(row, "approved"),
                           currentStep |-> nextStep]]
        /\ call' = [call EXCEPT ![c] = IF final THEN [@ EXCEPT !.pc = "find"]
                                                ELSE Finished]
        /\ UNCHANGED balance

ApproveWrite(c) ==
    LET row == call[c].row
        nextStep == row.currentStep + 1
        final == nextStep >= Len(row.chain)
    IN  /\ call[c].pc = "write"
        /\ request' = [request EXCEPT ![call[c].req] =
                          [status |-> IF final THEN "approved" ELSE "requested",
                           chain |-> Mark(row, "approved"),
                           currentStep |-> nextStep]]
        /\ call' = [call EXCEPT ![c] = IF final THEN [@ EXCEPT !.pc = "find"]
                                                ELSE Finished]
        /\ UNCHANGED balance

(* reject and cancel: read and check, adjust the ledger, and only then     *)
(* write the row.  Neither writes currentStep; cancel writes the status    *)
(* alone.                                                                  *)

RejectRead(c, r) ==
    /\ Begin(c, r)
    /\ request[r].status = "requested"
    /\ call' = [call EXCEPT ![c] = Locals("find", "reject", r, request[r], Release(r))]
    /\ UNCHANGED <<request, balance>>

RejectWrite(c) ==
    /\ call[c].pc = "close"
    /\ call[c].op = "reject"
    /\ request' = [request EXCEPT ![call[c].req].chain = Mark(call[c].row, "rejected"),
                                  ![call[c].req].status = "rejected"]
    /\ call' = [call EXCEPT ![c] = Finished]
    /\ UNCHANGED balance

CancelRead(c, r) ==
    /\ Begin(c, r)
    /\ request[r].status \notin {"none", "rejected", "cancelled"}
    /\ call' = [call EXCEPT ![c] = Locals("find", "cancel", r, request[r],
                                       GiveBack(r, request[r].status))]
    /\ UNCHANGED <<request, balance>>

CancelWrite(c) ==
    /\ call[c].pc = "close"
    /\ call[c].op = "cancel"
    /\ request' = [request EXCEPT ![call[c].req].status = "cancelled"]
    /\ call' = [call EXCEPT ![c] = Finished]
    /\ UNCHANGED balance

(* adjustBalance: read the ledger's row in one transaction, write absolute *)
(* values in another.  When no row was found it inserts one; if a row has  *)
(* appeared meanwhile the insert's conflict clause sets entitled alone, to *)
(* the 0 the call carries.                                                 *)

FindBalance(c) ==
    /\ call[c].pc = "find"
    /\ call' = [call EXCEPT ![c].pc = "store",
                            ![c].found = balance[LedgerOf[call[c].req]]]
    /\ UNCHANGED <<request, balance>>

Adjusted(now, found, d) ==
    LET sum == [taken   |-> Floor(found.taken + d.taken),
                pending |-> Floor(found.pending + d.pending)]
    IN  IF ~found.exists /\ now.exists
        THEN [now EXCEPT !.entitled = 0]
        ELSE [exists |-> TRUE, entitled |-> now.entitled,
              taken |-> sum.taken, pending |-> sum.pending]

\* (mutant of StoreBalance: a call that finds no row to update is content)
StoreBalanceExisting(c) ==
    LET l == LedgerOf[call[c].req]
    IN  /\ call[c].pc = "store"
        /\ balance' = IF call[c].found.exists
                      THEN [balance EXCEPT ![l] = Adjusted(@, call[c].found, call[c].delta)]
                      ELSE balance
        /\ call' = [call EXCEPT ![c] = IF @.op \in {"reject", "cancel"}
                                       THEN [@ EXCEPT !.pc = "close"]
                                       ELSE Finished]
        /\ UNCHANGED request

StoreBalance(c) ==
    LET l == LedgerOf[call[c].req]
    IN  /\ call[c].pc = "store"
        /\ balance' = [balance EXCEPT ![l] = Adjusted(@, call[c].found, call[c].delta)]
        /\ call' = [call EXCEPT ![c] = IF @.op \in {"reject", "cancel"}
                                       THEN [@ EXCEPT !.pc = "close"]
                                       ELSE Finished]
        /\ UNCHANGED request

(* setBalance: one upsert of the entitlement. *)
SetBalance(l, e) ==
    /\ Free(l)
    /\ balance' = [balance EXCEPT ![l].exists = TRUE, ![l].entitled = e]
    /\ UNCHANGED <<request, call>>

(* A call dies: a failed transaction or a restart of the process. *)
Crash(c) ==
    /\ Crashes
    /\ Active(c)
    /\ call' = [call EXCEPT ![c] = Finished]
    /\ UNCHANGED <<request, balance>>

-----------------------------------------------------------------------------
(* What a call does once it has begun. *)
Proceed(c) ==
    \/ ApproveWrite(c)
    \/ RejectWrite(c)
    \/ CancelWrite(c)
    \/ FindBalance(c)
    \/ StoreBalance(c)

Next ==
    \/ \E c \in Calls, r \in Requests :
          \/ \E n \in ChainLengths : CreateRequest(c, r, n)
          \/ ApproveRead(c, r)
          \/ RejectRead(c, r)
          \/ CancelRead(c, r)
    \/ \E c \in Calls : Proceed(c) \/ Crash(c)
    \/ \E l \in Ledgers, e \in Entitlements : SetBalance(l, e)

Spec == Init /\ [][Next]_vars

\* A call that has begun is a chain of promises the event loop resumes: each
\* goes on unless it dies.  Nothing makes a client send a call.
FairSpec == Spec /\ \A c \in Calls : WF_vars(Proceed(c))

-----------------------------------------------------------------------------
(* Properties *)

\* The shape of a row a decision can still be taken on, or that was granted:
\* the steps behind currentStep are approved, those ahead are untouched.
FollowsChain(row) ==
    /\ row.status = "requested" => row.currentStep < Len(row.chain)
    /\ row.status = "approved" => row.currentStep = Len(row.chain)
    /\ row.status \in {"requested", "approved"} =>
          \A i \in 1..Len(row.chain) :
             row.chain[i] = IF i <= row.currentStep THEN "approved" ELSE "pending"

\* However approve, reject and cancel calls on it interleave or die, a request
\* that stands approved has every step of its chain approved, and one that is
\* still open awaits exactly the first undecided step: the chain's JSON, the
\* step and the status of leave.service.ts approve are written together.
ChainDecides == \A r \in Requests : FollowsChain(request[r])
=============================================================================
