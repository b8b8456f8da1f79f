------------------------------ MODULE Records ------------------------------
(***************************************************************************)
(* What EmployeesService keeps of one employee: a contract, which is       *)
(* extended, cancelled and then deleted, and the bank accounts, of which   *)
(* one is primary.  A contract is read in one transaction and written in   *)
(* another, without a look at what it has become.  READ COMMITTED: what a  *)
(* bank account's transaction demotes is what it saw when it began.        *)
(***************************************************************************)
EXTENDS Naturals, FiniteSets

CONSTANTS
    Calls,           \* handlers that run at a time
    Accounts,        \* ids of bank accounts that get to be inserted
    Ends,            \* dates at which a contract may end
    Null,
    Overlap          \* may handlers overlap?  a set of BOOLEANs

Contract == [status : {"active", "cancelled"}, end : Ends, cancelled_by : Calls \cup {Null},
             deleted : BOOLEAN]

RecordsAssumption ==
    /\ Null \notin Calls \cup Accounts \cup Ends /\ Null \notin Contract \cup BOOLEAN
    /\ Overlap \subseteq BOOLEAN

VARIABLES
    contract,        \* a row of contracts
    account,         \* employee_bank_accounts: is_primary of each
    call,            \* the locals of each handler
    overlap          \* may handlers overlap?  never changes

vars == <<contract, account, call, overlap>>

AccountRow == BOOLEAN \cup {Null}       \* is_primary

CallState == [pc : {"idle", "extend", "cancel", "delete", "primary"}, end : Ends \cup {Null},
              account : Accounts \cup {Null}, seen : SUBSET Accounts]

TypeOK ==
    /\ contract \in Contract \cup {Null}
    /\ account \in [Accounts -> AccountRow]
    /\ call \in [Calls -> CallState]
    /\ overlap \in Overlap

Idle == [pc |-> "idle", end |-> Null, account |-> Null, seen |-> {}]

Init ==
    /\ contract = Null
    /\ account = [a \in Accounts |-> Null]
    /\ call = [c \in Calls |-> Idle]
    /\ overlap \in Overlap

At(c, pc) == call[c].pc = pc
MayStart(c) == At(c, "idle") /\ (overlap \/ \A d \in Calls : At(d, "idle"))
Return(c) == call' = [call EXCEPT ![c] = Idle]

-----------------------------------------------------------------------------
(* Contracts *)

AddContract(end) ==
    /\ contract = Null
    /\ contract' = [status |-> "active", end |-> end, cancelled_by |-> Null, deleted |-> FALSE]
    /\ UNCHANGED <<account, call, overlap>>

\* getContractOrThrow: not found once it is deleted.
Found == contract # Null /\ ~contract.deleted

MayDelete == Found /\ contract.status = "cancelled"

\* (mutant of MayExtend: so may a cancelled one)
MayExtendAny == Found

MayExtend == Found /\ contract.status = "active"

MayCancel == Found /\ contract.status # "cancelled"

\* The checks of extendContract, cancelContract and deleteContract.
Read(c, pc, end) ==
    /\ MayStart(c)
    /\ \/ pc = "extend" /\ MayExtend
       \/ pc = "cancel" /\ MayCancel
       \/ pc = "delete" /\ MayDelete
    /\ call' = [call EXCEPT ![c] = [Idle EXCEPT !.pc = pc, !.end = end]]
    /\ UNCHANGED <<contract, account, overlap>>

Extend(c) ==
    /\ At(c, "extend")
    /\ contract' = [contract EXCEPT !.end = call[c].end]
    /\ Return(c)
    /\ UNCHANGED <<account, overlap>>

Cancel(c) ==
    /\ At(c, "cancel")
    /\ contract' = [contract EXCEPT !.status = "cancelled", !.cancelled_by = c]
    /\ Return(c)
    /\ UNCHANGED <<account, overlap>>

SoftDelete(c) ==
    /\ At(c, "delete")
    /\ contract' = [contract EXCEPT !.deleted = TRUE]
    /\ Return(c)
    /\ UNCHANGED <<account, overlap>>

-----------------------------------------------------------------------------
(* Bank accounts *)

Primaries == {a \in Accounts : account[a] = TRUE}

Unused(a) == account[a] = Null /\ \A c \in Calls : a \notin call[c].seen \cup {call[c].account}

\* Ids are alike: the next one that is free.
Fresh(a) == Unused(a) /\ a = CHOOSE x \in Accounts : Unused(x)

AddAccount(a) ==
    /\ Fresh(a)
    /\ account' = [account EXCEPT ![a] = FALSE]
    /\ UNCHANGED <<contract, call, overlap>>

\* A newly primary account demotes the others.
Demote(c, a) ==
    /\ MayStart(c) /\ Fresh(a)
    /\ call' = [call EXCEPT ![c] = [Idle EXCEPT !.pc = "primary", !.account = a,
                                                !.seen = {b \in Accounts : account[b] # Null}]]
    /\ UNCHANGED <<contract, account, overlap>>

\* (mutant of Demoted: the others stay what they are)
NoneDemoted(c) == account

Demoted(c) == [b \in Accounts |-> IF b \in call[c].seen /\ account[b] # Null THEN FALSE ELSE account[b]]

CommitPrimary(c) ==
    /\ At(c, "primary")
    /\ account' = [Demoted(c) EXCEPT ![call[c].account] = TRUE]
    /\ Return(c)
    /\ UNCHANGED <<contract, overlap>>

RemoveAccount(a) ==
    /\ account[a] # Null
    /\ account' = [account EXCEPT ![a] = Null]
    /\ UNCHANGED <<contract, call, overlap>>

-----------------------------------------------------------------------------

Next ==
    \/ \E end \in Ends : AddContract(end)
    \/ \E c \in Calls :
          \/ \E end \in Ends : Read(c, "extend", end)
          \/ \E pc \in {"cancel", "delete"} : Read(c, pc, Null)
          \/ Extend(c)
          \/ Cancel(c)
          \/ SoftDelete(c)
          \/ \E a \in Accounts : Demote(c, a)
          \/ CommitPrimary(c)
    \/ \E a \in Accounts : AddAccount(a) \/ RemoveAccount(a)

Spec == Init /\ [][Next]_vars

-----------------------------------------------------------------------------
(* Properties *)

\* "Permanently delete a contract — only allowed once it has been cancelled"
\* (employees.service.ts:365): whatever else is under way, what is deleted is
\* cancelled, and it stays so.
DeletedWasCancelled ==
    contract # Null /\ contract.deleted => contract.status = "cancelled"

\* "Only active ones" are extended, "kept (cancelled) until permanently deleted"
\* (employees.service.ts:341, 350): where handlers do not overlap a cancelled contract
\* keeps its end and who cancelled it.
KeepsCancelled ==
    ~overlap /\ contract # Null /\ contract.status = "cancelled" =>
        contract' = [contract EXCEPT !.deleted = contract'.deleted]

\* "isPrimary marks the payroll account" (schema/employees.ts:93): handlers that
\* do not overlap leave at most one; at once, each call in flight may add one.
OnePrimary == Cardinality(Primaries) <= IF overlap THEN Cardinality(Calls) ELSE 1
=============================================================================
