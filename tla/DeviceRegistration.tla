------------------------- MODULE DeviceRegistration -------------------------
(***************************************************************************)
(* The one-time binding of an employee's device: DeviceRegistrationService *)
(* over its repository.  Registering, revoking, disabling and enabling are *)
(* each a few repository calls, every one a transaction of its own: look,  *)
(* write the row, then add a row to the history trail.  A partial unique   *)
(* index keeps an employee to one active registration; every other rule    *)
(* is a check on a row read earlier.                                       *)
(***************************************************************************)
EXTENDS Naturals, Sequences

CONSTANTS
    Calls,            \* HTTP calls, each served at most once
    Employees, Registrations,
    Null,
    Serialized        \* the employees about whom calls come one at a time

ASSUME RegistrationAssumption ==
    /\ Null \notin Registrations /\ Null \notin Employees
    /\ Serialized \subseteq Employees

VARIABLES
    reg,              \* device_registrations
    trail,            \* device_registration_logs, by registration
    call              \* the locals of each HTTP call

vars == <<reg, trail, call>>

-----------------------------------------------------------------------------
(* Types *)

RegStatus == {"none", "active", "disabled", "revoked"}
RegRow == [status : RegStatus, employee : Employees \cup {Null}]
Action == {"registered", "revoked", "disabled", "enabled"}
Op == {"register", "revoke", "disable", "enable"}

\* "find" and "insert" register; "read", "guard" and "write" change a row;
\* "trail" is the insert of the history row that ends every operation.
Pc == {"idle", "find", "insert", "read", "guard", "write", "trail", "done", "dead"}
CallState == [pc : Pc, op : Op \cup {"none"},
              employee : Employees \cup {Null}, reg : Registrations \cup {Null}]

TypeOK ==
    /\ reg \in [Registrations -> RegRow]
    /\ trail \in [Registrations -> Seq(Action)]
    /\ call \in [Calls -> CallState]

Fresh == [pc |-> "idle", op |-> "none", employee |-> Null, reg |-> Null]

Init ==
    /\ reg = [r \in Registrations |-> [status |-> "none", employee |-> Null]]
    /\ trail = [r \in Registrations |-> <<>>]
    /\ call = [c \in Calls |-> Fresh]

-----------------------------------------------------------------------------

ActiveFor(e) == {r \in Registrations : reg[r].status = "active" /\ reg[r].employee = e}

\* (mutant of IndexAdmits: the table has no such index)
NoIndex(e, r) == TRUE

\* The partial unique index on (company, employee) where status is active: may
\* registration r of employee e be written as active?
IndexAdmits(e, r) == ActiveFor(e) \subseteq {r}

\* (mutant of Result: the name of the operation is written as the status)
ResultAsNamed(op) == op

Result(op) == CASE op = "revoke"  -> "revoked"
                [] op = "disable" -> "disabled"
                [] op = "enable"  -> "active"

\* (mutant of Entry: the two switches are recorded the wrong way round)
EntrySwapped(op) == CASE op = "register" -> "registered"
                      [] op = "revoke"   -> "revoked"
                      [] op = "disable"  -> "enabled"
                      [] op = "enable"   -> "disabled"

Entry(op) == CASE op = "register" -> "registered"
               [] op = "revoke"   -> "revoked"
               [] op = "disable"  -> "disabled"
               [] op = "enable"   -> "enabled"

Running(c) == call[c].pc \notin {"idle", "done", "dead"}
Goto(c, at) == call' = [call EXCEPT ![c].pc = at]
Finish(c) == Goto(c, "done")

\* registerMine, adminRegister; revoke, disable and enable of a registration a
\* client can know.  An unknown id is refused and changes nothing.
Begin(c, op, e, r) ==
    /\ call[c].pc = "idle"
    /\ IF op = "register" THEN r = Null ELSE r \in Registrations /\ reg[r].employee = e
    /\ e \in Serialized => \A d \in Calls : Running(d) => call[d].employee # e
    /\ call' = [call EXCEPT ![c] = [pc |-> IF op = "register" THEN "find" ELSE "read",
                                    op |-> op, employee |-> e, reg |-> r]]
    /\ UNCHANGED <<reg, trail>>

-----------------------------------------------------------------------------
(* register: no active registration, insert, trail *)

FindActive(c) ==
    /\ call[c].pc = "find"
    /\ IF ActiveFor(call[c].employee) # {} THEN Finish(c) ELSE Goto(c, "insert")
    /\ UNCHANGED <<reg, trail>>

InsertRegistration(c, r) ==
    LET e == call[c].employee
    IN  /\ call[c].pc = "insert"
        /\ reg[r].status = "none"
        /\ IF IndexAdmits(e, r)
           THEN /\ reg' = [reg EXCEPT ![r] = [status |-> "active", employee |-> e]]
                /\ call' = [call EXCEPT ![c].pc = "trail", ![c].reg = r]
           ELSE Finish(c) /\ UNCHANGED reg
        /\ UNCHANGED trail

-----------------------------------------------------------------------------
(* revoke, disable, enable: read and check the row, write it, trail *)

\* (mutant of Allowed: any registration that is not active can be enabled)
AllowedUnlessActive(op, status) == /\ op = "disable" => status = "active"
                                   /\ op = "enable" => status # "active"

Allowed(op, status) == /\ op = "disable" => status = "active"
                       /\ op = "enable" => status = "disabled"

ReadRegistration(c) ==
    /\ call[c].pc = "read"
    /\ IF Allowed(call[c].op, reg[call[c].reg].status)
       THEN Goto(c, IF call[c].op = "enable" THEN "guard" ELSE "write")
       ELSE Finish(c)
    /\ UNCHANGED <<reg, trail>>

\* enable looks for another active registration of the employee first.
GuardOneActive(c) ==
    /\ call[c].pc = "guard"
    /\ IF ActiveFor(call[c].employee) # {} THEN Finish(c) ELSE Goto(c, "write")
    /\ UNCHANGED <<reg, trail>>

WriteRegistration(c) ==
    LET r == call[c].reg
        op == call[c].op
    IN  /\ call[c].pc = "write"
        /\ IF op = "enable" /\ ~IndexAdmits(call[c].employee, r)
           THEN Finish(c) /\ UNCHANGED reg
           ELSE /\ reg' = [reg EXCEPT ![r].status = Result(op)]
                /\ Goto(c, "trail")
        /\ UNCHANGED trail

-----------------------------------------------------------------------------

AddLog(c) ==
    /\ call[c].pc = "trail"
    /\ trail' = [trail EXCEPT ![call[c].reg] = Append(@, Entry(call[c].op))]
    /\ Finish(c)
    /\ UNCHANGED reg

\* The process dies between two transactions.
Crash(c) == Running(c) /\ Goto(c, "dead") /\ UNCHANGED <<reg, trail>>

Step(c) ==
    \/ \E op \in Op, e \in Employees, r \in Registrations \cup {Null} : Begin(c, op, e, r)
    \/ FindActive(c)
    \/ \E r \in Registrations : InsertRegistration(c, r)
    \/ ReadRegistration(c)
    \/ GuardOneActive(c)
    \/ WriteRegistration(c)
    \/ AddLog(c)
    \/ Crash(c)

Next == \E c \in Calls : Step(c)

Spec == Init /\ [][Next]_vars

-----------------------------------------------------------------------------
(* Properties *)

\* However registrations and re-enablings of an employee's devices overlap or
\* die, at most one is active: "One ACTIVE registration per employee"
\* (schema/device-registrations.ts:10).
OneActive ==
    \A r, s \in Registrations :
        reg[r].status = "active" /\ reg[s].status = "active"
          /\ reg[r].employee = reg[s].employee => r = s

\* A step that leaves the revoked registrations of these employees revoked.
KeepsRevoked(E) ==
    \A r \in Registrations :
        reg[r].status = "revoked" /\ reg[r].employee \in E => reg'[r].status = "revoked"

\* Revocation is final while calls about the employee come one at a time, even
\* when they die half way: "Only a disabled registration can be re-enabled."
\* (device-registration.service.ts:235).  Where they overlap it is not.
RevokedStaysRevoked == [][KeepsRevoked(Serialized)]_vars

\* Once every call has answered, in whatever order, the history trail of a
\* registration accounts for the status it is in.
Told(status) == CASE status = "active"   -> {"registered", "enabled"}
                  [] status = "disabled" -> {"disabled"}
                  [] status = "revoked"  -> {"revoked"}
AllAnswered == \A c \in Calls : call[c].pc \in {"idle", "done"}
TrailComplete ==
    AllAnswered => \A r \in Registrations : reg[r].status # "none" =>
        \E i \in DOMAIN trail[r] : trail[r][i] \in Told(reg[r].status)

\* While calls about the employee come one at a time, the last row of the trail
\* is the one that tells the status.
TrailInOrder ==
    AllAnswered => \A r \in Registrations :
        reg[r].status # "none" /\ reg[r].employee \in Serialized =>
            /\ trail[r] # <<>>
            /\ trail[r][Len(trail[r])] \in Told(reg[r].status)

\* The trail accounts for every status, and where calls come one at a time it ends
\* with the step that led to it.
TrailTells == TrailComplete /\ TrailInOrder
=============================================================================
