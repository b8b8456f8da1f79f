----------------------------- MODULE Workforce -----------------------------
(***************************************************************************)
(* People of one company: EmployeesService and ActivationRequestsService.  *)
(* Creating an employee, alone or from a CSV file, numbers them, stays     *)
(* within the plan's cap and may ask for a login, which an approver grants *)
(* or refuses.  Every step of a handler is a transaction of its own; the   *)
(* callers see the whole company (owner, HR).  Codes have one prefix: those*)
(* of stores are numbered apart.                                           *)
(***************************************************************************)
EXTENDS Integers, Sequences, FiniteSets, FiniteSetsExt, Functions

CONSTANTS
    Calls,           \* handlers that run at a time
    Employees,       \* ids of rows that get to be inserted
    People, Founder, \* people, by e-mail; the founder is the owner from the start
    Null, Gone,      \* no row yet, a row that has been deleted
    Askers,          \* the roles of those who create employees
    Wanted,          \* the roles that logins are asked for with
    Sizes            \* the instances that are looked at

\* The caps of the plan, and what bounds an instance: the rows of a file and
\* of the table, the codes, the codes that are given, the requests, and whether
\* handlers run one at a time.
Size == [limit : Nat, seats : Nat, batch : Nat, rows : Nat, codes : Nat, given : Nat,
         requests : Nat, serial : BOOLEAN]

MEMBERSHIP_ROLES == <<"owner", "hr", "area_manager", "store_manager", "employee">>
Role == Range(MEMBERSHIP_ROLES)

WorkforceAssumption ==
    /\ IsFiniteSet(Calls) /\ Calls # {}
    /\ IsFiniteSet(Employees) /\ IsFiniteSet(People)
    /\ Askers \subseteq Role /\ Wanted \subseteq Role
    /\ Founder \in People
    /\ Sizes \subseteq Size
    /\ \A s \in Sizes : s.given <= s.codes /\ s.seats > 0      \* a plan seats the founder
    /\ Null # Gone /\ {Null, Gone} \cap (Employees \cup People \cup Role) = {}
    /\ \A s \in Sizes : {Null, Gone} \cap [code : 1..s.codes, user : People \cup {Null}] = {}

VARIABLES
    employee,        \* employees
    user,            \* users: who has a row
    membership,      \* memberships of the company, all of them active: the role
    request,         \* activation_requests, by created_at
    call,            \* the locals of each handler
    size,            \* the instance, which never changes
    torn,            \* history: who was let in by an approval that died before it was written down
    collided         \* history: has a generated code been taken already?

vars == <<employee, user, membership, request, call, size, torn, collided>>

-----------------------------------------------------------------------------
(* Types *)

Row == [code : 1..size.codes, user : People \cup {Null}]
Request == [employee : Employees, email : People, role : Role,
            status : {"pending", "approved", "rejected"},
            cooling : BOOLEAN,       \* is cooldown_until ahead?
            deleted : BOOLEAN]       \* gone with the employee

CallState ==
    [pc : {"idle", "code", "insert", "raise", "ask", "seats", "provision", "decide",
           "refuse"},
     left : 0..size.batch,             \* rows still to be inserted
     code : 0..size.codes, generated : BOOLEAN, employee : Employees \cup {Null},
     email : People \cup {Null}, role : Role \cup {Null},
     request : 0..size.requests]

Idle == [pc |-> "idle", left |-> 0, code |-> 0, generated |-> FALSE, employee |-> Null,
         email |-> Null, role |-> Null, request |-> 0]

TypeOK ==
    /\ employee \in [Employees -> Row \cup {Null, Gone}]
    /\ user \subseteq People
    /\ membership \in [People -> Role \cup {Null}]
    /\ request \in Seq(Request) /\ Len(request) <= size.requests
    /\ call \in [Calls -> CallState]
    /\ size \in Sizes
    /\ collided \in BOOLEAN
    /\ torn \subseteq People

Init ==
    /\ employee = [e \in Employees |-> Null]
    /\ user = {Founder}
    /\ membership = [p \in People |-> IF p = Founder THEN "owner" ELSE Null]
    /\ request = <<>>
    /\ call = [c \in Calls |-> Idle]
    /\ size \in Sizes
    /\ torn = {} /\ collided = FALSE

Existing == {e \in Employees : employee[e] \notin {Null, Gone}}
Members == {p \in People : membership[p] # Null}
\* Ids are alike: the next one that has not been used.
NextId == CHOOSE e \in Employees : employee[e] = Null
Alone == size.serial => \A c \in Calls : call[c].pc = "idle"
At(c, pc) == call[c].pc = pc
Goto(c, pc) == call' = [call EXCEPT ![c].pc = pc]
Return(c) == call' = [call EXCEPT ![c] = Idle]
Logins == <<user, membership>>
History == <<torn, collided>>

-----------------------------------------------------------------------------
(* Creating employees: create and importCsv                                *)

WithinLimit(delta) == Cardinality(Existing) + delta <= size.limit

\* Roles strictly below one's own.
AssignableRoles(actor) ==
    {MEMBERSHIP_ROLES[i] : i \in {i \in 1..5 : \E j \in 1..(i - 1) : MEMBERSHIP_ROLES[j] = actor}}

\* The limit is read once, before anything is written.  A login is asked for
\* with an e-mail and a role below one's own, or the call fails once the employee
\* is there: here as one that asks for none.
Create(c, n, actor, p, role) ==
    /\ At(c, "idle") /\ Alone
    /\ WithinLimit(n)
    /\ (p # Null) => n = 1 /\ role \in AssignableRoles(actor)
    /\ call' = [call EXCEPT ![c] = [Idle EXCEPT !.pc = "code", !.left = n, !.email = p,
                                               !.role = IF p = Null THEN Null ELSE role]]
    /\ UNCHANGED <<employee, Logins, request, size, History>>

\* The highest number in use, and one.
NextCode == 1 + Max({0} \cup {employee[e].code : e \in Existing})

\* A code that is given is taken as it is.
TakeCode(c, given) ==
    /\ At(c, "code")
    /\ given = 0 => NextCode <= size.codes
    /\ call' = [call EXCEPT ![c].pc = "insert", ![c].generated = (given = 0),
                           ![c].code = IF given = 0 THEN NextCode ELSE given]
    /\ UNCHANGED <<employee, Logins, request, size, History>>

\* (mutant of NextRow: the file has no end)
NextRowAlways(c) == call' = [call EXCEPT ![c].pc = "code", ![c].left = @ - 1, ![c].code = 0]

\* The next row of the file, or the end of the handler.
NextRow(c) ==
    IF call[c].left > 1
    THEN call' = [call EXCEPT ![c].pc = "code", ![c].left = @ - 1, ![c].code = 0]
    ELSE Return(c)

\* unique (company, code): a row whose code is taken is an error, and a file goes
\* on without it.
Insert(c, e) ==
    /\ At(c, "insert") /\ employee[e] = Null /\ e = NextId
    /\ Cardinality({x \in Employees : employee[x] # Null}) < size.rows
    /\ IF \E x \in Existing : employee[x].code = call[c].code
       THEN /\ collided' = (collided \/ call[c].generated)
            /\ NextRow(c)
            /\ UNCHANGED employee
       ELSE /\ employee' = [employee EXCEPT ![e] =
                                [code |-> call[c].code, user |-> Null]]
            /\ IF call[c].email = Null
               THEN NextRow(c)
               ELSE call' = [call EXCEPT ![c].pc = "raise", ![c].employee = e]
            /\ UNCHANGED collided
    /\ UNCHANGED <<Logins, request, size, torn>>

\* findLatestForEmail
Latest(p) == Max({0} \cup {i \in DOMAIN request : request[i].email = p /\ ~request[i].deleted})

MayAsk(p) ==
    LET r == request[Latest(p)]
    IN  \/ Latest(p) = 0
        \/ r.status # "pending" /\ ~(r.status = "rejected" /\ r.cooling)

Raise(c) ==
    /\ At(c, "raise")
    /\ IF MayAsk(call[c].email) THEN Goto(c, "ask") ELSE Return(c)
    /\ UNCHANGED <<employee, Logins, request, size, History>>

\* The employee may have been deleted since (a foreign key), and then the call fails.
AskFor(c) ==
    /\ At(c, "ask") /\ Len(request) < size.requests
    /\ request' = IF call[c].employee \in Existing
                  THEN Append(request, [employee |-> call[c].employee, email |-> call[c].email,
                                        role |-> call[c].role, status |-> "pending",
                                        cooling |-> FALSE, deleted |-> FALSE])
                  ELSE request
    /\ Return(c)
    /\ UNCHANGED <<employee, Logins, size, History>>

-----------------------------------------------------------------------------
(* Changing them: update and remove.  The status, which archive and invite  *)
(* set, and the fields of the profile are read by nothing here: an archived *)
(* employee counts like any other.                                         *)

\* Another code, unless it is taken.
Update(e, code) ==
    /\ e \in Existing /\ Alone
    /\ \A x \in Existing : employee[x].code # code
    /\ employee' = [employee EXCEPT ![e].code = code]
    /\ UNCHANGED <<Logins, request, call, size, History>>

\* The requests go with the row; logins and memberships stay.
Remove(e) ==
    /\ e \in Existing /\ Alone
    /\ employee' = [employee EXCEPT ![e] = Gone]
    /\ request' = [i \in DOMAIN request |->
                      [request[i] EXCEPT !.deleted = @ \/ request[i].employee = e]]
    /\ UNCHANGED <<Logins, call, size, History>>

-----------------------------------------------------------------------------
(* Deciding a request                                                      *)

Pending(i) == i \in DOMAIN request /\ ~request[i].deleted /\ request[i].status = "pending"

Approve(c, i) ==
    /\ At(c, "idle") /\ Alone /\ Pending(i)
    /\ call' = [call EXCEPT ![c] = [Idle EXCEPT
                    !.pc = "seats", !.request = i, !.employee = request[i].employee,
                    !.email = request[i].email, !.role = request[i].role]]
    /\ UNCHANGED <<employee, Logins, request, size, History>>

\* (mutant of SeatLeft: full is not yet too many)
SeatAtLimit == Cardinality(Members) <= size.seats

SeatLeft == Cardinality(Members) + 1 <= size.seats

\* Without an identity from Supabase the approval is given up.
SendInvite(c) == Goto(c, "provision") \/ Return(c)

\* (mutant of CheckSeats: the request is written as approved first)
ApproveFirst(c) ==
    /\ At(c, "seats") /\ SeatLeft
    /\ request' = [request EXCEPT ![call[c].request].status = "approved"]
    /\ Goto(c, "provision")
    /\ UNCHANGED <<employee, Logins, size, History>>

CheckSeats(c) ==
    /\ At(c, "seats")
    /\ IF SeatLeft THEN SendInvite(c) ELSE Return(c)
    /\ UNCHANGED <<employee, Logins, request, size, History>>

\* One transaction: the user, the membership (an existing one gets the role)
\* and the link, if the employee is still there.
Provision(c) ==
    LET e == call[c].employee
    IN  /\ At(c, "provision")
        /\ user' = user \cup {call[c].email}
        /\ membership' = [membership EXCEPT ![call[c].email] = call[c].role]
        /\ employee' = IF e \in Existing THEN [employee EXCEPT ![e].user = call[c].email]
                                         ELSE employee
        /\ Goto(c, "decide")
        /\ UNCHANGED <<request, size, History>>

Decide(c) ==
    /\ At(c, "decide")
    /\ request' = [request EXCEPT ![call[c].request].status = "approved"]
    /\ Return(c)
    /\ UNCHANGED <<employee, Logins, size, History>>

Reject(c, i) ==
    /\ At(c, "idle") /\ Alone /\ Pending(i)
    /\ call' = [call EXCEPT ![c] = [Idle EXCEPT !.pc = "refuse", !.request = i]]
    /\ UNCHANGED <<employee, Logins, request, size, History>>

Refuse(c) ==
    /\ At(c, "refuse")
    /\ request' = [request EXCEPT ![call[c].request].status = "rejected",
                                  ![call[c].request].cooling = TRUE]
    /\ Return(c)
    /\ UNCHANGED <<employee, Logins, size, History>>

\* 24 hours later; those who were refused first may ask again first.
CoolDown(i) ==
    /\ i \in DOMAIN request /\ request[i].cooling
    /\ \A j \in 1..(i - 1) : ~request[j].cooling
    /\ request' = [request EXCEPT ![i].cooling = FALSE]
    /\ UNCHANGED <<employee, Logins, call, size, History>>

\* A handler dies.
Crash(c) ==
    /\ call[c].pc # "idle"
    /\ torn' = torn \cup (IF At(c, "decide") THEN {call[c].email} ELSE {})
    /\ Return(c)
    /\ UNCHANGED <<employee, Logins, request, size, collided>>

-----------------------------------------------------------------------------

Next ==
    \/ \E c \in Calls :
          \/ \E n \in 1..size.batch, actor \in Askers, p \in People \cup {Null}, role \in Wanted :
                Create(c, n, actor, p, role)
          \/ \E given \in 0..size.given : TakeCode(c, given)
          \/ \E e \in Employees : Insert(c, e)
          \/ Raise(c)
          \/ AskFor(c)
          \/ \E i \in 1..size.requests : Approve(c, i) \/ Reject(c, i)
          \/ CheckSeats(c)
          \/ Provision(c)
          \/ Decide(c)
          \/ Refuse(c)
          \/ Crash(c)
    \/ \E e \in Employees : Remove(e) \/ \E code \in 1..size.given : Update(e, code)
    \/ \E i \in 1..size.requests : CoolDown(i)

Spec == Init /\ [][Next]_vars

-----------------------------------------------------------------------------
(* Properties *)

\* "Throw a PLAN_LIMIT 403 if adding delta of metric would exceed the company's
\* cap" (billing.service.ts:90): handlers that run one at a time keep the cap; at
\* once, each but one may exceed it by what it adds, and no more comes of it.
EmployeesWithinLimit ==
    Cardinality(Existing) <=
        size.limit + (IF size.serial THEN 0 ELSE (Cardinality(Calls) - 1) * size.batch)

\* "Gate at activation time" (billing.service.ts:117): the same of the active
\* members.  Who is removed or archived keeps the membership and the seat.
MembersWithinSeats ==
    Cardinality(Members) <= size.seats + (IF size.serial THEN 0 ELSE Cardinality(Calls) - 1)

\* A handler that is alone never generates a code that somebody has,
\* whoever was deleted, renumbered or given a code before.
CodesAreFree == size.serial => ~collided

\* "Enforces ... the 24h reject cooldown, and one-pending-per-email"
\* (activation-requests.service.ts:56): a request follows another of the same
\* person only once that is approved, or refused and cooled down.
OneAtATime ==
    size.serial => \A i \in DOMAIN request : \A j \in 1..(i - 1) :
        request[j].email = request[i].email /\ ~request[i].deleted /\ ~request[j].deleted
            => request[j].status # "pending" /\ ~request[j].cooling

\* What is written down as approved has happened: however handlers overlap and
\* die, the person has a user and a membership, and the employee is linked.
ApprovedIsIn ==
    \A i \in DOMAIN request :
        LET r == request[i]
        IN  r.status = "approved" =>
              /\ r.email \in user /\ membership[r.email] # Null
              /\ r.employee \in Existing => employee[r.employee].user = r.email

\* Whoever is in was approved, and is so still: an approval that is alone and
\* does not die half way leaves no member whose requests were all refused.
OnlyApprovedAreIn ==
    size.serial => \A p \in Members \ ({Founder} \cup torn) :
        \/ \E i \in DOMAIN request : request[i].email = p /\ request[i].status = "approved"
        \/ \E c \in Calls : At(c, "decide") /\ call[c].email = p
=============================================================================
