----------------------------- MODULE Onboarding -----------------------------
(***************************************************************************)
(* Onboarding checklists: OnboardingService over its repository.  Tasks    *)
(* are in groups; assigning them lists the tasks, looks up who has which,  *)
(* and inserts what is missing, in three transactions, while tasks and     *)
(* groups are deleted and what was assigned goes with them.  A drag and    *)
(* drop moves its tasks one by one in one transaction, which holds each    *)
(* row it has written until it commits.                                    *)
(***************************************************************************)
EXTENDS Naturals, FiniteSets, SequencesExt

CONSTANTS
    Calls,           \* handlers that run at a time
    Employees, Groups,
    Tasks,           \* ids of tasks that get to be inserted
    Null, Gone,      \* no row yet, a row that has been deleted
    MaxCopies,       \* bound on the times one task is assigned to one person
    TaskLimits,      \* at how many rows the list of tasks may be cut (1000 in the code)
    Doing,           \* what is done with the tasks: "assign", "drop"
    Overlap          \* may handlers overlap?  a set of BOOLEANs

\* Where a task is, and of which tasks the drop was that put it there.
Task == [group : Groups, place : 0..Cardinality(Tasks), drop : SUBSET Tasks]

OnboardingAssumption ==
    /\ Null # Gone /\ {Null, Gone} \cap (Tasks \cup Groups) = {} /\ {Null, Gone} \cap Task = {}
    /\ MaxCopies \in Nat /\ TaskLimits \subseteq Nat
    /\ Doing \subseteq {"assign", "drop"} /\ Overlap \subseteq BOOLEAN

VARIABLES
    group,           \* task_groups: those there are
    task,            \* tasks
    copies,          \* onboarding_assignments: how many a person has of a task
    call,            \* the locals of each handler
    overlap,         \* may handlers overlap?  never changes
    promised,        \* history: who was assigned what by a call that succeeded, and
    repeated         \* without onlyMissing or named twice, of the tasks that are there

vars == <<group, task, copies, call, overlap, promised, repeated>>

Pairs == Employees \X Tasks

CallState == [pc : {"idle", "pairs", "insert", "drop"}, employees : SUBSET Employees,
              twice : SUBSET Employees, tasks : SUBSET Tasks, onlyMissing : BOOLEAN, existing : SUBSET Pairs,
              group : Groups \cup {Null}, items : Seq(Tasks), moved : 0..Cardinality(Tasks)]

TypeOK ==
    /\ group \subseteq Groups
    /\ task \in [Tasks -> Task \cup {Null, Gone}]
    /\ copies \in [Pairs -> 0..MaxCopies]
    /\ call \in [Calls -> CallState]
    /\ overlap \in Overlap
    /\ promised \subseteq Pairs /\ repeated \subseteq Pairs

Idle == [pc |-> "idle", employees |-> {}, twice |-> {}, tasks |-> {}, onlyMissing |-> FALSE,
         existing |-> {}, group |-> Null, items |-> <<>>, moved |-> 0]

Init ==
    /\ group = {}
    /\ task = [t \in Tasks |-> Null]
    /\ copies = [x \in Pairs |-> 0]
    /\ call = [c \in Calls |-> Idle]
    /\ overlap \in Overlap
    /\ promised = {} /\ repeated = {}

At(c, pc) == call[c].pc = pc
MayStart(c, what) == what \in Doing /\ At(c, "idle") /\ (overlap \/ \A d \in Calls : At(d, "idle"))
Return(c) == call' = [call EXCEPT ![c] = Idle]

Exists(t) == task[t] \notin {Null, Gone}
Present == {t \in Tasks : Exists(t)}

\* The rows that a drop has written, and the group they are dropped in, are locked.
Written(c) == {call[c].items[i] : i \in 1..call[c].moved}
Locked == UNION {Written(c) : c \in Calls}
Referenced == {call[c].group : c \in {d \in Calls : call[d].moved > 0}}

-----------------------------------------------------------------------------
(* The template *)

\* An id that nothing refers to any more stands for another group.
CreateGroup(g) ==
    /\ g \notin group /\ \A c \in Calls : call[c].group # g
    /\ group' = group \cup {g}
    /\ UNCHANGED <<task, copies, call, overlap, promised, repeated>>

CreateTask(t, g) ==
    /\ task[t] = Null /\ t = CHOOSE x \in Tasks : task[x] = Null
    /\ g \in group
    /\ task' = [task EXCEPT ![t] = [group |-> g, place |-> 0, drop |-> {}]]
    /\ UNCHANGED <<group, copies, call, overlap, promised, repeated>>

\* What is assigned of a task goes with it.
Delete(gone) ==
    /\ task' = [t \in Tasks |-> IF t \in gone THEN Gone ELSE task[t]]
    /\ copies' = [x \in Pairs |-> IF x[2] \in gone THEN 0 ELSE copies[x]]
    /\ promised' = {x \in promised : x[2] \notin gone}
    /\ repeated' = {x \in repeated : x[2] \notin gone}
    /\ UNCHANGED <<call, overlap>>

DeleteTask(t) ==
    /\ t \in Present \ Locked
    /\ Delete({t})
    /\ UNCHANGED group

DeleteGroup(g) ==
    LET inside == {t \in Present : task[t].group = g}
    IN  /\ g \in group \ Referenced
        /\ inside \cap Locked = {}
        /\ group' = group \ {g}
        /\ Delete(inside)

-----------------------------------------------------------------------------
(* Reordering: the client shows the tasks that it drops *)

ReorderTasks(c, items, g) ==
    /\ MayStart(c, "drop")
    /\ call' = [call EXCEPT ![c] = [Idle EXCEPT !.pc = "drop", !.items = items, !.group = g]]
    /\ UNCHANGED <<group, task, copies, overlap, promised, repeated>>

MayWrite(c, t) == \A d \in Calls \ {c} : t \notin Written(d)

\* (mutant of TakesEffect: each update is committed by itself)
EachAlone(c) == {call[c].items[call[c].moved + 1]}

\* With the last update the transaction commits.
TakesEffect(c) == IF call[c].moved + 1 = Len(call[c].items) THEN ToSet(call[c].items) ELSE {}

\* A task that has been deleted is passed over.
MoveNext(c) ==
    LET items == call[c].items
        next == call[c].moved + 1
    IN  /\ At(c, "drop")
        /\ call[c].group \in group
        /\ MayWrite(c, items[next])
        /\ task' = [t \in Tasks |->
                       IF t \in TakesEffect(c) /\ Exists(t)
                       THEN [group |-> call[c].group, drop |-> ToSet(items),
                             place |-> CHOOSE i \in DOMAIN items : items[i] = t]
                       ELSE task[t]]
        /\ IF next = Len(items) THEN Return(c) ELSE call' = [call EXCEPT ![c].moved = next]
        /\ UNCHANGED <<group, copies, overlap, promised, repeated>>

-----------------------------------------------------------------------------
(* assign *)

\* What a query with a limit and no order may list of the tasks.
Listings ==
    {L \in SUBSET Present :
        \E n \in TaskLimits : Cardinality(L) <= n /\ (L = Present \/ Cardinality(L) = n)}

\* No tasks picked: all that are listed.  Nothing asks the list of employees not to
\* name somebody twice.
ListTasks(c, employees, twice, picked, listed, onlyMissing) ==
    /\ MayStart(c, "assign")
    /\ call' = [call EXCEPT ![c] =
                  [Idle EXCEPT !.pc = IF onlyMissing THEN "pairs" ELSE "insert",
                               !.employees = employees, !.twice = twice, !.onlyMissing = onlyMissing,
                               !.tasks = IF picked = {} THEN listed ELSE listed \cap picked]]
    /\ UNCHANGED <<group, task, copies, overlap, promised, repeated>>

ToAssign(c) == call[c].employees \X call[c].tasks

\* Of the pairs of these employees, those that the loop looks up.
ExistingPairs(c) ==
    /\ At(c, "pairs")
    /\ call' = [call EXCEPT ![c].pc = "insert", ![c].existing = {x \in ToAssign(c) : copies[x] > 0}]
    /\ UNCHANGED <<group, task, copies, overlap, promised, repeated>>

\* (mutant of Missing: who else has the task does not count)
MissingToAll(c) == {x \in ToAssign(c) : \A y \in call[c].existing : y[2] # x[2]}

Missing(c) == ToAssign(c) \ call[c].existing

\* A row for each time the list names the employee.
Times(c, x) == IF x[1] \in call[c].twice THEN 2 ELSE 1

\* One statement: a task that is gone fails it, and so the rows of the others.
InsertAssignments(c) ==
    LET rows == Missing(c)
    IN  /\ At(c, "insert")
        /\ \A x \in rows : Exists(x[2]) /\ copies[x] + Times(c, x) <= MaxCopies
        /\ copies' = [x \in Pairs |-> IF x \in rows THEN copies[x] + Times(c, x) ELSE copies[x]]
        /\ promised' = promised \cup {x \in ToAssign(c) : Exists(x[2])}
        /\ repeated' = repeated \cup {x \in rows : Times(c, x) = 2 \/ ~call[c].onlyMissing}
        /\ Return(c)
        /\ UNCHANGED <<group, task, overlap>>

\* A row that is gone, a lock that two wait for, a process that dies: what the
\* transaction has written is undone.
Fail(c) ==
    /\ ~At(c, "idle")
    /\ Return(c)
    /\ UNCHANGED <<group, task, copies, overlap, promised, repeated>>

-----------------------------------------------------------------------------

Next ==
    \/ \E t \in Tasks : DeleteTask(t) \/ \E g \in Groups : CreateTask(t, g)
    \/ \E g \in Groups : CreateGroup(g) \/ DeleteGroup(g)
    \/ \E c \in Calls :
          \/ \E shown \in (SUBSET Present) \ {{}}, g \in group :
                \E items \in SetToSeqs(shown) : ReorderTasks(c, items, g)
          \/ MoveNext(c)
          \/ \E employees \in (SUBSET Employees) \ {{}}, picked \in SUBSET Tasks, listed \in Listings :
                \E twice \in SUBSET employees, onlyMissing \in BOOLEAN :
                   ListTasks(c, employees, twice, picked, listed, onlyMissing)
          \/ ExistingPairs(c)
          \/ InsertAssignments(c)
          \/ Fail(c)

Spec == Init /\ [][Next]_vars

-----------------------------------------------------------------------------
(* Properties *)

\* An assignment that answered gave every one of its employees every task it was
\* for, of those that it listed, as long as the task is there, whatever ran at once and
\* although it inserts only what it saw missing (onboarding.service.ts:81).
AssignedIsThere == \A x \in promised : copies[x] >= 1

\* "Only create rows that don't already exist (assign-missing)"
\* (onboarding.dto.ts:41): where handlers do not overlap nobody has a task twice,
\* unless by a call that did not ask for this, or whose list named the person twice
\* (onboarding.dto.ts:38), which the look-up of what exists does not see.
NothingTwice == ~overlap => \A x \in Pairs : copies[x] > 1 => x \in repeated

\* A drop is applied whole: of tasks last put in place by drops of the same tasks
\* no two are in one place, however drops overlap, wait for each other or fail
\* half-way (onboarding.repository.ts:92).
DropsAreWhole ==
    \A t, u \in Present :
        t # u /\ task[t].drop = task[u].drop /\ task[t].drop # {} =>
            task[t].place # task[u].place
=============================================================================
