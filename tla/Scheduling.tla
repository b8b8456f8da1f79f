----------------------------- MODULE Scheduling -----------------------------
(***************************************************************************)
(* The planner of one company: SchedulingService.  Shifts are created,     *)
(* changed, assigned and published; whoever is to work one is checked      *)
(* against what else is planned, by lookups that are transactions of their *)
(* own, as is the write after them.  Callers see every store (owner, HR).  *)
(* Time is counted in hours, from the Monday of the first of two weeks.    *)
(***************************************************************************)
EXTENDS Integers, Sequences, FiniteSets, FiniteSetsExt

Seqs == INSTANCE SequencesExt

CONSTANTS
    Calls,           \* handlers that run at a time
    Employees, Stores,
    Null, Gone,      \* nobody; a shift that has been deleted
    Keep,            \* a field that a PATCH does not name
    Day, Week,       \* their hours
    MaxWeek,         \* MAX_WEEK_MINUTES
    Sizes            \* the instances that are looked at

ShiftStatus == {"draft", "assigned", "published", "approved", "cancelled", "off"}

Hour == 0..2 * Week
Shift == [store : Stores, employee : Employees \cup {Null}, starts : Hour, ends : Hour,
          break : Int, status : ShiftStatus, source : {"manual", "template"}]

\* What an UPDATE sets, Keep for what it leaves alone.
Values == [employee : Employees \cup {Null, Keep}, starts : Hour \cup {Keep}, ends : Hour \cup {Keep},
           break : Nat \cup {Keep}, status : ShiftStatus \cup {Keep}]

\* What callers send: stores, people, the spans, breaks and statuses of new shifts,
\* the fields of a PATCH, the blocks of templates (start, end, break: a pattern is not
\* validated); how many a store may hold (0: any number) and need in each hour; the
\* ranges of whole days that are asked about; who is on leave; the bound on shifts;
\* may handlers overlap?  are weeks copied?  are shifts published and approved?
Size == [stores : SUBSET Stores, people : SUBSET Employees,
         spans : SUBSET ((0..2 * Week) \X (0..2 * Week)), breaks : SUBSET Nat,
         statuses : SUBSET (ShiftStatus \cup {Keep}), patches : SUBSET Values,
         blocks : SUBSET ((0..Week) \X (0..Week) \X Int),
         capacities : SUBSET Nat, required : SUBSET [0..Week - 1 -> Nat],
         ranges : SUBSET ((0..2 * Week) \X (0..2 * Week)), away : SUBSET Employees, shifts : Nat,
         overlap : BOOLEAN, copies : BOOLEAN, publishing : BOOLEAN]

ASSUME SchedulingAssumption ==
    /\ {Day, Week, MaxWeek} \subseteq Nat \ {0} /\ Week % Day = 0
    /\ Keep # Null /\ {Null, Keep} \cap (Employees \cup ShiftStatus) = {}
    /\ Sizes \subseteq Size
    /\ \A s \in Sizes :
          /\ \A span \in s.spans : span[1] < span[2]
          /\ \A range \in s.ranges : range[1] < range[2] /\ range[1] % Day = 0 /\ range[2] % Day = 0
          /\ IsFiniteSet(s.capacities)

VARIABLES
    shift,           \* shifts, by id
    target,          \* coverage_targets of a store: by the hour of the week
    capacity,        \* stores.capacity
    call,            \* the locals of each handler
    size,            \* the instance, which never changes
    unchecked,       \* history: the shifts whose assignment was not looked at as it stands
    held             \* history: the capacities a store has had

vars == <<shift, target, capacity, call, size, unchecked, held>>

-----------------------------------------------------------------------------
(* Types *)

CallState == [pc : {"idle", "overlaps", "employee", "hours", "capacity", "concurrent",
                    "insert", "update", "paste"},
              id : 0..Len(shift),     \* 0: a new shift
              row : Shift \cup {Null},   \* as it would be, which is what is checked
              set : Values \cup {Null},
              limit : Nat,            \* the capacity that was read
              rows : Seq(Shift)]

Target == size.required \cup {[h \in 0..Week - 1 |-> 0]}

TypeOK ==
    /\ shift \in Seq(Shift \cup {Gone}) /\ Len(shift) <= size.shifts
    /\ target \in [Stores -> Target]
    /\ capacity \in [Stores -> size.capacities]
    /\ held \in [Stores -> SUBSET size.capacities] /\ \A s \in Stores : capacity[s] \in held[s]
    /\ call \in [Calls -> CallState]
    /\ size \in Sizes
    /\ unchecked \subseteq DOMAIN shift

Idle == [pc |-> "idle", id |-> 0, row |-> Null, set |-> Null, limit |-> 0, rows |-> <<>>]

Init ==
    /\ shift = <<>>
    /\ target = [s \in Stores |-> [h \in 0..Week - 1 |-> 0]]
    /\ call = [c \in Calls |-> Idle]
    /\ size \in Sizes
    /\ \E n \in size.capacities : capacity = [s \in Stores |-> n] /\ held = [s \in Stores |-> {n}]
    /\ unchecked = {}

At(c, pc) == call[c].pc = pc
MayStart(c) == At(c, "idle") /\ (size.overlap \/ \A d \in Calls : At(d, "idle"))
Return(c) == call' = [call EXCEPT ![c] = Idle]
Rest == <<target, capacity, size, held>>

There(i) == i \in DOMAIN shift /\ shift[i] # Gone
Planned == {i \in DOMAIN shift : There(i)}
Room(n) == Len(shift) + n <= size.shifts

-----------------------------------------------------------------------------
(* What is looked up                                                       *)

ACTIVE_STATUSES == {"draft", "assigned", "published", "approved"}
Committed == {i \in Planned : shift[i].status \in ACTIVE_STATUSES}

Overlap(r, s) == r.starts < s.ends /\ r.ends > s.starts
WeekOf(r) == r.starts \div Week

\* (mutant of EmployeeOverlaps: only shifts of the same store count)
OverlapsInStore(r, id) ==
    {i \in Committed \ {id} : shift[i].employee = r.employee /\ shift[i].store = r.store /\ Overlap(shift[i], r)}

EmployeeOverlaps(r, id) ==
    {i \in Committed \ {id} : shift[i].employee = r.employee /\ Overlap(shift[i], r)}

Gross(r) == Max({0, r.ends - r.starts})
DurationMinutes(r) == Max({0, r.ends - r.starts - r.break})
Hours(S) == SumFunctionOnSet([i \in S |-> DurationMinutes(shift[i])], S)

EmployeeShifts(e, week) == {i \in Committed : shift[i].employee = e /\ WeekOf(shift[i]) = week}

\* (mutant of WithinHours: what is already planned is enough to look at)
WithinHoursBefore(r, id) == Hours(EmployeeShifts(r.employee, WeekOf(r)) \ {id}) <= MaxWeek

\* The breaks of what is planned are deducted, that of the new shift is not.
WithinHours(r, id) ==
    Hours(EmployeeShifts(r.employee, WeekOf(r)) \ {id}) + Gross(r) <= MaxWeek

StoreConcurrent(r, id) ==
    {i \in Committed \ {id} : shift[i].store = r.store /\ shift[i].employee # Null /\ Overlap(shift[i], r)}

WithinCapacity(r, id, limit) == Cardinality(StoreConcurrent(r, id)) < limit

\* assertNoConflicts: one lookup after another.
Step(c, pc, ok, next) ==
    /\ At(c, pc)
    /\ IF ok THEN call' = [call EXCEPT ![c].pc = next] ELSE Return(c)
    /\ UNCHANGED <<shift, Rest, unchecked>>

CheckOverlaps(c) == Step(c, "overlaps", EmployeeOverlaps(call[c].row, call[c].id) = {}, "employee")
CheckEmployee(c) == Step(c, "employee", call[c].row.employee \notin size.away, "hours")
CheckHours(c) == Step(c, "hours", WithinHours(call[c].row, call[c].id), "capacity")

Enter(c) == IF call[c].id = 0 THEN "insert" ELSE "update"

\* storeById: the capacity is one read, who is there another.
CheckCapacity(c) ==
    LET limit == capacity[call[c].row.store]
    IN  /\ At(c, "capacity")
        /\ call' = [call EXCEPT ![c].pc = IF limit = 0 THEN Enter(c) ELSE "concurrent", ![c].limit = limit]
        /\ UNCHANGED <<shift, Rest, unchecked>>

CheckConcurrent(c) ==
    Step(c, "concurrent", WithinCapacity(call[c].row, call[c].id, call[c].limit), Enter(c))

-----------------------------------------------------------------------------
(* create, update, assign                                                  *)

Begin(c, pc, id, row, set) ==
    /\ call' = [call EXCEPT ![c] = [pc |-> pc, id |-> id, row |-> row, set |-> set, limit |-> 0, rows |-> <<>>]]
    /\ UNCHANGED <<shift, Rest, unchecked>>

Create(c, store, e, span, break, status) ==
    /\ MayStart(c) /\ Room(1)
    /\ Begin(c, IF e = Null THEN "insert" ELSE "overlaps", 0,
             [store |-> store, employee |-> e, starts |-> span[1], ends |-> span[2], break |-> break,
              source |-> "manual",
              status |-> IF status # Keep THEN status ELSE IF e = Null THEN "draft" ELSE "assigned"],
             Null)

Insert(c) ==
    /\ At(c, "insert") /\ Room(1)
    /\ shift' = Append(shift, call[c].row)
    /\ Return(c)
    /\ UNCHANGED <<Rest, unchecked>>

Patch(r, set) ==
    [r EXCEPT !.employee = IF set.employee = Keep THEN @ ELSE set.employee,
              !.starts = IF set.starts = Keep THEN @ ELSE set.starts,
              !.ends = IF set.ends = Keep THEN @ ELSE set.ends,
              !.break = IF set.break = Keep THEN @ ELSE set.break,
              !.status = IF set.status = Keep THEN @ ELSE set.status]

Ordered(r) == r.starts < r.ends

\* The employee is written back as it was read, if the call does not name one.
Update(c, i, set) ==
    LET r == Patch(shift[i], set)
    IN  /\ MayStart(c) /\ There(i)
        /\ Ordered(r)
        /\ Begin(c, IF r.employee = Null THEN "update" ELSE "overlaps", i, r,
                 [set EXCEPT !.employee = r.employee])

Assign(c, i, e) ==
    LET status == IF e = Null THEN "draft"
                  ELSE IF shift[i].status \in {"draft", "off"} THEN "assigned" ELSE shift[i].status
        set == [employee |-> e, starts |-> Keep, ends |-> Keep, break |-> Keep, status |-> status]
    IN  /\ MayStart(c) /\ There(i)
        /\ Begin(c, IF e = Null THEN "update" ELSE "overlaps", i, Patch(shift[i], set), set)

\* The row may have changed since it was read, and is not looked at again.
Write(c) ==
    LET i == call[c].id
        r == Patch(shift[i], call[c].set)
        asChecked == /\ r.starts = call[c].row.starts /\ r.ends = call[c].row.ends
                     /\ r.status \in ACTIVE_STATUSES
    IN  /\ At(c, "update")
        /\ IF There(i)
           THEN /\ shift' = [shift EXCEPT ![i] = r]
                /\ unchecked' = IF r.employee = Null \/ asChecked THEN unchecked \ {i} ELSE unchecked \cup {i}
           ELSE UNCHANGED <<shift, unchecked>>
        /\ Return(c)
        /\ UNCHANGED Rest

-----------------------------------------------------------------------------
(* approve, cancel, remove: the shift is read only to see that it is there  *)

\* Whatever it was, cancelled included, and without a check.
Approve(i) ==
    /\ size.publishing /\ There(i)
    /\ shift' = [shift EXCEPT ![i].status = "approved"]
    /\ unchecked' = IF shift[i].employee # Null /\ shift[i].status \notin ACTIVE_STATUSES
                    THEN unchecked \cup {i} ELSE unchecked
    /\ UNCHANGED <<Rest, call>>

Cancel(i) ==
    /\ There(i)
    /\ shift' = [shift EXCEPT ![i].status = "cancelled"]
    /\ UNCHANGED <<Rest, call, unchecked>>

Remove(i) ==
    /\ There(i)
    /\ shift' = [shift EXCEPT ![i] = Gone]
    /\ unchecked' = unchecked \ {i}
    /\ UNCHANGED <<Rest, call>>

-----------------------------------------------------------------------------
(* Whole weeks of a store: publish, applyTemplate, copyWeek                 *)

In(r, store, week) == r # Gone /\ r.store = store /\ WeekOf(r) = week

Publishable(r) == r.status \notin {"cancelled", "off"}

PublishRange(store, week) ==
    /\ size.publishing
    /\ shift' = [i \in DOMAIN shift |->
                    IF In(shift[i], store, week) /\ Publishable(shift[i])
                    THEN [shift[i] EXCEPT !.status = "published"] ELSE shift[i]]
    /\ UNCHANGED <<Rest, call, unchecked>>

\* A template is never changed: its blocks are drafts for nobody.  A block may end
\* before it starts, and its break is whatever the pattern has, below 0 too.
ApplyTemplate(store, week, block) ==
    /\ Room(1)
    /\ shift' = Append(shift, [store |-> store, employee |-> Null, starts |-> week * Week + block[1],
                               ends |-> week * Week + block[2], break |-> block[3], status |-> "draft",
                               source |-> "template"])
    /\ UNCHANGED <<Rest, call, unchecked>>

\* (mutant of Moved: a source of its own)
MovedAsCopy(r, by) == [r EXCEPT !.starts = @ + by, !.ends = @ + by, !.status = "draft", !.source = "copy"]

Moved(r, by) == [r EXCEPT !.starts = @ + by, !.ends = @ + by, !.status = "draft", !.source = "template"]

\* Every shift of the week, cancelled ones included, and with its employee.
CopyWeek(c, store, from, to) ==
    LET Copied(rows, r) ==
            IF In(r, store, from) THEN Append(rows, Moved(r, (to - from) * Week)) ELSE rows
        rows == Seqs!FoldLeft(Copied, <<>>, shift)
    IN  /\ size.copies
        /\ MayStart(c) /\ rows # <<>>
        /\ \A i \in DOMAIN rows : rows[i].ends \in Hour
        /\ call' = [call EXCEPT ![c] = [Idle EXCEPT !.pc = "paste", !.rows = rows]]
        /\ UNCHANGED <<shift, Rest, unchecked>>

Paste(c) ==
    LET rows == call[c].rows
    IN  /\ At(c, "paste") /\ Room(Len(rows))
        /\ shift' = shift \o rows
        /\ unchecked' = unchecked \cup {Len(shift) + i : i \in {i \in DOMAIN rows : rows[i].employee # Null}}
        /\ Return(c)
        /\ UNCHANGED Rest

-----------------------------------------------------------------------------
(* Coverage *)

\* One transaction: all of a store's targets are replaced.
SetTargets(store, required) ==
    /\ target' = [target EXCEPT ![store] = required]
    /\ UNCHANGED <<shift, capacity, call, size, unchecked, held>>

\* StoresService.update: what is planned is not looked at.
SetCapacity(store, n) ==
    /\ capacity' = [capacity EXCEPT ![store] = n]
    /\ held' = [held EXCEPT ![store] = @ \cup {n}]
    /\ UNCHANGED <<shift, target, call, size, unchecked>>

COUNTED == {"assigned", "published", "approved"}

\* The shifts that count, whoever is to work them, if anybody: those that start in
\* the range that is asked about.
Scheduled(store, from, to, h) ==
    Cardinality({i \in Planned : /\ shift[i].store = store
                                 /\ from <= shift[i].starts /\ shift[i].starts < to
                                 /\ shift[i].status \in COUNTED
                                 /\ shift[i].starts < h + 1 /\ shift[i].ends > h})

Deficit(store, from, to, h) == target[store][h % Week] - Scheduled(store, from, to, h)

\* (mutant of Extends: a run does not end with the day)
ExtendsOverMidnight(run, h, deficit) == run.deficit = deficit /\ run.to = h

\* A suggestion is a range of hours in which a number of people is missing: the
\* run that is open is the last one, and a cell extends it or opens another.
Extends(run, h, deficit) == /\ run.deficit = deficit /\ run.to = h
                            /\ run.from \div Day = h \div Day

Suggestions(store, from, to) ==
    LET Next1(runs, h) ==
            LET d == Deficit(store, from, to, h)
                n == Len(runs)
            IN  IF d <= 0 THEN runs
                ELSE IF n > 0 /\ Extends(runs[n], h, d) THEN [runs EXCEPT ![n].to = h + 1]
                ELSE Append(runs, [from |-> h, to |-> h + 1, deficit |-> d])
    IN  Seqs!FoldLeft(Next1, <<>>, [k \in 1..(to - from) |-> from + k - 1])

-----------------------------------------------------------------------------

Next ==
    \/ \E c \in Calls :
          \/ \E store \in size.stores, e \in size.people \cup {Null}, span \in size.spans,
                break \in size.breaks, status \in size.statuses :
                Create(c, store, e, span, break, status)
          \/ \E i \in DOMAIN shift, set \in size.patches : Update(c, i, set)
          \/ \E i \in DOMAIN shift, e \in size.people \cup {Null} : Assign(c, i, e)
          \/ CheckOverlaps(c)
          \/ CheckEmployee(c)
          \/ CheckHours(c)
          \/ CheckCapacity(c)
          \/ CheckConcurrent(c)
          \/ Insert(c)
          \/ Write(c)
          \/ \E store \in size.stores, from, to \in 0..1 : CopyWeek(c, store, from, to)
          \/ Paste(c)
    \/ \E i \in DOMAIN shift : Approve(i) \/ Cancel(i) \/ Remove(i)
    \/ \E store \in size.stores, week \in 0..1 :
          \/ PublishRange(store, week)
          \/ \E block \in size.blocks : ApplyTemplate(store, week, block)
    \/ \E store \in size.stores :
          \/ \E required \in size.required : SetTargets(store, required)
          \/ \E n \in size.capacities : SetCapacity(store, n)

Spec == Init /\ [][Next]_vars

-----------------------------------------------------------------------------
(* Properties *)

Covers(r, h) == r.starts <= h /\ h < r.ends
Checked == Committed \ unchecked
AtOnce == IF size.overlap THEN Cardinality(Calls) - 1 ELSE 0

\* "Enforces double-booking ... guards" (scheduling.service.ts:103): nobody is
\* planned twice for an hour, unless by copying a week or approving a shift that
\* was cancelled; of handlers at once, each but one may add a booking, and no more
\* comes of it.
NoDoubleBooking ==
    \A e \in Employees, h \in Hour :
        Cardinality({i \in Checked : shift[i].employee = e /\ Covers(shift[i], h)}) <= 1 + AtOnce

\* What a shift adds to the hours of its week: a break below 0, which a template may
\* have, adds nothing (what the code counts, DurationMinutes, it lengthens).
Worked(r) == Min({Gross(r), DurationMinutes(r)})
WorkedHours(S) == SumFunctionOnSet([i \in S |-> Worked(shift[i])], S)

\* "over-hours" (scheduling.service.ts:103): nor for more hours of a week than the
\* limit, breaks deducted, by handlers that run one at a time.
WithinWeeklyHours ==
    ~size.overlap => \A e \in Employees, week \in 0..1 :
        WorkedHours(EmployeeShifts(e, week) \ unchecked) <= MaxWeek

\* "store-capacity" (scheduling.service.ts:103): at no hour does a store hold more
\* people than it ever could, whenever its capacity is lowered or raised; at once,
\* each handler but one may add one.
StoresNotFull ==
    \A store \in Stores, h \in Hour :
        0 \notin held[store] =>
            Cardinality({i \in Checked : /\ shift[i].store = store /\ shift[i].employee # Null
                                         /\ Covers(shift[i], h)}) <= Max(held[store]) + AtOnce

\* "End must be after start" (scheduling.service.ts:193): so it is of every shift
\* unless it comes from a template's block, where handlers run one at a time.
EndsAfterStart ==
    ~size.overlap => \A i \in Planned : shift[i].starts < shift[i].ends \/ shift[i].source = "template"

\* Nobody is booked twice; the weekly limit, the capacity of stores, the order of times.
ShiftsFit == NoDoubleBooking /\ WithinWeeklyHours /\ StoresNotFull /\ EndsAfterStart

OnDuty(store, h) ==
    {i \in Planned : shift[i].store = store /\ shift[i].status \in COUNTED /\ Covers(shift[i], h)}

\* Their shifts began before the range, and are not looked at.
Unseen(store, from, h) == {i \in OnDuty(store, h) : shift[i].starts < from}

\* How many the suggestions should ask for: who is missing, and who is not seen.
Missing(store, from, h) ==
    target[store][h % Week] - Cardinality(OnDuty(store, h)) + Cardinality(Unseen(store, from, h))

\* "Rules-first staffing suggestions from coverage gaps (merged into ranges)"
\* (scheduling.service.ts:356): whatever is planned and required, in every hour of
\* the days that are asked about the suggestions add who is missing, and whoever is
\* still there from the night before; each lies within a day, and none could be longer.
SuggestionsFillGaps ==
    \A store \in Stores : \A range \in size.ranges :
        LET runs == Suggestions(store, range[1], range[2])
            At1(h) == {i \in DOMAIN runs : runs[i].from <= h /\ h < runs[i].to}
        IN  /\ \A h \in range[1]..range[2] - 1 :
                  IF Missing(store, range[1], h) <= 0 THEN At1(h) = {}
                  ELSE \E i \in At1(h) : At1(h) = {i} /\ runs[i].deficit = Missing(store, range[1], h)
            /\ \A i \in DOMAIN runs : runs[i].from \div Day = (runs[i].to - 1) \div Day
            /\ \A i, j \in DOMAIN runs :
                  runs[i].to = runs[j].from /\ runs[i].deficit = runs[j].deficit => runs[j].from % Day = 0
=============================================================================
