-------------------------- MODULE SchedulingProofs --------------------------
(***************************************************************************)
(* For any number of handlers, people, stores, shifts and targets, days    *)
(* and weeks of any length: the types, whom the checks of one handler and  *)
(* of several at once let be planned, however a store's capacity changes,  *)
(* and the suggestions that fill the gaps in the days they are asked for.  *)
(***************************************************************************)
EXTENDS Scheduling, SequenceTheorems, FiniteSetTheorems, WellFoundedInduction, TLAPS

-----------------------------------------------------------------------------
\* Induction, for what can be said of the members of a set.
LEMMA CountUp ==
    ASSUME NEW n \in Nat, NEW G, 0 \in G, \A k \in 1..n : k - 1 \in G => k \in G
    PROVE  \A k \in 0..n : k \in G
<1> DEFINE Bad == {k \in 0..n : k \notin G}
<1>1. ASSUME Bad # {} PROVE FALSE
  <2>1. Bad \subseteq Nat
    OBVIOUS
  <2>2. PICK k \in Bad : \A m \in Bad : ~ (<<m, k>> \in OpToRel(<, Nat))
    <3> HIDE DEF Bad
    <3>1. QED
      BY <1>1, <2>1, WFMin, NatLessThanWellFounded
  <2>3. \A m \in Bad : ~ (m < k)
    BY <2>1, <2>2 DEF OpToRel
  <2>4. k # 0 /\ k \in 1..n /\ k - 1 \in 0..n /\ k - 1 < k
    OBVIOUS
  <2>5. QED
    BY <2>3, <2>4
<1>2. QED
  BY <1>1

(* Folds.  F is what a fold has made of each set of positions up to n, step *)
(* N[i] being what position i does to what came of those before.            *)

Folds(F, n, base, N) ==
    F = [s \in SUBSET (1..n) |-> IF s = {} THEN base ELSE N[Max(s)][F[s \ {Max(s)}]]]

LEMMA LastOf ==
    ASSUME NEW n \in Nat, NEW s \in SUBSET (1..n), n \in s
    PROVE  Max(s) = n
<1>1. n \in s /\ \A y \in s : n >= y
  OBVIOUS
<1>2. PICK x : x = CHOOSE z \in s : \A y \in s : z >= y
  OBVIOUS
<1>3. x \in s /\ \A y \in s : x >= y
  BY <1>1, <1>2
<1>4. x = n
  BY <1>1, <1>3
<1>5. QED
  BY <1>2, <1>4 DEF Max

LEMMA FoldExists ==
    ASSUME NEW n \in Nat, NEW X, NEW base \in X, NEW N \in [1..n -> [X -> X]]
    PROVE  /\ \E F : F \in [SUBSET (1..n) -> X] /\ Folds(F, n, base, N)
           /\ \A s \in SUBSET (1..n) : s # {} => Max(s) \in s
<1> DEFINE Good(k) == /\ \E F : F \in [SUBSET (1..k) -> X] /\ Folds(F, k, base, N)
                      /\ \A s \in SUBSET (1..k) : s # {} => Max(s) \in s
           G == {k \in 0..n : Good(k)}
<1>1. 0 \in G
  <2>1. SUBSET (1..0) = {{}}
    OBVIOUS
  <2> DEFINE F == [s \in SUBSET (1..0) |-> base]
  <2>2. F \in [SUBSET (1..0) -> X] /\ Folds(F, 0, base, N)
    BY <2>1 DEF Folds
  <2>3. \E E : E \in [SUBSET (1..0) -> X] /\ Folds(E, 0, base, N)
    <3> HIDE DEF F
    <3>1. QED
      BY <2>2
  <2>4. \A s \in SUBSET (1..0) : s # {} => Max(s) \in s
    BY <2>1
  <2>5. Good(0)
    BY <2>3, <2>4, Zenon
  <2>6. 0 \in 0..n
    OBVIOUS
  <2> HIDE DEF Good
  <2>7. QED
    BY <2>5, <2>6
<1>2. ASSUME NEW k \in 1..n, k - 1 \in G PROVE k \in G
  <2>0. k \in 0..n /\ k \in Nat /\ k - 1 \in Nat
    OBVIOUS
  <2>1. Good(k - 1)
    BY <1>2
  <2>2. PICK F : F \in [SUBSET (1..k - 1) -> X] /\ Folds(F, k - 1, base, N)
    BY <2>1
  <2> DEFINE H == [s \in SUBSET (1..k) |-> IF k \in s THEN N[k][F[s \ {k}]] ELSE F[s]]
  <2>3. \A s \in SUBSET (1..k) :
           /\ s \ {k} \in SUBSET (1..k - 1)
           /\ k \notin s => s \in SUBSET (1..k - 1)
    BY <2>0
  <2>4. ASSUME NEW s \in SUBSET (1..k) PROVE s # {} => Max(s) \in s
    <3>1. CASE k \in s
      BY <2>0, <3>1, LastOf
    <3>2. CASE k \notin s
      BY <2>1, <2>3, <3>2
    <3>3. QED
      BY <3>1, <3>2
  <2>5. H \in [SUBSET (1..k) -> X]
    <3>1. N[k] \in [X -> X]
      BY <2>0
    <3>2. QED
      BY <2>2, <2>3, <3>1
  <2>6. ASSUME NEW s \in SUBSET (1..k)
        PROVE  H[s] = IF s = {} THEN base ELSE N[Max(s)][H[s \ {Max(s)}]]
    <3>1. CASE k \in s
      <4>1. Max(s) = k /\ s # {}
        BY <2>0, <3>1, LastOf
      <4>2. H[s \ {k}] = F[s \ {k}]
        BY <2>3
      <4>3. QED
        BY <3>1, <4>1, <4>2
    <3>2. CASE k \notin s
      <4>1. F[s] = IF s = {} THEN base ELSE N[Max(s)][F[s \ {Max(s)}]]
        BY <2>2, <2>3, <3>2 DEF Folds
      <4>2. H[s] = F[s] /\ s \ {Max(s)} \in SUBSET (1..k) /\ H[s \ {Max(s)}] = F[s \ {Max(s)}]
        BY <3>2
      <4>3. QED
        BY <4>1, <4>2
    <3>3. QED
      BY <3>1, <3>2
  <2> HIDE DEF H
  <2>7. Folds(H, k, base, N)
    <3>1. H = [s \in SUBSET (1..k) |-> H[s]]
      BY <2>5
    <3>2. QED
      BY <2>6, <3>1 DEF Folds
  <2>8. QED
    BY <2>4, <2>5, <2>7
<1> HIDE DEF G
<1>3. n \in G
  <2>1. n \in 0..n
    OBVIOUS
  <2>2. QED
    BY <1>1, <1>2, <2>1, CountUp
<1>4. QED
  BY <1>3 DEF G

\* A fold takes the positions in their order.
LEMMA InOrder ==
    ASSUME NEW n \in Nat, NEW k \in 1..n
    PROVE  1..k \in SUBSET (1..n) /\ 1..k # {} /\ Max(1..k) = k /\ (1..k) \ {k} = 1..k - 1
<1>1. 1..k \in SUBSET (1..n) /\ 1..k # {} /\ k \in Nat /\ k \in 1..k
  OBVIOUS
<1>2. Max(1..k) = k
  BY <1>1, LastOf
<1>3. (1..k) \ {k} = 1..k - 1
  OBVIOUS
<1>4. QED
  BY <1>1, <1>2, <1>3

-----------------------------------------------------------------------------
(* Types, and what a handler knows. *)

Working == {"overlaps", "employee", "hours", "capacity", "concurrent", "insert", "update"}

\* What a handler with the locals p relies on: a shift's store never changes.
Knows(p) ==
    /\ p.pc \in Working => p.row \in Shift
    /\ p.pc = "insert" => p.id = 0
    /\ p.pc = "update" => p.id # 0
    /\ p.pc \in Working /\ p.id # 0 =>
          /\ p.set \in Values /\ p.set.employee = p.row.employee
          /\ There(p.id) => shift[p.id].store = p.row.store
    /\ p.pc = "concurrent" => p.limit \in held[p.row.store]
    /\ p.pc = "paste" => \A k \in DOMAIN p.rows : p.rows[k].source = "template"

Known == \A c \in Calls : Knows(call[c])
Typed == TypeOK /\ Known

\* What no step undoes.
RowsLast ==
    /\ Len(shift) <= Len(shift')
    /\ \A i \in DOMAIN shift : shift'[i] # Gone =>
          shift[i] # Gone /\ shift'[i].store = shift[i].store
HeldLasts == \A s \in Stores : held[s] \subseteq held'[s]

LEMMA SizeTypes ==
    ASSUME TypeOK
    PROVE  /\ size.stores \subseteq Stores /\ size.people \subseteq Employees
           /\ size.spans \subseteq (0..2 * Week) \X (0..2 * Week) /\ size.breaks \subseteq Nat
           /\ size.capacities \subseteq Nat /\ IsFiniteSet(size.capacities)
           /\ size.ranges \subseteq (0..2 * Week) \X (0..2 * Week)
           /\ \A range \in size.ranges : range[1] < range[2] /\ range[1] % Day = 0 /\ range[2] % Day = 0
           /\ size.statuses \subseteq ShiftStatus \cup {Keep} /\ size.patches \subseteq Values
           /\ size.blocks \subseteq (0..Week) \X (0..Week) \X Int
           /\ size.required \subseteq [0..Week - 1 -> Nat] /\ size.shifts \in Nat
           /\ \A span \in size.spans : span[1] < span[2]
           /\ size.overlap \in BOOLEAN
           /\ Week \in Nat \ {0} /\ Day \in Nat \ {0} /\ MaxWeek \in Nat
<1>1. /\ size \in Size /\ \A span \in size.spans : span[1] < span[2]
      /\ IsFiniteSet(size.capacities)
      /\ \A range \in size.ranges : range[1] < range[2] /\ range[1] % Day = 0 /\ range[2] % Day = 0
  BY SchedulingAssumption DEF TypeOK, SchedulingAssumption
<1>2. QED
  BY <1>1, SchedulingAssumption DEF Size, SchedulingAssumption

LEMMA ShiftTypes ==
    ASSUME TypeOK
    PROVE  /\ Len(shift) \in Nat /\ DOMAIN shift = 1..Len(shift)
           /\ \A i \in DOMAIN shift : shift[i] \in Shift \cup {Gone}
           /\ \A i \in DOMAIN shift : There(i) => shift[i] \in Shift
  BY DEF TypeOK, There

LEMMA PatchTyped ==
    ASSUME NEW r \in Shift, NEW set \in Values
    PROVE  /\ Patch(r, set) \in Shift
           /\ Patch(r, set).store = r.store /\ Patch(r, set).source = r.source
           /\ set.employee # Keep => Patch(r, set).employee = set.employee
           /\ Patch(r, set).starts = IF set.starts = Keep THEN r.starts ELSE set.starts
           /\ Patch(r, set).ends = IF set.ends = Keep THEN r.ends ELSE set.ends
<1>1. PICK e, s, n, b, t :
         /\ e = IF set.employee = Keep THEN r.employee ELSE set.employee
         /\ s = IF set.starts = Keep THEN r.starts ELSE set.starts
         /\ n = IF set.ends = Keep THEN r.ends ELSE set.ends
         /\ b = IF set.break = Keep THEN r.break ELSE set.break
         /\ t = IF set.status = Keep THEN r.status ELSE set.status
  OBVIOUS
<1>2. e \in Employees \cup {Null} /\ s \in Hour /\ n \in Hour /\ b \in Int /\ t \in ShiftStatus
  BY <1>1 DEF Shift, Values
<1>3. Patch(r, set) =
        [r EXCEPT !.employee = e, !.starts = s, !.ends = n, !.break = b, !.status = t]
  BY <1>1 DEF Patch
<1>4. QED
  BY <1>1, <1>2, <1>3 DEF Shift

\* Rows are added, and a handler's locals keep their type and what they know.
LEMMA KnowsLasts ==
    ASSUME TypeOK, RowsLast, HeldLasts, Len(shift') \in Nat, NEW p \in CallState, Knows(p)
    PROVE  p \in CallState' /\ Knows(p)'
<1>1. p.id \in 0..Len(shift) /\ Len(shift) \in Nat /\ Len(shift) <= Len(shift')
  BY DEF TypeOK, CallState, RowsLast
<1>2. p \in CallState'
  BY <1>1 DEF CallState
<1>3. p.id # 0 => p.id \in DOMAIN shift
  BY <1>1, ShiftTypes
<1>4. ASSUME p.id # 0, There(p.id)' PROVE There(p.id) /\ shift'[p.id].store = shift[p.id].store
  BY <1>3, <1>4 DEF There, RowsLast
<1>5. p.pc = "concurrent" => p.limit \in held'[p.row.store]
  <2>1. p.pc = "concurrent" => p.row.store \in Stores /\ p.limit \in held[p.row.store]
    BY DEF Knows, Working, Shift
  <2>2. QED
    BY <2>1 DEF HeldLasts
<1>6. Knows(p)'
  BY <1>4, <1>5 DEF Knows
<1>7. QED
  BY <1>2, <1>6

LEMMA CallKnows ==
    ASSUME Typed, RowsLast, HeldLasts, Len(shift') \in Nat, NEW c \in Calls, NEW q, q \in CallState', Knows(q)',
           call' = [call EXCEPT ![c] = q]
    PROVE  call' \in [Calls -> CallState'] /\ Known'
<1>1. ASSUME NEW d \in Calls PROVE call'[d] \in CallState' /\ Knows(call[d])'
  <2>1. CASE d = c
    <3>1. call'[d] = q
      BY <2>1 DEF Typed, TypeOK
    <3>2. QED
      BY <3>1 DEF Knows, There
  <2>2. CASE d # c
    <3>1. PICK p : p = call[d]
      OBVIOUS
    <3>2. call'[d] = p
      BY <2>2, <3>1 DEF Typed, TypeOK
    <3>3. p \in CallState /\ Knows(p)
      BY <3>1 DEF Typed, TypeOK, Known
    <3>4. p \in CallState' /\ Knows(p)'
      BY <3>3, KnowsLasts DEF Typed
    <3>5. QED
      BY <3>2, <3>4 DEF Knows, There
  <2>3. QED
    BY <2>1, <2>2
<1>2. call' \in [Calls -> CallState']
  <2>1. DOMAIN call' = Calls /\ call' = [d \in Calls |-> call'[d]]
    BY DEF Typed, TypeOK
  <2>2. QED
    BY <1>1, <2>1
<1>3. Known'
  BY <1>1 DEF Known
<1>4. QED
  BY <1>2, <1>3

LEMMA CallsStay ==
    ASSUME Typed, RowsLast, HeldLasts, Len(shift') \in Nat, UNCHANGED call
    PROVE  call' \in [Calls -> CallState'] /\ Known'
<1>1. ASSUME NEW d \in Calls PROVE call'[d] \in CallState' /\ Knows(call[d])'
  <2>1. PICK p : p = call[d]
    OBVIOUS
  <2>2. call'[d] = p /\ p \in CallState /\ Knows(p)
    BY <2>1 DEF Typed, TypeOK, Known
  <2>3. p \in CallState' /\ Knows(p)'
    BY <2>2, KnowsLasts DEF Typed
  <2>4. QED
    BY <2>2, <2>3 DEF Knows, There
<1>2. DOMAIN call' = Calls /\ call' = [d \in Calls |-> call'[d]]
  BY DEF Typed, TypeOK
<1>3. QED
  BY <1>1, <1>2 DEF Known

LEMMA IdleKnows ==
    ASSUME Len(shift') \in Nat
    PROVE  Idle \in CallState' /\ Knows(Idle)'
<1>1. <<>> \in Seq(Shift) /\ 0 \in 0..Len(shift')
  OBVIOUS
<1>2. QED
  BY <1>1 DEF Idle, CallState, Knows, Working

LEMMA SameRowsLast ==
    ASSUME TypeOK, UNCHANGED shift
    PROVE  RowsLast /\ Len(shift') \in Nat
  BY ShiftTypes DEF RowsLast

\* A step that ends a handler, or takes it to another lookup, keeps the types.
LEMMA ReturnTyped ==
    ASSUME Typed, NEW c \in Calls, Return(c), UNCHANGED <<shift, Rest, unchecked>>
    PROVE  Typed'
<1>1. RowsLast /\ HeldLasts /\ Len(shift') \in Nat
  BY SameRowsLast DEF Typed, Rest, HeldLasts
<1>2. Idle \in CallState' /\ Knows(Idle)'
  BY <1>1, IdleKnows
<1>3. PICK q : q = Idle
  OBVIOUS
<1>4. call' \in [Calls -> CallState'] /\ Known'
  BY <1>1, <1>2, <1>3, CallKnows DEF Return
<1>5. QED
  BY <1>4 DEF Typed, TypeOK, Rest, Target, HeldLasts

LEMMA BeginTyped ==
    ASSUME Typed, NEW c \in Calls, NEW q, q \in CallState, Knows(q),
           call' = [call EXCEPT ![c] = q], UNCHANGED <<shift, Rest, unchecked>>
    PROVE  Typed'
<1>1. RowsLast /\ HeldLasts /\ Len(shift') \in Nat
  BY SameRowsLast DEF Typed, Rest, HeldLasts
<1>2. q \in CallState' /\ Knows(q)'
  BY <1>1, KnowsLasts DEF Typed
<1>3. call' \in [Calls -> CallState'] /\ Known'
  BY <1>1, <1>2, CallKnows
<1>4. QED
  BY <1>3 DEF Typed, TypeOK, Rest, Target

LEMMA StepTyped ==
    ASSUME Typed, NEW c \in Calls,
           \/ CheckOverlaps(c) \/ CheckEmployee(c) \/ CheckHours(c)
           \/ CheckCapacity(c) \/ CheckConcurrent(c)
    PROVE  Typed'
<1>1. PICK p : p = call[c]
  OBVIOUS
<1>2. p \in CallState /\ Knows(p)
  BY <1>1 DEF Typed, TypeOK, Known
<1>3. ASSUME NEW pc, pc \in Working \ {"concurrent"}, pc = "insert" => p.id = 0, pc = "update" => p.id # 0,
             p.pc \in Working, call' = [call EXCEPT ![c].pc = pc], UNCHANGED <<shift, Rest, unchecked>>
      PROVE  Typed'
  <2>1. PICK q : q = [p EXCEPT !.pc = pc]
    OBVIOUS
  <2>2. q \in CallState /\ Knows(q)
    BY <1>2, <1>3, <2>1 DEF CallState, Knows, Working
  <2>3. call' = [call EXCEPT ![c] = q]
    BY <1>1, <1>3, <2>1 DEF Typed, TypeOK
  <2>4. QED
    BY <1>3, <2>2, <2>3, BeginTyped
<1>4. CASE CheckOverlaps(c)
  BY <1>1, <1>3, <1>4, ReturnTyped DEF CheckOverlaps, Step, At, Working
<1>5. CASE CheckEmployee(c)
  BY <1>1, <1>3, <1>5, ReturnTyped DEF CheckEmployee, Step, At, Working
<1>6. CASE CheckHours(c)
  BY <1>1, <1>3, <1>6, ReturnTyped DEF CheckHours, Step, At, Working
<1>7. CASE CheckConcurrent(c)
  BY <1>1, <1>3, <1>7, ReturnTyped DEF CheckConcurrent, Enter, Step, At, Working
<1>8. CASE CheckCapacity(c)
  <2>1. PICK limit : limit = capacity[p.row.store]
    OBVIOUS
  <2>2. PICK pc : pc = IF limit = 0 THEN Enter(c) ELSE "concurrent"
    OBVIOUS
  <2>3. p.pc = "capacity" /\ p.row \in Shift /\ p.row.store \in Stores
    BY <1>1, <1>2, <1>8 DEF CheckCapacity, At, Knows, Working, Shift
  <2>4. limit \in Nat /\ limit \in held[p.row.store]
    BY <2>1, <2>3, SizeTypes DEF Typed, TypeOK
  <2>5. PICK q : q = [p EXCEPT !.pc = pc, !.limit = limit]
    OBVIOUS
  <2>6. pc \in Working /\ (pc = "insert" => p.id = 0) /\ (pc = "update" => p.id # 0)
    BY <1>1, <2>2 DEF Enter, Working
  <2>7. q \in CallState
    BY <1>2, <2>4, <2>5, <2>6 DEF CallState, Working
  <2>8. /\ q.pc = pc /\ q.id = p.id /\ q.row = p.row /\ q.set = p.set /\ q.rows = p.rows
        /\ q.limit = limit
    BY <1>2, <2>5 DEF CallState
  <2>9. Knows(q)
    BY <1>2, <2>3, <2>4, <2>6, <2>8 DEF Knows, Working
  <2>10. call' = [call EXCEPT ![c] = q] /\ UNCHANGED <<shift, Rest, unchecked>>
    <3>1. call' = [call EXCEPT ![c].pc = pc, ![c].limit = limit] /\ UNCHANGED <<shift, Rest, unchecked>>
      BY <1>1, <1>8, <2>1, <2>2 DEF CheckCapacity
    <3>2. QED
      BY <1>1, <2>5, <3>1 DEF Typed, TypeOK
  <2>11. QED
    BY <2>7, <2>9, <2>10, BeginTyped
<1>9. QED
  BY <1>4, <1>5, <1>6, <1>7, <1>8

LEMMA CreateTyped ==
    ASSUME Typed, NEW c \in Calls, NEW store \in size.stores, NEW e \in size.people \cup {Null},
           NEW span \in size.spans, NEW break \in size.breaks, NEW status \in size.statuses,
           Create(c, store, e, span, break, status)
    PROVE  Typed'
<1> DEFINE row == [store |-> store, employee |-> e, starts |-> span[1], ends |-> span[2], break |-> break,
                   source |-> "manual",
                   status |-> IF status # Keep THEN status ELSE IF e = Null THEN "draft" ELSE "assigned"]
<1>1. row \in Shift
  <2>1. store \in Stores /\ e \in Employees \cup {Null} /\ span \in (0..2 * Week) \X (0..2 * Week)
        /\ break \in Nat /\ status \in ShiftStatus \cup {Keep}
    BY SizeTypes DEF Typed
  <2>2. span[1] \in Hour /\ span[2] \in Hour
    BY <2>1 DEF Hour
  <2>3. {"draft", "assigned"} \subseteq ShiftStatus
    BY DEF ShiftStatus
  <2>4. QED
    BY <2>1, <2>2, <2>3 DEF Shift
<1> HIDE DEF row
<1>2. PICK q : q = [pc |-> IF e = Null THEN "insert" ELSE "overlaps", id |-> 0, row |-> row,
                    set |-> Null, limit |-> 0, rows |-> <<>>]
  OBVIOUS
<1>3. q \in CallState /\ Knows(q)
  <2>1. 0 \in 0..Len(shift) /\ <<>> \in Seq(Shift)
    BY ShiftTypes DEF Typed
  <2>2. QED
    BY <1>1, <1>2, <2>1 DEF CallState, Knows, Working
<1>4. call' = [call EXCEPT ![c] = q] /\ UNCHANGED <<shift, Rest, unchecked>>
  BY <1>2 DEF Create, Begin, row
<1>5. QED
  BY <1>3, <1>4, BeginTyped

\* What begins with a row that is there, and the fields that it will set.
LEMMA ChangeTyped ==
    ASSUME Typed, NEW c \in Calls, NEW i \in DOMAIN shift, There(i), NEW set \in Values,
           NEW r, r = Patch(shift[i], set), set.employee = r.employee,
           NEW pc \in {"update", "overlaps"}, Begin(c, pc, i, r, set)
    PROVE  Typed'
<1>1. shift[i] \in Shift /\ i \in 0..Len(shift) /\ i # 0
  BY ShiftTypes DEF Typed
<1>2. r \in Shift /\ r.store = shift[i].store
  BY <1>1, PatchTyped
<1>3. PICK q : q = [pc |-> pc, id |-> i, row |-> r, set |-> set, limit |-> 0, rows |-> <<>>]
  OBVIOUS
<1>4. q \in CallState /\ Knows(q)
  <2>1. <<>> \in Seq(Shift)
    OBVIOUS
  <2>2. QED
    BY <1>1, <1>2, <1>3, <2>1 DEF CallState, Knows, Working
<1>5. QED
  BY <1>3, <1>4, BeginTyped DEF Begin

LEMMA UpdateTyped ==
    ASSUME Typed, NEW c \in Calls, NEW i \in DOMAIN shift, NEW set \in size.patches, Update(c, i, set)
    PROVE  Typed'
<1>1. There(i) /\ shift[i] \in Shift /\ set \in Values
  BY ShiftTypes, SizeTypes DEF Typed, Update
<1>2. PICK r : r = Patch(shift[i], set)
  OBVIOUS
<1>3. PICK all : all = [set EXCEPT !.employee = r.employee]
  OBVIOUS
<1>4. r \in Shift
  BY <1>1, <1>2, PatchTyped
<1>5. all \in Values /\ all.employee = r.employee /\ r = Patch(shift[i], all)
  <2>1. r.employee \in Employees \cup {Null} /\ r.employee # Keep
    BY <1>4, SchedulingAssumption DEF Shift, SchedulingAssumption
  <2>2. all \in Values /\ all.employee = r.employee
    BY <1>1, <1>3, <2>1 DEF Values
  <2>3. r.employee = IF set.employee = Keep THEN shift[i].employee ELSE set.employee
    BY <1>1, <1>2 DEF Patch, Shift
  <2>4. /\ all.starts = set.starts /\ all.ends = set.ends
        /\ all.break = set.break /\ all.status = set.status
    BY <1>1, <1>3 DEF Values
  <2>5. Patch(shift[i], all) = Patch(shift[i], set)
    BY <2>1, <2>2, <2>3, <2>4 DEF Patch
  <2>6. QED
    BY <1>2, <2>2, <2>5
<1>6. PICK pc : pc = IF r.employee = Null THEN "update" ELSE "overlaps"
  OBVIOUS
<1>7. Begin(c, pc, i, r, all) /\ pc \in {"update", "overlaps"}
  BY <1>2, <1>3, <1>6 DEF Update
<1>8. QED
  BY <1>1, <1>5, <1>7, ChangeTyped

\* What an assignment sets.
Assigning(i, e) ==
    [employee |-> e, starts |-> Keep, ends |-> Keep, break |-> Keep,
     status |-> IF e = Null THEN "draft"
                ELSE IF shift[i].status \in {"draft", "off"} THEN "assigned" ELSE shift[i].status]

LEMMA AssignSets ==
    ASSUME Typed, NEW i \in DOMAIN shift, There(i), NEW e \in size.people \cup {Null}
    PROVE  /\ Assigning(i, e) \in Values /\ Assigning(i, e).employee = e
           /\ Patch(shift[i], Assigning(i, e)).employee = e
<1>1. shift[i] \in Shift /\ e \in Employees \cup {Null}
  BY ShiftTypes, SizeTypes DEF Typed
<1>2. shift[i].status \in ShiftStatus /\ {"draft", "assigned"} \subseteq ShiftStatus
  BY <1>1 DEF Shift, ShiftStatus
<1>3. Assigning(i, e) \in Values
  BY <1>1, <1>2 DEF Assigning, Values
<1>4. e # Keep
  BY <1>1, SchedulingAssumption DEF SchedulingAssumption
<1>5. QED
  BY <1>1, <1>3, <1>4, PatchTyped DEF Assigning

LEMMA AssignTyped ==
    ASSUME Typed, NEW c \in Calls, NEW i \in DOMAIN shift, NEW e \in size.people \cup {Null},
           Assign(c, i, e)
    PROVE  Typed'
<1>1. There(i)
  BY DEF Assign
<1>2. PICK set : set = Assigning(i, e)
  OBVIOUS
<1>3. PICK r : r = Patch(shift[i], set)
  OBVIOUS
<1>4. set \in Values /\ set.employee = r.employee
  BY <1>1, <1>2, <1>3, AssignSets
<1>5. PICK pc : pc = IF e = Null THEN "update" ELSE "overlaps"
  OBVIOUS
<1>6. Begin(c, pc, i, r, set) /\ pc \in {"update", "overlaps"}
  BY <1>2, <1>3, <1>5 DEF Assign, Assigning
<1>7. QED
  BY <1>1, <1>3, <1>4, <1>6, ChangeTyped

\* What copying a week reads: shifts of that week and store, moved.
CopiedFrom(store, from, to) ==
    {Moved(r, (to - from) * Week) : r \in {r \in Shift : In(r, store, from)}}

CopiedRows(store, from, to) ==
    LET Copied(rows, r) ==
            IF In(r, store, from) THEN Append(rows, Moved(r, (to - from) * Week)) ELSE rows
    IN  Seqs!FoldLeft(Copied, <<>>, shift)

LEMMA CopiesOfWeek ==
    ASSUME TypeOK, NEW store, NEW from, NEW to
    PROVE  CopiedRows(store, from, to) \in Seq(CopiedFrom(store, from, to))
<1> DEFINE M == CopiedFrom(store, from, to)
           X == Seq(M)
           n == Len(shift)
           Copied(rows, r) ==
               IF In(r, store, from) THEN Append(rows, Moved(r, (to - from) * Week)) ELSE rows
           E(F) == F = [s \in SUBSET (1..n) |->
                           IF s = {} THEN <<>> ELSE Copied(F[s \ {Max(s)}], shift[Max(s)])]
           N == [k \in 1..n |-> [rows \in X |-> Copied(rows, shift[k])]]
<1>1. n \in Nat /\ DOMAIN shift = 1..n /\ <<>> \in X
  BY ShiftTypes
<1>2. ASSUME NEW k \in 1..n, NEW rows \in X PROVE Copied(rows, shift[k]) \in X
  <2>1. shift[k] \in Shift \cup {Gone}
    BY <1>1, ShiftTypes
  <2>2. In(shift[k], store, from) => Moved(shift[k], (to - from) * Week) \in M
    BY <2>1 DEF In, CopiedFrom
  <2> HIDE DEF M
  <2>3. QED
    BY <2>2
<1> HIDE DEF X
<1>3. N \in [1..n -> [X -> X]]
  <2> HIDE DEF Copied
  <2>1. QED
    BY <1>2
<1>4. PICK F : F \in [SUBSET (1..n) -> X] /\ Folds(F, n, <<>>, N)
  <2> HIDE DEF N, n
  <2>1. QED
    BY <1>1, <1>3, FoldExists
<1>5. \A s \in SUBSET (1..n) : s # {} => Max(s) \in s
  <2> HIDE DEF N, n
  <2>1. QED
    BY <1>1, <1>3, FoldExists
<1>6. E(F)
  <2> HIDE DEF Copied
  <2>1. ASSUME NEW s \in SUBSET (1..n), s # {}
        PROVE  N[Max(s)][F[s \ {Max(s)}]] = Copied(F[s \ {Max(s)}], shift[Max(s)])
    <3>1. Max(s) \in 1..n /\ s \ {Max(s)} \in SUBSET (1..n)
      BY <1>5, <2>1
    <3>2. F[s \ {Max(s)}] \in X
      BY <1>4, <3>1
    <3>3. QED
      BY <3>1, <3>2
  <2>2. QED
    BY <1>4, <2>1 DEF Folds
<1>7. PICK H : H = (CHOOSE G : E(G)) /\ E(H)
  <2> HIDE DEF E
  <2>1. E(CHOOSE G : E(G))
    BY <1>6, Zenon
  <2>2. QED
    BY <2>1
<1>8. CopiedRows(store, from, to) = H[1..n]
  <2>1. CopiedRows(store, from, to) = (CHOOSE G : E(G))[1..n]
    BY <1>1 DEF CopiedRows, Seqs!FoldLeft, Seqs!MapThenFoldSet, Seqs!Max, Max
  <2>2. QED
    BY <1>7, <2>1
<1> DEFINE G == {k \in 0..n : H[1..k] \in X}
<1>9. 0 \in G
  <2>1. 1..0 = {} /\ {} \in SUBSET (1..n) /\ 0 \in 0..n
    BY <1>1
  <2>2. H[{}] = <<>>
    BY <1>7, <2>1
  <2>3. QED
    BY <1>1, <2>1, <2>2
<1>10. ASSUME NEW k \in 1..n, k - 1 \in G PROVE k \in G
  <2>1. 1..k \in SUBSET (1..n) /\ 1..k # {} /\ Max(1..k) = k /\ (1..k) \ {k} = 1..k - 1
    BY <1>1, InOrder
  <2>2. H[1..k] = Copied(H[1..k - 1], shift[k])
    <3> HIDE DEF Copied
    <3>1. QED
      BY <1>7, <2>1
  <2>3. H[1..k] \in X /\ k \in 0..n
    <3> HIDE DEF Copied
    <3>1. QED
      BY <1>1, <1>2, <1>10, <2>2
  <2>4. QED
    BY <2>3
<1>11. n \in G
  <2> HIDE DEF G, n
  <2>1. n \in 0..n
    BY <1>1
  <2>2. QED
    BY <1>1, <1>9, <1>10, <2>1, CountUp
<1>12. QED
  BY <1>8, <1>11 DEF X

\* The hours of a shift that starts in a week, moved to the other or kept.
LEMMA MovedInTime ==
    ASSUME TypeOK, NEW r \in Shift, NEW from \in 0..1, NEW to \in 0..1, WeekOf(r) = from
    PROVE  r.starts + (to - from) * Week \in Hour
<1>1. Week \in Nat \ {0} /\ r.starts \in 0..2 * Week
  BY SizeTypes DEF Shift, Hour
<1>2. r.starts \div Week = from
  BY DEF WeekOf
<1>3. CASE from = to
  BY <1>1, <1>3 DEF Hour
<1>4. CASE from = 0 /\ to = 1
  <2>1. r.starts < Week
    BY <1>1, <1>2, <1>4
  <2>2. (to - from) * Week = Week
    BY <1>1, <1>4
  <2>3. QED
    BY <1>1, <2>1, <2>2 DEF Hour
<1>5. CASE from = 1 /\ to = 0
  <2>1. r.starts >= Week
    BY <1>1, <1>2, <1>5
  <2>2. (to - from) * Week = -Week
    BY <1>1, <1>5
  <2>3. QED
    BY <1>1, <2>1, <2>2 DEF Hour
<1>6. QED
  BY <1>3, <1>4, <1>5

LEMMA CopyTyped ==
    ASSUME Typed, NEW c \in Calls, NEW store \in size.stores, NEW from \in 0..1, NEW to \in 0..1,
           CopyWeek(c, store, from, to)
    PROVE  Typed'
<1>1. PICK rows : rows = CopiedRows(store, from, to)
  OBVIOUS
<1>2. rows \in Seq(CopiedFrom(store, from, to))
  BY <1>1, CopiesOfWeek DEF Typed
<1>3. /\ \A k \in DOMAIN rows : rows[k].ends \in Hour
      /\ call' = [call EXCEPT ![c] = [Idle EXCEPT !.pc = "paste", !.rows = rows]]
      /\ UNCHANGED <<shift, Rest, unchecked>>
  BY <1>1 DEF CopyWeek, CopiedRows
<1>4. ASSUME NEW k \in DOMAIN rows PROVE rows[k] \in Shift /\ rows[k].source = "template"
  <2>1. rows[k] \in CopiedFrom(store, from, to)
    BY <1>2, ElementOfSeq, LenProperties
  <2>2. PICK r \in Shift : In(r, store, from) /\ rows[k] = Moved(r, (to - from) * Week)
    BY <2>1 DEF CopiedFrom
  <2>3. r.starts + (to - from) * Week \in Hour
    BY <2>2, MovedInTime DEF In, Typed
  <2>4. rows[k].ends \in Hour
    BY <1>3
  <2>5. PICK by : by = (to - from) * Week
    OBVIOUS
  <2>6. rows[k] = [r EXCEPT !.starts = @ + by, !.ends = @ + by, !.status = "draft", !.source = "template"]
    BY <2>2, <2>5 DEF Moved
  <2>7. "draft" \in ShiftStatus
    BY DEF ShiftStatus
  <2>8. QED
    BY <2>3, <2>4, <2>5, <2>6, <2>7 DEF Shift
<1>5. rows \in Seq(Shift)
  <2>1. Len(rows) \in Nat /\ DOMAIN rows = 1..Len(rows) /\ rows = [k \in 1..Len(rows) |-> rows[k]]
    BY <1>2, LenProperties
  <2>2. rows \in [1..Len(rows) -> Shift]
    BY <1>4, <2>1
  <2>3. QED
    BY <2>1, <2>2
<1>6. PICK q : q = [Idle EXCEPT !.pc = "paste", !.rows = rows]
  OBVIOUS
<1>7. q = [pc |-> "paste", id |-> 0, row |-> Null, set |-> Null, limit |-> 0, rows |-> rows]
  BY <1>6 DEF Idle
<1>8. q \in CallState /\ Knows(q)
  <2>1. 0 \in 0..Len(shift)
    BY ShiftTypes DEF Typed
  <2>2. QED
    BY <1>4, <1>5, <1>7, <2>1 DEF CallState, Knows, Working
<1>9. call' = [call EXCEPT ![c] = q]
  BY <1>3, <1>6
<1>10. QED
  BY <1>3, <1>8, <1>9, BeginTyped

-----------------------------------------------------------------------------
(* What the steps that write do to the rows.  But for those of J, a shift   *)
(* is the booking it was, or comes from a template; and none comes to count *)
(* as checked that did not.                                                 *)

SameBooking(r, s) ==
    /\ r.store = s.store /\ r.employee = s.employee /\ r.starts = s.starts /\ r.ends = s.ends
    /\ r.break = s.break /\ r.source = s.source

RowsKept(J) ==
    /\ \A i \in DOMAIN shift' \ J : shift'[i] # Gone =>
          \/ i \in DOMAIN shift /\ shift[i] # Gone /\ SameBooking(shift'[i], shift[i])
          \/ i \notin DOMAIN shift /\ shift'[i].source = "template"
    /\ \A i \in Checked' \ J : shift'[i].employee # Null => i \in Checked /\ SameBooking(shift'[i], shift[i])

RowsTyped ==
    /\ shift' \in Seq(Shift \cup {Gone}) /\ Len(shift') <= size.shifts
    /\ unchecked' \subseteq DOMAIN shift'

LEMMA CheckedIs ==
    \A i : i \in Checked <=> /\ i \in DOMAIN shift /\ shift[i] # Gone
                             /\ shift[i].status \in ACTIVE_STATUSES /\ i \notin unchecked
  BY DEF Checked, Committed, Planned, There

\* One row is written, or removed.
LEMMA RowWritten ==
    ASSUME Typed, NEW i \in DOMAIN shift, There(i), NEW r \in Shift \cup {Gone},
           shift' = [shift EXCEPT ![i] = r], unchecked' \subseteq unchecked \cup {i},
           r # Gone => r.store = shift[i].store,
           unchecked \ {i} \subseteq unchecked'
    PROVE  /\ RowsTyped /\ RowsLast /\ RowsKept({i}) /\ Len(shift') = Len(shift)
           /\ DOMAIN shift' = DOMAIN shift /\ shift'[i] = r
           /\ \A j \in DOMAIN shift : j # i => shift'[j] = shift[j]
<1>1. /\ Len(shift) \in Nat /\ DOMAIN shift = 1..Len(shift) /\ shift \in Seq(Shift \cup {Gone})
      /\ Len(shift) <= size.shifts /\ unchecked \subseteq DOMAIN shift
  BY ShiftTypes DEF Typed, TypeOK
<1>2. /\ shift' \in Seq(Shift \cup {Gone}) /\ Len(shift') = Len(shift) /\ DOMAIN shift' = DOMAIN shift
      /\ shift'[i] = r /\ \A j \in DOMAIN shift : j # i => shift'[j] = shift[j]
  BY <1>1, ExceptSeq
<1>3. RowsTyped /\ RowsLast
  BY <1>1, <1>2 DEF RowsTyped, RowsLast, There
<1>4. ASSUME NEW j \in DOMAIN shift', j # i, shift'[j] # Gone
      PROVE  j \in DOMAIN shift /\ shift[j] # Gone /\ SameBooking(shift'[j], shift[j])
  BY <1>2, <1>4 DEF SameBooking
<1>5. ASSUME NEW j \in Checked', j # i PROVE j \in Checked /\ SameBooking(shift'[j], shift[j])
  BY <1>2, <1>5 DEF SameBooking, Checked, Committed, Planned, There
<1>6. RowsKept({i})
  BY <1>4, <1>5 DEF RowsKept
<1>7. QED
  BY <1>2, <1>3, <1>6

LEMMA ApproveRows ==
    ASSUME Typed, NEW i \in DOMAIN shift, Approve(i)
    PROVE  RowsTyped /\ RowsLast /\ RowsKept({})
<1>1. There(i) /\ shift[i] \in Shift
  BY ShiftTypes DEF Approve, Typed
<1>2. PICK r : r = [shift[i] EXCEPT !.status = "approved"]
  OBVIOUS
<1>3. r \in Shift /\ SameBooking(r, shift[i]) /\ r.status = "approved"
  BY <1>1, <1>2 DEF Shift, ShiftStatus, SameBooking
<1>4. shift' = [shift EXCEPT ![i] = r]
  BY <1>2 DEF Approve
<1>5. unchecked' \subseteq unchecked \cup {i} /\ unchecked \ {i} \subseteq unchecked' /\ unchecked \subseteq unchecked'
  BY DEF Approve
<1>6. /\ RowsTyped /\ RowsLast /\ RowsKept({i}) /\ DOMAIN shift' = DOMAIN shift /\ shift'[i] = r
  BY <1>1, <1>3, <1>4, <1>5, RowWritten DEF SameBooking
<1>7. ASSUME i \in Checked', r.employee # Null PROVE i \in Checked
  <2>1. i \notin unchecked'
    BY <1>7 DEF Checked
  <2>2. shift[i].employee # Null
    BY <1>3, <1>7 DEF SameBooking
  <2>3. shift[i].status \in ACTIVE_STATUSES /\ i \notin unchecked
    BY <2>1, <2>2, <1>5 DEF Approve
  <2>4. QED
    BY <1>1, <2>3 DEF Checked, Committed, Planned, There
<1>8. RowsKept({})
  BY <1>1, <1>3, <1>6, <1>7 DEF RowsKept, There
<1>9. QED
  BY <1>6, <1>8

LEMMA CancelRows ==
    ASSUME Typed, NEW i \in DOMAIN shift, Cancel(i)
    PROVE  RowsTyped /\ RowsLast /\ RowsKept({})
<1>1. There(i) /\ shift[i] \in Shift
  BY ShiftTypes DEF Cancel, Typed
<1>2. PICK r : r = [shift[i] EXCEPT !.status = "cancelled"]
  OBVIOUS
<1>3. r \in Shift /\ SameBooking(r, shift[i]) /\ r.status \notin ACTIVE_STATUSES
  BY <1>1, <1>2 DEF Shift, ShiftStatus, SameBooking, ACTIVE_STATUSES
<1>4. shift' = [shift EXCEPT ![i] = r] /\ unchecked' = unchecked
  BY <1>2 DEF Cancel
<1>5. RowsTyped /\ RowsLast /\ RowsKept({i}) /\ DOMAIN shift' = DOMAIN shift /\ shift'[i] = r
  BY <1>1, <1>3, <1>4, RowWritten DEF SameBooking
<1>6. i \notin Checked'
  BY <1>3, <1>5 DEF Checked, Committed, Planned
<1>7. RowsKept({})
  BY <1>1, <1>3, <1>5, <1>6 DEF RowsKept, There
<1>8. QED
  BY <1>5, <1>7

LEMMA RemoveRows ==
    ASSUME Typed, NEW i \in DOMAIN shift, Remove(i)
    PROVE  RowsTyped /\ RowsLast /\ RowsKept({})
<1>1. There(i) /\ shift' = [shift EXCEPT ![i] = Gone] /\ unchecked' = unchecked \ {i}
  BY DEF Remove
<1>2. PICK r : r = Gone
  OBVIOUS
<1>3. RowsTyped /\ RowsLast /\ RowsKept({i}) /\ DOMAIN shift' = DOMAIN shift /\ shift'[i] = r
  BY <1>1, <1>2, RowWritten
<1>4. i \notin Checked'
  BY <1>2, <1>3 DEF Checked, Committed, Planned, There
<1>5. RowsKept({})
  BY <1>1, <1>2, <1>3, <1>4 DEF RowsKept
<1>6. QED
  BY <1>3, <1>5

LEMMA PublishRows ==
    ASSUME Typed, NEW store, NEW week, PublishRange(store, week)
    PROVE  RowsTyped /\ RowsLast /\ RowsKept({})
<1>1. /\ Len(shift) \in Nat /\ DOMAIN shift = 1..Len(shift) /\ shift \in Seq(Shift \cup {Gone})
      /\ Len(shift) <= size.shifts /\ unchecked \subseteq DOMAIN shift /\ unchecked' = unchecked
  BY ShiftTypes DEF Typed, TypeOK, PublishRange
<1>2. shift' = [i \in DOMAIN shift |->
                   IF In(shift[i], store, week) /\ Publishable(shift[i])
                   THEN [shift[i] EXCEPT !.status = "published"] ELSE shift[i]]
  BY DEF PublishRange
<1>3. ASSUME NEW i \in DOMAIN shift
      PROVE  /\ shift'[i] \in Shift \cup {Gone}
             /\ shift'[i] # Gone => /\ shift[i] # Gone /\ SameBooking(shift'[i], shift[i])
                                    /\ shift'[i].status \in ACTIVE_STATUSES => shift[i].status \in ACTIVE_STATUSES
  <2>1. CASE In(shift[i], store, week) /\ Publishable(shift[i])
    <3>1. shift[i] # Gone /\ shift[i] \in Shift
      BY <1>1, <2>1, ShiftTypes DEF In, Typed
    <3>2. shift'[i] = [shift[i] EXCEPT !.status = "published"]
      BY <1>2, <2>1
    <3>3. shift'[i] \in Shift /\ SameBooking(shift'[i], shift[i])
      BY <3>1, <3>2 DEF Shift, ShiftStatus, SameBooking
    <3>4. shift[i].status \in ACTIVE_STATUSES
      BY <2>1, <3>1 DEF Publishable, Shift, ShiftStatus, ACTIVE_STATUSES
    <3>5. QED
      BY <3>1, <3>3, <3>4
  <2>2. CASE ~(In(shift[i], store, week) /\ Publishable(shift[i]))
    <3>1. shift'[i] = shift[i]
      BY <1>2, <2>2
    <3>2. QED
      BY <1>1, <3>1, ShiftTypes DEF SameBooking, Typed
  <2>3. QED
    BY <2>1, <2>2
<1>4. /\ DOMAIN shift' = DOMAIN shift /\ shift' \in Seq(Shift \cup {Gone}) /\ Len(shift') = Len(shift)
  <2>1. DOMAIN shift' = 1..Len(shift) /\ shift' \in [1..Len(shift) -> Shift \cup {Gone}]
    BY <1>1, <1>2, <1>3
  <2>2. shift' \in Seq(Shift \cup {Gone})
    BY <1>1, <2>1
  <2>3. Len(shift') = Len(shift)
    BY <1>1, <2>1, <2>2, LenProperties
  <2>4. QED
    BY <1>1, <2>1, <2>2, <2>3
<1>5. RowsTyped
  BY <1>1, <1>4 DEF RowsTyped
<1>6. RowsLast
  BY <1>1, <1>3, <1>4 DEF RowsLast, SameBooking
<1>7. RowsKept({})
  BY <1>1, <1>3, <1>4 DEF RowsKept, Checked, Committed, Planned, There
<1>8. QED
  BY <1>5, <1>6, <1>7

\* Rows are added.
LEMMA RowsAdded ==
    ASSUME Typed, NEW rows \in Seq(Shift), Room(Len(rows)), shift' = shift \o rows,
           unchecked \subseteq unchecked', unchecked' \subseteq 1..Len(shift) + Len(rows)
    PROVE  /\ RowsTyped /\ RowsLast /\ RowsKept(Len(shift) + 1..Len(shift) + Len(rows))
           /\ DOMAIN shift' = 1..Len(shift) + Len(rows) /\ DOMAIN shift = 1..Len(shift)
           /\ Len(shift) \in Nat /\ Len(rows) \in Nat
           /\ \A i \in DOMAIN shift : shift'[i] = shift[i]
           /\ \A k \in 1..Len(rows) : shift'[Len(shift) + k] = rows[k]
<1>1. /\ Len(shift) \in Nat /\ DOMAIN shift = 1..Len(shift) /\ shift \in Seq(Shift \cup {Gone})
      /\ unchecked \subseteq DOMAIN shift /\ Len(rows) \in Nat /\ DOMAIN rows = 1..Len(rows)
  BY ShiftTypes, LenProperties DEF Typed, TypeOK
<1>2. rows \in Seq(Shift \cup {Gone})
  OBVIOUS
<1>3. /\ shift' \in Seq(Shift \cup {Gone}) /\ Len(shift') = Len(shift) + Len(rows)
      /\ \A i \in 1..Len(shift) + Len(rows) :
            shift'[i] = IF i <= Len(shift) THEN shift[i] ELSE rows[i - Len(shift)]
  BY <1>1, <1>2, ConcatProperties
<1>4. DOMAIN shift' = 1..Len(shift) + Len(rows)
  BY <1>1, <1>3, LenProperties
<1>5. \A i \in DOMAIN shift : shift'[i] = shift[i]
  BY <1>1, <1>3
<1>6. ASSUME NEW k \in 1..Len(rows) PROVE shift'[Len(shift) + k] = rows[k]
  <2>1. Len(shift) + k \in 1..Len(shift) + Len(rows) /\ ~ (Len(shift) + k <= Len(shift))
        /\ Len(shift) + k - Len(shift) = k
    BY <1>1
  <2>2. QED
    BY <1>3, <2>1
<1>7. RowsTyped
  BY <1>1, <1>3, <1>4 DEF RowsTyped, Room
<1>8. RowsLast
  BY <1>1, <1>3, <1>5 DEF RowsLast
<1>9. ASSUME NEW i \in DOMAIN shift', i \notin Len(shift) + 1..Len(shift) + Len(rows)
      PROVE  i \in DOMAIN shift /\ shift'[i] = shift[i]
  <2>1. i \in 1..Len(shift)
    BY <1>1, <1>4, <1>9
  <2>2. QED
    BY <1>1, <1>5, <2>1
<1>10. RowsKept(Len(shift) + 1..Len(shift) + Len(rows))
  <2> DEFINE J == Len(shift) + 1..Len(shift) + Len(rows)
  <2> HIDE DEF J
  <2>1. ASSUME NEW i \in DOMAIN shift' \ J PROVE i \in DOMAIN shift /\ shift'[i] = shift[i]
    BY <1>9 DEF J
  <2>2. ASSUME NEW i \in Checked' \ J PROVE i \in Checked /\ shift'[i] = shift[i]
    BY <2>1 DEF Checked, Committed, Planned, There
  <2>3. RowsKept(J)
    BY <2>1, <2>2 DEF RowsKept, SameBooking
  <2>4. QED
    BY <2>3 DEF J
<1>11. QED
  BY <1>1, <1>4, <1>5, <1>6, <1>7, <1>8, <1>10

LEMMA OneRowAdded ==
    ASSUME Typed, NEW r \in Shift, Room(1), shift' = Append(shift, r), unchecked' = unchecked
    PROVE  /\ RowsTyped /\ RowsLast /\ RowsKept({Len(shift) + 1})
           /\ Len(shift) + 1 \notin DOMAIN shift /\ shift'[Len(shift) + 1] = r
<1>1. PICK rows : rows = <<r>>
  OBVIOUS
<1>2. rows \in Seq(Shift) /\ Len(rows) = 1 /\ rows[1] = r
  BY <1>1
<1>3. Len(shift) \in Nat /\ DOMAIN shift = 1..Len(shift) /\ shift \in Seq(Shift \cup {Gone})
      /\ unchecked \subseteq DOMAIN shift
  BY ShiftTypes DEF Typed, TypeOK
<1>4. shift' = shift \o rows
  BY <1>1, <1>3, AppendIsConcat
<1>5. unchecked' \subseteq 1..Len(shift) + Len(rows)
  BY <1>2, <1>3
<1>6. Room(Len(rows))
  BY <1>2
<1>7. RowsTyped /\ RowsLast /\ RowsKept(Len(shift) + 1..Len(shift) + Len(rows))
      /\ shift'[Len(shift) + 1] = rows[1]
  <2>1. 1 \in 1..Len(rows)
    BY <1>2
  <2>2. QED
    BY <1>2, <1>4, <1>5, <1>6, <2>1, RowsAdded
<1>8. Len(shift) + 1..Len(shift) + Len(rows) = {Len(shift) + 1}
  BY <1>2, <1>3
<1>9. QED
  BY <1>2, <1>3, <1>7, <1>8

LEMMA TemplateRows ==
    ASSUME Typed, NEW store \in size.stores, NEW week \in 0..1, NEW block \in size.blocks,
           ApplyTemplate(store, week, block)
    PROVE  RowsTyped /\ RowsLast /\ RowsKept({})
<1>1. PICK r : r = [store |-> store, employee |-> Null, starts |-> week * Week + block[1],
                    ends |-> week * Week + block[2], break |-> block[3], status |-> "draft",
                    source |-> "template"]
  OBVIOUS
<1>2. r \in Shift
  <2>1. store \in Stores /\ Week \in Nat /\ block \in (0..Week) \X (0..Week) \X Int
    BY SizeTypes DEF Typed
  <2>2. block[1] \in 0..Week /\ block[2] \in 0..Week /\ block[3] \in Int
    BY <2>1
  <2>3. \A b \in 0..Week : week * Week + b \in Hour
    <3>1. CASE week = 0
      BY <2>1, <3>1 DEF Hour
    <3>2. CASE week = 1
      BY <2>1, <3>2 DEF Hour
    <3>3. QED
      BY <3>1, <3>2
  <2>4. "draft" \in ShiftStatus
    BY DEF ShiftStatus
  <2>5. QED
    BY <1>1, <2>1, <2>2, <2>3, <2>4 DEF Shift
<1>3. Room(1) /\ shift' = Append(shift, r) /\ unchecked' = unchecked
  BY <1>1 DEF ApplyTemplate
<1>4. RowsTyped /\ RowsLast /\ RowsKept({Len(shift) + 1}) /\ shift'[Len(shift) + 1] = r
      /\ Len(shift) + 1 \notin DOMAIN shift
  BY <1>2, <1>3, OneRowAdded
<1>5. RowsKept({})
  BY <1>1, <1>4 DEF RowsKept
<1>6. QED
  BY <1>4, <1>5

LEMMA InsertRows ==
    ASSUME Typed, NEW c \in Calls, Insert(c)
    PROVE  /\ RowsTyped /\ RowsLast /\ RowsKept({Len(shift) + 1})
           /\ Len(shift) + 1 \notin DOMAIN shift /\ shift'[Len(shift) + 1] = call[c].row
           /\ call[c].row \in Shift /\ call[c].pc = "insert" /\ call[c].id = 0
<1>1. PICK r : r = call[c].row
  OBVIOUS
<1>2. r \in Shift /\ call[c].pc = "insert" /\ call[c].id = 0
  BY <1>1 DEF Insert, At, Typed, Known, Knows, Working
<1>3. QED
  BY <1>1, <1>2, OneRowAdded DEF Insert

LEMMA PasteRows ==
    ASSUME Typed, NEW c \in Calls, Paste(c)
    PROVE  RowsTyped /\ RowsLast /\ RowsKept({})
<1>1. PICK rows : rows = call[c].rows
  OBVIOUS
<1>2. /\ rows \in Seq(Shift) /\ \A k \in DOMAIN rows : rows[k].source = "template"
      /\ Room(Len(rows)) /\ shift' = shift \o rows
      /\ unchecked' = unchecked \cup {Len(shift) + i : i \in {i \in DOMAIN rows : rows[i].employee # Null}}
  BY <1>1 DEF Paste, At, Typed, TypeOK, CallState, Known, Knows
<1>3. /\ Len(shift) \in Nat /\ DOMAIN shift = 1..Len(shift) /\ unchecked \subseteq DOMAIN shift
      /\ Len(rows) \in Nat /\ DOMAIN rows = 1..Len(rows)
  BY <1>2, ShiftTypes, LenProperties DEF Typed, TypeOK
<1>4. unchecked \subseteq unchecked' /\ unchecked' \subseteq 1..Len(shift) + Len(rows)
  BY <1>2, <1>3
<1>5. /\ RowsTyped /\ RowsLast /\ RowsKept(Len(shift) + 1..Len(shift) + Len(rows))
      /\ \A k \in 1..Len(rows) : shift'[Len(shift) + k] = rows[k]
  BY <1>2, <1>4, RowsAdded
<1>6. ASSUME NEW i \in Len(shift) + 1..Len(shift) + Len(rows)
      PROVE  /\ i \notin DOMAIN shift /\ shift'[i].source = "template"
             /\ shift'[i].employee # Null => i \in unchecked'
  <2>1. PICK k : k = i - Len(shift)
    OBVIOUS
  <2>2. k \in 1..Len(rows) /\ i = Len(shift) + k /\ i \notin 1..Len(shift)
    BY <1>3, <2>1
  <2>3. shift'[i] = rows[k]
    BY <1>5, <2>2
  <2>4. QED
    BY <1>2, <1>3, <2>2, <2>3
<1>7. RowsKept({})
  <2> DEFINE J == Len(shift) + 1..Len(shift) + Len(rows)
  <2>1. RowsKept(J)
    BY <1>5
  <2>2. \A i \in J : /\ i \notin DOMAIN shift /\ shift'[i].source = "template"
                     /\ shift'[i].employee # Null => i \in unchecked'
    BY <1>6
  <2> HIDE DEF J
  <2>3. QED
    BY <2>1, <2>2 DEF RowsKept, Checked
<1>8. QED
  BY <1>5, <1>7

\* A booking as it was looked at, which need not be the row that was read.
AsLookedAt(r, row) ==
    r.store = row.store /\ r.employee = row.employee /\ r.starts = row.starts /\ r.ends = row.ends

LEMMA WriteRows ==
    ASSUME Typed, NEW c \in Calls, Write(c), NEW i, i = call[c].id
    PROVE  /\ RowsTyped /\ RowsLast /\ RowsKept({i}) /\ DOMAIN shift' = DOMAIN shift
           /\ i \in DOMAIN shift /\ call[c].pc = "update" /\ i # 0
           /\ ~There(i) => shift' = shift /\ unchecked' = unchecked
           /\ There(i) => /\ shift'[i] = Patch(shift[i], call[c].set) /\ call[c].set \in Values
                          /\ shift'[i].source = shift[i].source
           /\ There(i) /\ i \in Checked' /\ shift'[i].employee # Null => AsLookedAt(shift'[i], call[c].row)
<1>1. PICK p : p = call[c]
  OBVIOUS
<1>2. /\ p \in CallState /\ p.pc = "update" /\ p.id = i /\ i # 0
      /\ p.set \in Values /\ p.set.employee = p.row.employee /\ p.row \in Shift
      /\ There(i) => shift[i].store = p.row.store
  BY <1>1 DEF Write, At, Typed, TypeOK, Known, Knows, Working
<1>3. i \in DOMAIN shift /\ shift \in Seq(Shift \cup {Gone}) /\ Len(shift) <= size.shifts
      /\ unchecked \subseteq DOMAIN shift /\ Len(shift) \in Nat
  <2>1. i \in 0..Len(shift)
    BY <1>2 DEF CallState
  <2>2. QED
    BY <1>2, <2>1, ShiftTypes DEF Typed, TypeOK
<1>4. CASE ~There(i)
  <2>1. shift' = shift /\ unchecked' = unchecked
    BY <1>1, <1>2, <1>4 DEF Write
  <2>2. RowsTyped /\ RowsLast
    BY <1>3, <2>1 DEF RowsTyped, RowsLast
  <2>3. RowsKept({i})
    BY <2>1 DEF RowsKept, SameBooking, Checked, Committed, Planned, There
  <2>4. QED
    BY <1>1, <1>2, <1>3, <1>4, <2>1, <2>2, <2>3
<1>5. CASE There(i)
  <2>1. PICK r : r = Patch(shift[i], p.set)
    OBVIOUS
  <2>2. PICK asChecked \in BOOLEAN :
           asChecked <=> /\ r.starts = p.row.starts /\ r.ends = p.row.ends
                         /\ r.status \in ACTIVE_STATUSES
    OBVIOUS
  <2>3. /\ shift' = [shift EXCEPT ![i] = r]
        /\ unchecked' = IF r.employee = Null \/ asChecked THEN unchecked \ {i} ELSE unchecked \cup {i}
    BY <1>1, <1>2, <1>5, <2>1, <2>2 DEF Write
  <2>4. shift[i] \in Shift /\ p.row.employee # Keep
    BY <1>2, <1>3, <1>5, ShiftTypes, SchedulingAssumption DEF Typed, Shift, SchedulingAssumption
  <2>5. r \in Shift /\ r.store = shift[i].store /\ r.source = shift[i].source /\ r.employee = p.row.employee
    BY <1>2, <2>1, <2>4, PatchTyped
  <2>6. unchecked' \subseteq unchecked \cup {i} /\ unchecked \ {i} \subseteq unchecked'
    BY <2>3
  <2>7. RowsTyped /\ RowsLast /\ RowsKept({i}) /\ DOMAIN shift' = DOMAIN shift /\ shift'[i] = r
    BY <1>3, <1>5, <2>3, <2>5, <2>6, RowWritten
  <2>8. ASSUME i \in Checked', shift'[i].employee # Null PROVE AsLookedAt(shift'[i], p.row)
    <3>1. i \notin unchecked'
      BY <2>8 DEF Checked
    <3>2. asChecked
      BY <2>3, <2>7, <2>8, <3>1
    <3>3. QED
      BY <1>2, <1>5, <2>2, <2>5, <2>7, <3>2 DEF AsLookedAt
  <2>9. QED
    BY <1>1, <1>2, <1>3, <1>5, <2>1, <2>5, <2>7, <2>8
<1>6. QED
  BY <1>4, <1>5

-----------------------------------------------------------------------------

LEMMA LengthsTyped ==
    ASSUME RowsTyped
    PROVE  Len(shift') \in Nat /\ DOMAIN shift' = 1..Len(shift')
  BY LenProperties DEF RowsTyped

LEMMA RowsStepTyped ==
    ASSUME Typed, RowsTyped, RowsLast, UNCHANGED <<Rest, call>>
    PROVE  Typed'
<1>1. HeldLasts
  BY DEF Rest, HeldLasts
<1>2. call' \in [Calls -> CallState'] /\ Known'
  BY <1>1, LengthsTyped, CallsStay
<1>3. QED
  BY <1>2 DEF Typed, TypeOK, RowsTyped, Rest, Target

LEMMA LastStepTyped ==
    ASSUME Typed, RowsTyped, RowsLast, NEW c \in Calls, Return(c), UNCHANGED Rest
    PROVE  Typed'
<1>1. Len(shift') \in Nat /\ HeldLasts
  BY LengthsTyped DEF Rest, HeldLasts
<1>2. Idle \in CallState' /\ Knows(Idle)'
  BY <1>1, IdleKnows
<1>3. PICK q : q = Idle
  OBVIOUS
<1>4. q \in CallState' /\ Knows(q)'
  BY <1>2, <1>3 DEF Knows, There
<1>5. call' \in [Calls -> CallState'] /\ Known'
  BY <1>1, <1>3, <1>4, CallKnows DEF Return
<1>6. QED
  BY <1>5 DEF Typed, TypeOK, RowsTyped, Rest, Target

LEMMA TargetsTyped ==
    ASSUME Typed, NEW store \in size.stores, NEW required \in size.required, SetTargets(store, required)
    PROVE  Typed'
<1>1. UNCHANGED <<shift, capacity, call, size, unchecked, held>> /\ target' = [target EXCEPT ![store] = required]
  BY DEF SetTargets
<1>2. target' \in [Stores -> Target]
  BY <1>1 DEF Typed, TypeOK, Target
<1>3. RowsLast /\ HeldLasts /\ Len(shift') \in Nat
  BY <1>1, SameRowsLast DEF Typed, HeldLasts
<1>4. call' \in [Calls -> CallState'] /\ Known'
  BY <1>1, <1>3, CallsStay
<1>5. QED
  BY <1>1, <1>2, <1>4 DEF Typed, TypeOK, Target

LEMMA CapacitiesTyped ==
    ASSUME Typed, NEW store \in size.stores, NEW n \in size.capacities, SetCapacity(store, n)
    PROVE  Typed' /\ HeldLasts
<1>1. UNCHANGED <<shift, target, call, size, unchecked>>
  BY DEF SetCapacity
<1>2. /\ capacity \in [Stores -> size.capacities] /\ held \in [Stores -> SUBSET size.capacities]
      /\ \A s \in Stores : capacity[s] \in held[s]
  BY DEF Typed, TypeOK
<1>3. PICK had : had = held[store] \cup {n}
  OBVIOUS
<1>4. capacity' = [capacity EXCEPT ![store] = n] /\ held' = [held EXCEPT ![store] = had]
  BY <1>3 DEF SetCapacity
<1>5. store \in Stores /\ had \in SUBSET size.capacities
  BY <1>2, <1>3, SizeTypes DEF Typed
<1>6. /\ capacity' \in [Stores -> size.capacities] /\ held' \in [Stores -> SUBSET size.capacities]
      /\ \A s \in Stores : capacity'[s] \in held'[s] /\ held[s] \subseteq held'[s]
  BY <1>2, <1>3, <1>4, <1>5
<1>7. RowsLast /\ HeldLasts /\ Len(shift') \in Nat
  BY <1>1, <1>6, SameRowsLast DEF Typed, HeldLasts
<1>8. call' \in [Calls -> CallState'] /\ Known'
  BY <1>1, <1>7, CallsStay
<1>9. QED
  BY <1>1, <1>6, <1>7, <1>8 DEF Typed, TypeOK, Target

LEMMA TypedInit == Init => Typed
<1> SUFFICES ASSUME Init PROVE Typed
  OBVIOUS
<1>1. shift \in Seq(Shift \cup {Gone}) /\ Len(shift) = 0 /\ DOMAIN shift = {} /\ unchecked = {}
  BY DEF Init
<1>2. size \in Sizes /\ size.shifts \in Nat
  BY SchedulingAssumption DEF Init, SchedulingAssumption, Size
<1>3. target \in [Stores -> Target]
  BY DEF Init, Target
<1>4. Idle \in CallState /\ Knows(Idle)
  <2>1. <<>> \in Seq(Shift) /\ 0 \in 0..Len(shift)
    BY <1>1
  <2>2. QED
    BY <2>1 DEF Idle, CallState, Knows, Working
<1>5. call \in [Calls -> CallState] /\ Known
  BY <1>4 DEF Init, Known
<1>6. /\ capacity \in [Stores -> size.capacities] /\ held \in [Stores -> SUBSET size.capacities]
      /\ \A s \in Stores : capacity[s] \in held[s]
  <2>1. PICK n \in size.capacities : capacity = [s \in Stores |-> n] /\ held = [s \in Stores |-> {n}]
    BY DEF Init
  <2>2. QED
    BY <2>1
<1>7. QED
  BY <1>1, <1>2, <1>3, <1>5, <1>6 DEF Typed, TypeOK

LEMMA TypedStep == Typed /\ [Next]_vars => Typed'
<1> SUFFICES ASSUME Typed, [Next]_vars PROVE Typed'
  OBVIOUS
<1>1. ASSUME NEW c \in Calls, NEW store \in size.stores, NEW e \in size.people \cup {Null},
             NEW span \in size.spans, NEW break \in size.breaks, NEW status \in size.statuses,
             Create(c, store, e, span, break, status)
      PROVE  Typed'
  BY <1>1, CreateTyped
<1>2. ASSUME NEW c \in Calls, NEW i \in DOMAIN shift, NEW set \in size.patches, Update(c, i, set)
      PROVE  Typed'
  BY <1>2, UpdateTyped
<1>3. ASSUME NEW c \in Calls, NEW i \in DOMAIN shift, NEW e \in size.people \cup {Null}, Assign(c, i, e)
      PROVE  Typed'
  BY <1>3, AssignTyped
<1>4. ASSUME NEW c \in Calls,
             \/ CheckOverlaps(c) \/ CheckEmployee(c) \/ CheckHours(c)
             \/ CheckCapacity(c) \/ CheckConcurrent(c)
      PROVE  Typed'
  BY <1>4, StepTyped
<1>5. ASSUME NEW c \in Calls, Insert(c) PROVE Typed'
  BY <1>5, InsertRows, LastStepTyped DEF Insert
<1>6. ASSUME NEW c \in Calls, Write(c) PROVE Typed'
  <2>1. PICK i : i = call[c].id
    OBVIOUS
  <2>2. RowsTyped /\ RowsLast
    BY <1>6, <2>1, WriteRows
  <2>3. QED
    BY <1>6, <2>2, LastStepTyped DEF Write
<1>7. ASSUME NEW c \in Calls, NEW store \in size.stores, NEW from \in 0..1, NEW to \in 0..1,
             CopyWeek(c, store, from, to)
      PROVE  Typed'
  BY <1>7, CopyTyped
<1>8. ASSUME NEW c \in Calls, Paste(c) PROVE Typed'
  BY <1>8, PasteRows, LastStepTyped DEF Paste
<1>9. ASSUME NEW i \in DOMAIN shift, Approve(i) PROVE Typed'
  BY <1>9, ApproveRows, RowsStepTyped DEF Approve
<1>10. ASSUME NEW i \in DOMAIN shift, Cancel(i) PROVE Typed'
  BY <1>10, CancelRows, RowsStepTyped DEF Cancel
<1>11. ASSUME NEW i \in DOMAIN shift, Remove(i) PROVE Typed'
  BY <1>11, RemoveRows, RowsStepTyped DEF Remove
<1>12. ASSUME NEW store \in size.stores, NEW week \in 0..1, PublishRange(store, week) PROVE Typed'
  BY <1>12, PublishRows, RowsStepTyped DEF PublishRange
<1>13. ASSUME NEW store \in size.stores, NEW week \in 0..1, NEW block \in size.blocks,
              ApplyTemplate(store, week, block)
       PROVE  Typed'
  BY <1>13, TemplateRows, RowsStepTyped DEF ApplyTemplate
<1>14. ASSUME NEW store \in size.stores, NEW required \in size.required, SetTargets(store, required)
       PROVE  Typed'
  BY <1>14, TargetsTyped
<1>15. ASSUME NEW store \in size.stores, NEW n \in size.capacities, SetCapacity(store, n)
       PROVE  Typed'
  BY <1>15, CapacitiesTyped
<1>16. CASE UNCHANGED vars
  BY <1>16 DEF vars, Typed, TypeOK, CallState, Target, Known, Knows, There
<1>17. QED
  BY <1>1, <1>2, <1>3, <1>4, <1>5, <1>6, <1>7, <1>8, <1>9, <1>10, <1>11, <1>12, <1>13, <1>14, <1>15,
     <1>16 DEF Next

\* Shifts, targets and what handlers hold are what they are declared to be, whatever is
\* created, copied and moved at once: no copy leaves the two weeks and no source is
\* invented.
THEOREM TypeCorrect == Spec => []TypeOK
<1>1. Typed => TypeOK
  BY DEF Typed
<1>2. QED
  BY TypedInit, TypedStep, <1>1, PTL DEF Spec

-----------------------------------------------------------------------------
\* Once the capacity is read, the handler is past its checks or counts who is there.
LEMMA CapacityRead ==
    ASSUME Typed, NEW c \in Calls, CheckCapacity(c)
    PROVE  /\ \E q : /\ call' = [call EXCEPT ![c] = q]
                      /\ q.id = call[c].id /\ q.row = call[c].row /\ q.set = call[c].set
                      /\ q.pc = IF capacity[call[c].row.store] = 0 THEN Enter(c) ELSE "concurrent"
           /\ call[c].pc = "capacity" /\ call[c].row \in Shift /\ Enter(c) \in {"insert", "update"}
           /\ UNCHANGED <<shift, target, capacity, size, held, unchecked>>
<1>1. PICK p : p = call[c]
  OBVIOUS
<1>2. p \in CallState /\ p.pc = "capacity" /\ p.row \in Shift
  BY <1>1 DEF Typed, TypeOK, Known, Knows, Working, CheckCapacity, At
<1>3. PICK limit, pc : /\ limit = capacity[p.row.store]
                       /\ pc = IF limit = 0 THEN Enter(c) ELSE "concurrent"
  OBVIOUS
<1>4. PICK q : q = [p EXCEPT !.pc = pc, !.limit = limit]
  OBVIOUS
<1>5. q.id = p.id /\ q.row = p.row /\ q.set = p.set /\ q.pc = pc
  BY <1>2, <1>4 DEF CallState
<1>6. call' = [call EXCEPT ![c].pc = pc, ![c].limit = limit] /\ UNCHANGED <<shift, Rest, unchecked>>
  BY <1>1, <1>3 DEF CheckCapacity
<1>7. call' = [call EXCEPT ![c] = q]
  BY <1>1, <1>4, <1>6 DEF Typed, TypeOK
<1>8. QED
  BY <1>1, <1>2, <1>3, <1>5, <1>6, <1>7 DEF Enter, Rest

-----------------------------------------------------------------------------
(* How many hold a place: the rows that are checked and of a kind R, and the *)
(* handlers of such a row past a check, at one of the awaits Q.              *)

Bookable(R) ==
    R \subseteq Shift /\ \A r, s \in Shift : AsLookedAt(r, s) /\ s \in R => r \in R /\ r.employee # Null

Held(R) == {i \in Checked : shift[i] \in R}
Changing(R, Q) == {c \in Calls : call[c].pc \in Q /\ call[c].id # 0 /\ call[c].row \in R}
Adding(R, Q) == {c \in Calls : call[c].pc \in Q /\ call[c].id = 0 /\ call[c].row \in R}
Places(R, Q) == Held(R) \cup {call[c].id : c \in Changing(R, Q)}

Fits(R, Q, m) == Cardinality(Places(R, Q)) + Cardinality(Adding(R, Q)) <= m

Shrinks(R, Q) == Places(R, Q)' \subseteq Places(R, Q) /\ Adding(R, Q)' \subseteq Adding(R, Q)

LEMMA FewerFit ==
    ASSUME NEW P, NEW A, IsFiniteSet(P), IsFiniteSet(A), NEW m \in Int,
           Cardinality(P) + Cardinality(A) <= m,
           NEW P2 \in SUBSET P, NEW A2 \in SUBSET A
    PROVE  Cardinality(P2) + Cardinality(A2) <= m
<1>1. /\ Cardinality(P) \in Nat /\ Cardinality(A) \in Nat
      /\ Cardinality(P2) \in Nat /\ Cardinality(A2) \in Nat
      /\ Cardinality(P2) <= Cardinality(P) /\ Cardinality(A2) <= Cardinality(A)
  BY FS_Subset, FS_CardinalityType
<1>2. QED
  BY <1>1

\* One more of the first, one less of the second.
LEMMA MovedFit ==
    ASSUME NEW P, NEW A, IsFiniteSet(P), IsFiniteSet(A), NEW m \in Int,
           Cardinality(P) + Cardinality(A) <= m, NEW x, NEW c \in A,
           NEW P2 \in SUBSET (P \cup {x}), NEW A2 \in SUBSET (A \ {c})
    PROVE  Cardinality(P2) + Cardinality(A2) <= m
<1>1. /\ Cardinality(P) \in Nat /\ Cardinality(A) \in Nat
      /\ IsFiniteSet(P \cup {x}) /\ Cardinality(P \cup {x}) <= Cardinality(P) + 1
      /\ IsFiniteSet(A \ {c}) /\ Cardinality(A \ {c}) = Cardinality(A) - 1
      /\ Cardinality(P \cup {x}) \in Nat /\ Cardinality(A \ {c}) \in Nat
  <2>1. Cardinality(P \cup {x}) = IF x \in P THEN Cardinality(P) ELSE Cardinality(P) + 1
    BY FS_AddElement
  <2>2. Cardinality(P) \in Nat /\ Cardinality(A) \in Nat
    BY FS_CardinalityType
  <2>3. IsFiniteSet(P \cup {x}) /\ IsFiniteSet(A \ {c}) /\ Cardinality(A \ {c}) = Cardinality(A) - 1
    BY FS_AddElement, FS_RemoveElement
  <2>4. QED
    BY <2>1, <2>2, <2>3, FS_CardinalityType
<1>2. Cardinality(P \cup {x}) + Cardinality(A \ {c}) <= m
  BY <1>1
<1>3. QED
  BY <1>1, <1>2, FewerFit

LEMMA ImageFits ==
    ASSUME NEW U, IsFiniteSet(U), NEW at
    PROVE  IsFiniteSet({at[c] : c \in U}) /\ Cardinality({at[c] : c \in U}) <= Cardinality(U)
<1>1. PICK I : I = {at[c] : c \in U}
  OBVIOUS
<1> DEFINE f == [c \in U |-> at[c]]
<1>2. I = {f[c] : c \in U} /\ f \in Surjection(U, I)
  BY <1>1 DEF Surjection
<1>3. QED
  BY <1>1, <1>2, FS_Surjection

\* All but k of the first, and the second, belong to handlers at work.
LEMMA AtWorkFit ==
    ASSUME NEW H, NEW U, NEW A, NEW C, NEW I, IsFiniteSet(H), IsFiniteSet(C),
           NEW k \in Nat, NEW b \in Nat, Cardinality(H) <= k, Cardinality(C) <= b,
           U \cup A \subseteq C, U \cap A = {}, IsFiniteSet(I), Cardinality(I) <= Cardinality(U),
           NEW P2 \in SUBSET (H \cup I)
    PROVE  Cardinality(P2) + Cardinality(A) <= k + b
<1>1. IsFiniteSet(U) /\ IsFiniteSet(A) /\ U \subseteq C /\ A \subseteq C
  BY FS_Subset
<1>2. IsFiniteSet(I) /\ Cardinality(I) <= Cardinality(U)
  OBVIOUS
<1>3. Cardinality(U) + Cardinality(A) <= Cardinality(C)
  <2>1. /\ Cardinality(U \cup A) = Cardinality(U) + Cardinality(A) - Cardinality(U \cap A)
        /\ Cardinality(U \cup A) <= Cardinality(C) /\ Cardinality(U \cap A) = 0
    BY <1>1, FS_Union, FS_Subset, FS_EmptySet
  <2>2. Cardinality(U) \in Nat /\ Cardinality(A) \in Nat /\ Cardinality(C) \in Nat
    BY <1>1, FS_CardinalityType
  <2>3. QED
    BY <2>1, <2>2
<1>4. Cardinality(H \cup I) <= Cardinality(H) + Cardinality(I) /\ IsFiniteSet(H \cup I)
  <2>1. /\ Cardinality(H \cup I) = Cardinality(H) + Cardinality(I) - Cardinality(H \cap I)
        /\ IsFiniteSet(H \cup I) /\ IsFiniteSet(H \cap I)
    BY <1>2, FS_Union, FS_Subset, FS_Intersection
  <2>2. Cardinality(H) \in Nat /\ Cardinality(I) \in Nat /\ Cardinality(H \cap I) \in Nat
    BY <1>2, <2>1, FS_CardinalityType
  <2>3. QED
    BY <2>1, <2>2
<1>5. Cardinality(P2) <= Cardinality(H \cup I) /\ IsFiniteSet(P2)
  BY <1>4, FS_Subset
<1>6. /\ Cardinality(P2) \in Nat /\ Cardinality(H) \in Nat /\ Cardinality(I) \in Nat
      /\ Cardinality(U) \in Nat /\ Cardinality(A) \in Nat /\ Cardinality(C) \in Nat
      /\ Cardinality(H \cup I) \in Nat
  BY <1>1, <1>2, <1>4, <1>5, FS_CardinalityType
<1>7. QED
  BY <1>2, <1>3, <1>4, <1>5, <1>6

LEMMA PlacesFinite ==
    ASSUME TypeOK, IsFiniteSet(Calls), NEW R, NEW Q
    PROVE  IsFiniteSet(Places(R, Q)) /\ IsFiniteSet(Adding(R, Q)) /\ IsFiniteSet(Held(R))
<1>1. DOMAIN shift = 1..Len(shift) /\ Len(shift) \in Nat
  BY ShiftTypes
<1>2. Held(R) \subseteq DOMAIN shift
  BY DEF Held, Checked, Committed, Planned
<1>3. \A c \in Changing(R, Q) : call[c].id \in 1..Len(shift)
  BY <1>1 DEF Changing, TypeOK, CallState
<1>4. Places(R, Q) \subseteq 1..Len(shift) /\ Adding(R, Q) \subseteq Calls
  BY <1>1, <1>2, <1>3 DEF Places, Adding
<1>5. IsFiniteSet(1..Len(shift))
  BY <1>1, FS_Interval
<1>6. QED
  BY <1>1, <1>2, <1>4, <1>5, FS_Subset

LEMMA FitsStill ==
    ASSUME TypeOK, IsFiniteSet(Calls), NEW R, NEW Q, NEW m \in Int, Fits(R, Q, m), Shrinks(R, Q)
    PROVE  Fits(R, Q, m)'
<1>1. IsFiniteSet(Places(R, Q)) /\ IsFiniteSet(Adding(R, Q))
  BY PlacesFinite
<1>2. Cardinality(Places(R, Q)') + Cardinality(Adding(R, Q)') <= m
  BY <1>1, FewerFit DEF Fits, Shrinks
<1>3. QED
  BY <1>2 DEF Fits

\* A step keeps who holds a place, but for the rows of J.
LEMMA HeldStays ==
    ASSUME Typed, NEW R, Bookable(R), NEW J, RowsKept(J), NEW i \in Held(R)', i \notin J
    PROVE  i \in Held(R)
<1>1. i \in Checked' /\ shift'[i] \in R /\ shift'[i] \in Shift
  BY DEF Held, Bookable
<1>2. shift'[i].employee # Null
  BY <1>1 DEF Bookable, AsLookedAt
<1>3. i \in Checked /\ SameBooking(shift'[i], shift[i])
  BY <1>1, <1>2 DEF RowsKept
<1>4. shift[i] \in Shift
  BY <1>3, ShiftTypes DEF Checked, Committed, Planned, Typed
<1>5. shift[i] \in R
  BY <1>1, <1>3, <1>4 DEF SameBooking, Bookable, AsLookedAt
<1>6. QED
  BY <1>3, <1>5 DEF Held

\* A handler goes on, and comes to hold a place only if it held it before.
LEMMA GoesOn ==
    ASSUME Typed, NEW R, NEW Q, NEW c \in Calls, NEW q, call' = [call EXCEPT ![c] = q],
           UNCHANGED <<shift, unchecked>>,
           q.pc \in Q /\ q.row \in R => call[c].pc \in Q /\ call[c].row \in R /\ call[c].id = q.id
    PROVE  Shrinks(R, Q)
<1>1. \A d \in Calls : call'[d] = IF d = c THEN q ELSE call[d]
  BY DEF Typed, TypeOK
<1>2. Held(R)' = Held(R)
  BY DEF Held, Checked, Committed, Planned, There
<1>3. Adding(R, Q)' \subseteq Adding(R, Q)
  BY <1>1 DEF Adding
<1>4. ASSUME NEW d \in Changing(R, Q)'
      PROVE  d \in Changing(R, Q) /\ call'[d].id = call[d].id
  BY <1>1, <1>4 DEF Changing
<1>5. {call[d].id : d \in Changing(R, Q)}' \subseteq {call[d].id : d \in Changing(R, Q)}
  BY <1>4
<1>6. QED
  BY <1>2, <1>3, <1>5 DEF Shrinks, Places

LEMMA ReturnShrinks ==
    ASSUME Typed, NEW R, NEW Q, "idle" \notin Q, NEW c \in Calls, Return(c),
           UNCHANGED <<shift, unchecked>>
    PROVE  Shrinks(R, Q)
<1>1. PICK q : q = Idle
  OBVIOUS
<1>2. q.pc = "idle" /\ call' = [call EXCEPT ![c] = q]
  BY <1>1 DEF Idle, Return
<1>3. QED
  BY <1>2, GoesOn

LEMMA RowsShrink ==
    ASSUME Typed, NEW R, Bookable(R), NEW Q, RowsKept({}), UNCHANGED call
    PROVE  Shrinks(R, Q)
<1>1. Held(R)' \subseteq Held(R)
  BY HeldStays
<1>2. Adding(R, Q)' = Adding(R, Q) /\ Changing(R, Q)' = Changing(R, Q)
  BY DEF Adding, Changing
<1>3. {call[d].id : d \in Changing(R, Q)}' = {call[d].id : d \in Changing(R, Q)}
  BY <1>2
<1>4. QED
  BY <1>1, <1>2, <1>3 DEF Shrinks, Places

\* After a handler's last step.
LEMMA ReturnLeaves ==
    ASSUME Typed, NEW R, NEW Q, "idle" \notin Q, NEW c \in Calls, Return(c)
    PROVE  /\ Adding(R, Q)' = Adding(R, Q) \ {c}
           /\ {call[d].id : d \in Changing(R, Q)}' \subseteq {call[d].id : d \in Changing(R, Q)}
<1>1. \A d \in Calls : call'[d] = IF d = c THEN Idle ELSE call[d]
  BY DEF Return, Typed, TypeOK
<1>2. Idle.pc \notin Q
  BY DEF Idle
<1>3. Adding(R, Q)' = Adding(R, Q) \ {c}
  BY <1>1, <1>2 DEF Adding
<1>4. ASSUME NEW d \in Changing(R, Q)' PROVE d \in Changing(R, Q) /\ call'[d].id = call[d].id
  BY <1>1, <1>2, <1>4 DEF Changing
<1>5. QED
  BY <1>3, <1>4

LEMMA PasteShrinks ==
    ASSUME Typed, NEW R, Bookable(R), NEW Q, "idle" \notin Q, NEW c \in Calls, Paste(c)
    PROVE  Shrinks(R, Q)
<1>1. Held(R)' \subseteq Held(R)
  BY PasteRows, HeldStays
<1>2. Return(c)
  BY DEF Paste
<1>3. /\ Adding(R, Q)' = Adding(R, Q) \ {c}
      /\ {call[d].id : d \in Changing(R, Q)}' \subseteq {call[d].id : d \in Changing(R, Q)}
  BY <1>2, ReturnLeaves
<1>4. QED
  BY <1>1, <1>3 DEF Shrinks, Places

LEMMA WriteShrinks ==
    ASSUME Typed, NEW R, Bookable(R), NEW Q, {"update"} \subseteq Q, "idle" \notin Q, NEW c \in Calls, Write(c)
    PROVE  Shrinks(R, Q)
<1>1. PICK i : i = call[c].id
  OBVIOUS
<1>2. RowsKept({i}) /\ call[c].pc = "update" /\ i # 0
  BY <1>1, WriteRows
<1>3. ASSUME i \in Held(R)' PROVE i \in Places(R, Q)
  <2>1. i \in Checked' /\ shift'[i] \in R /\ shift'[i] \in Shift
    BY <1>3 DEF Held, Bookable
  <2>2. shift'[i].employee # Null
    BY <2>1 DEF Bookable, AsLookedAt
  <2>3. CASE There(i)
    <3>1. AsLookedAt(shift'[i], call[c].row)
      BY <1>1, <2>1, <2>2, <2>3, WriteRows
    <3>2. call[c].row \in Shift
      BY <1>2 DEF Typed, Known, Knows, Working
    <3>3. AsLookedAt(call[c].row, shift'[i])
      BY <3>1 DEF AsLookedAt
    <3>4. call[c].row \in R
      BY <2>1, <3>2, <3>3 DEF Bookable
    <3>5. QED
      BY <1>1, <1>2, <3>4 DEF Places, Changing
  <2>4. CASE ~There(i)
    <3>1. shift' = shift /\ unchecked' = unchecked
      BY <1>1, <2>4, WriteRows
    <3>2. i \in Held(R)
      BY <1>3, <3>1 DEF Held, Checked, Committed, Planned, There
    <3>3. QED
      BY <3>2 DEF Places
  <2>5. QED
    BY <2>3, <2>4
<1>4. \A j \in Held(R)' : j # i => j \in Held(R)
  BY <1>2, HeldStays
<1>5. Return(c)
  BY DEF Write
<1>6. /\ Adding(R, Q)' = Adding(R, Q) \ {c}
      /\ {call[d].id : d \in Changing(R, Q)}' \subseteq {call[d].id : d \in Changing(R, Q)}
  BY <1>5, ReturnLeaves
<1>7. Held(R)' \subseteq Places(R, Q)
  BY <1>3, <1>4 DEF Places
<1>8. QED
  BY <1>6, <1>7 DEF Shrinks, Places

LEMMA InsertFits ==
    ASSUME Typed, IsFiniteSet(Calls), NEW R, Bookable(R), NEW Q, {"insert"} \subseteq Q, "idle" \notin Q,
           NEW c \in Calls, Insert(c), NEW m \in Int, Fits(R, Q, m)
    PROVE  Fits(R, Q, m)'
<1>1. PICK n : n = Len(shift) + 1
  OBVIOUS
<1>2. /\ RowsKept({n}) /\ shift'[n] = call[c].row /\ call[c].row \in Shift
      /\ call[c].pc = "insert" /\ call[c].id = 0
  BY <1>1, InsertRows
<1>3. \A j \in Held(R)' : j # n => j \in Held(R)
  BY <1>2, HeldStays
<1>4. /\ Adding(R, Q)' = Adding(R, Q) \ {c}
      /\ Places(R, Q)' \subseteq Places(R, Q) \cup Held(R)'
  BY ReturnLeaves DEF Insert, Places
<1>5. CASE call[c].row \in R
  <2>1. c \in Adding(R, Q)
    BY <1>2, <1>5 DEF Adding
  <2>2. Places(R, Q)' \subseteq Places(R, Q) \cup {n}
    BY <1>3, <1>4 DEF Places
  <2>3. IsFiniteSet(Places(R, Q)) /\ IsFiniteSet(Adding(R, Q))
    BY PlacesFinite DEF Typed
  <2>4. Cardinality(Places(R, Q)') + Cardinality(Adding(R, Q)') <= m
    <3>1. PICK P, A : P = Places(R, Q) /\ A = Adding(R, Q)
      OBVIOUS
    <3>2. PICK P2, A2 : P2 = Places(R, Q)' /\ A2 = Adding(R, Q)'
      OBVIOUS
    <3>3. /\ IsFiniteSet(P) /\ IsFiniteSet(A) /\ Cardinality(P) + Cardinality(A) <= m
          /\ c \in A /\ P2 \in SUBSET (P \cup {n}) /\ A2 \in SUBSET (A \ {c})
      BY <1>4, <2>1, <2>2, <2>3, <3>1, <3>2 DEF Fits
    <3>4. Cardinality(P2) + Cardinality(A2) <= m
      BY <3>3, MovedFit
    <3>5. QED
      BY <3>2, <3>4
  <2>5. QED
    BY <2>4 DEF Fits
<1>6. CASE call[c].row \notin R
  <2>1. Held(R)' \subseteq Held(R)
    BY <1>2, <1>3, <1>6 DEF Held
  <2>2. Shrinks(R, Q)
    BY <1>4, <2>1 DEF Shrinks, Places
  <2>3. QED
    BY <2>2, FitsStill DEF Typed
<1>7. QED
  BY <1>5, <1>6

-----------------------------------------------------------------------------
(* One handler at a time. *)

Alone ==
    ~size.overlap =>
        \A c, d \in Calls : call[c].pc # "idle" /\ call[d].pc # "idle" => c = d

LEMMA StaysAlone ==
    ASSUME Typed, Alone, NEW c \in Calls, MayStart(c) \/ call[c].pc # "idle",
           NEW q, call' = [call EXCEPT ![c] = q], UNCHANGED size
    PROVE  Alone'
<1>1. \A d \in Calls : d # c => call'[d] = call[d]
  BY DEF Typed, TypeOK
<1>2. ASSUME ~size.overlap, NEW d \in Calls, d # c PROVE call[d].pc = "idle"
  BY <1>2 DEF Alone, MayStart, At
<1>3. QED
  BY <1>1, <1>2 DEF Alone

LEMMA AloneStep == Typed /\ Alone /\ [Next]_vars => Alone'
<1> SUFFICES ASSUME Typed, Alone, [Next]_vars PROVE Alone'
  OBVIOUS
<1>1. ASSUME UNCHANGED <<call, size>> PROVE Alone'
  BY <1>1 DEF Alone
<1>2. ASSUME NEW c \in Calls, NEW pc, NEW id, NEW row, NEW set, Begin(c, pc, id, row, set), MayStart(c)
      PROVE  Alone'
  BY <1>2, StaysAlone DEF Begin, Rest
<1>3. ASSUME NEW c \in Calls, NEW store \in size.stores, NEW e \in size.people \cup {Null},
             NEW span \in size.spans, NEW break \in size.breaks, NEW status \in size.statuses,
             Create(c, store, e, span, break, status)
      PROVE  Alone'
  BY <1>2, <1>3 DEF Create
<1>4. ASSUME NEW c \in Calls, NEW i \in DOMAIN shift, NEW set \in size.patches, Update(c, i, set)
      PROVE  Alone'
  BY <1>2, <1>4 DEF Update
<1>5. ASSUME NEW c \in Calls, NEW i \in DOMAIN shift, NEW e \in size.people \cup {Null}, Assign(c, i, e)
      PROVE  Alone'
  BY <1>2, <1>5 DEF Assign
<1>6. ASSUME NEW c \in Calls, Return(c), call[c].pc # "idle", UNCHANGED size
      PROVE  Alone'
  BY <1>6, StaysAlone DEF Return
<1>7. ASSUME NEW c \in Calls, NEW pc, pc # "idle", NEW ok, NEW next, Step(c, pc, ok, next)
      PROVE  Alone'
  <2>1. call[c].pc # "idle" /\ UNCHANGED size
    BY <1>7 DEF Step, At, Rest
  <2>2. PICK q : q = [call[c] EXCEPT !.pc = next]
    OBVIOUS
  <2>3. Return(c) \/ call' = [call EXCEPT ![c] = q]
    BY <1>7, <2>2 DEF Step
  <2>4. QED
    BY <1>6, <2>1, <2>3, StaysAlone
<1>8. ASSUME NEW c \in Calls,
             \/ CheckOverlaps(c) \/ CheckEmployee(c) \/ CheckHours(c)
             \/ CheckCapacity(c) \/ CheckConcurrent(c)
      PROVE  Alone'
  <2>1. CASE CheckCapacity(c)
    <3>1. PICK q : call' = [call EXCEPT ![c] = q]
      BY <2>1, CapacityRead
    <3>2. call[c].pc # "idle" /\ UNCHANGED size
      BY <2>1, CapacityRead
    <3>3. QED
      BY <3>1, <3>2, StaysAlone
  <2>2. QED
    BY <1>7, <1>8, <2>1 DEF CheckOverlaps, CheckEmployee, CheckHours, CheckConcurrent
<1>9. ASSUME NEW c \in Calls, Insert(c) \/ Write(c) \/ Paste(c) PROVE Alone'
  BY <1>6, <1>9 DEF Insert, Write, Paste, At, Rest
<1>10. ASSUME NEW c \in Calls, NEW store \in size.stores, NEW from \in 0..1, NEW to \in 0..1,
              CopyWeek(c, store, from, to)
       PROVE  Alone'
  <2>1. PICK q : call' = [call EXCEPT ![c] = q]
    BY <1>10 DEF CopyWeek
  <2>2. MayStart(c) /\ UNCHANGED size
    BY <1>10 DEF CopyWeek, Rest
  <2>3. QED
    BY <2>1, <2>2, StaysAlone
<1>11. ASSUME NEW i \in DOMAIN shift, Approve(i) \/ Cancel(i) \/ Remove(i) PROVE Alone'
  BY <1>1, <1>11 DEF Approve, Cancel, Remove, Rest
<1>12. ASSUME NEW store \in size.stores, NEW week \in 0..1,
              PublishRange(store, week) \/ \E block \in size.blocks : ApplyTemplate(store, week, block)
       PROVE  Alone'
  BY <1>1, <1>12 DEF PublishRange, ApplyTemplate, Rest
<1>13. ASSUME NEW store \in size.stores,
              \/ \E required \in size.required : SetTargets(store, required)
              \/ \E n \in size.capacities : SetCapacity(store, n)
       PROVE  Alone'
  BY <1>1, <1>13 DEF SetTargets, SetCapacity
<1>14. CASE UNCHANGED vars
  BY <1>1, <1>14 DEF vars
<1>15. QED
  BY <1>3, <1>4, <1>5, <1>8, <1>9, <1>10, <1>11, <1>12, <1>13, <1>14 DEF Next

-----------------------------------------------------------------------------
(* Bookings of a person and people in a store, hour by hour: those past the *)
(* lookup that counts them hold a place.                                    *)

BookedFor(e, h) == {r \in Shift : r.employee = e /\ Covers(r, h)}
FillsOf(s, h) == {r \in Shift : r.store = s /\ r.employee # Null /\ Covers(r, h)}

\* The awaits after the lookup of overlaps, and after that of the capacity.
Q1 == {"employee", "hours", "capacity", "concurrent", "insert", "update"}
Q2 == {"insert", "update"}

Bookings == \A e \in Employees, h \in Hour : Fits(BookedFor(e, h), Q1, 1 + AtOnce)
Fullness == \A s \in Stores, h \in Hour :
                0 \notin held[s] => Fits(FillsOf(s, h), Q2, Max(held[s]) + AtOnce)

LEMMA Kinds ==
    /\ \A e \in Employees, h \in Hour : Bookable(BookedFor(e, h))
    /\ \A s \in Stores, h \in Hour : Bookable(FillsOf(s, h))
<1>1. ASSUME NEW e \in Employees, NEW h \in Hour PROVE Bookable(BookedFor(e, h))
  BY SchedulingAssumption DEF Bookable, BookedFor, AsLookedAt, Covers, SchedulingAssumption
<1>2. ASSUME NEW s \in Stores, NEW h \in Hour PROVE Bookable(FillsOf(s, h))
  BY DEF Bookable, FillsOf, AsLookedAt, Covers
<1>3. QED
  BY <1>1, <1>2

\* A handler that begins does not hold a place yet.
LEMMA BeginShrinks ==
    ASSUME Typed, NEW R, Bookable(R), NEW Q \in {Q1, Q2}, NEW c \in Calls, NEW pc, NEW id, NEW row, NEW set,
           Begin(c, pc, id, row, set), row.employee # Null => pc = "overlaps"
    PROVE  Shrinks(R, Q)
<1>1. PICK q : q = [pc |-> pc, id |-> id, row |-> row, set |-> set, limit |-> 0, rows |-> <<>>]
  OBVIOUS
<1>2. call' = [call EXCEPT ![c] = q] /\ UNCHANGED <<shift, unchecked>> /\ q.pc = pc /\ q.row = row
  BY <1>1 DEF Begin
<1>3. ~ (pc \in Q /\ row \in R)
  BY DEF Q1, Q2, Bookable, AsLookedAt
<1>4. QED
  BY <1>2, <1>3, GoesOn

\* What a check lets through was past the one before it.
LEMMA StepShrinks ==
    ASSUME Typed, NEW R, NEW Q, "idle" \notin Q, NEW c \in Calls, NEW pc, NEW ok, NEW next,
           Step(c, pc, ok, next), next \in Q => pc \in Q
    PROVE  Shrinks(R, Q)
<1>1. PICK q : q = [call[c] EXCEPT !.pc = next]
  OBVIOUS
<1>2. call[c] \in CallState
  BY DEF Typed, TypeOK
<1>3. q.pc = next /\ q.row = call[c].row /\ q.id = call[c].id
  BY <1>1, <1>2 DEF CallState
<1>4. Return(c) \/ call' = [call EXCEPT ![c] = q]
  <2>1. call' = [call EXCEPT ![c].pc = next] => call' = [call EXCEPT ![c] = q]
    BY <1>1 DEF Typed, TypeOK
  <2>2. QED
    BY <2>1 DEF Step
<1>5. call[c].pc = pc /\ UNCHANGED <<shift, unchecked>>
  BY DEF Step, At
<1>6. QED
  BY <1>3, <1>4, <1>5, GoesOn, ReturnShrinks

Enters(c, Q) == (Q = Q1 /\ CheckOverlaps(c)) \/ (Q = Q2 /\ (CheckCapacity(c) \/ CheckConcurrent(c)))

LEMMA ChecksShrink ==
    ASSUME Typed, NEW R, NEW Q \in {Q1, Q2}, NEW c \in Calls, ~Enters(c, Q),
           \/ CheckOverlaps(c) \/ CheckEmployee(c) \/ CheckHours(c)
           \/ CheckCapacity(c) \/ CheckConcurrent(c)
    PROVE  Shrinks(R, Q)
<1>1. "idle" \notin Q
  BY DEF Q1, Q2
<1>2. CASE CheckOverlaps(c)
  BY <1>1, <1>2, StepShrinks DEF CheckOverlaps, Enters, Q1, Q2
<1>3. CASE CheckEmployee(c)
  BY <1>1, <1>3, StepShrinks DEF CheckEmployee, Enters, Q1, Q2
<1>4. CASE CheckHours(c)
  BY <1>1, <1>4, StepShrinks DEF CheckHours, Enters, Q1, Q2
<1>5. CASE CheckConcurrent(c)
  BY <1>1, <1>5, StepShrinks DEF CheckConcurrent, Enters, Q1, Q2
<1>6. CASE CheckCapacity(c)
  <2>1. PICK q : /\ call' = [call EXCEPT ![c] = q] /\ q.id = call[c].id /\ q.row = call[c].row
                 /\ call[c].pc = "capacity" /\ UNCHANGED <<shift, unchecked>>
    BY <1>6, CapacityRead
  <2>2. "capacity" \in Q
    BY <1>6 DEF Enters, Q1, Q2
  <2>3. QED
    BY <2>1, <2>2, GoesOn
<1>7. QED
  BY <1>2, <1>3, <1>4, <1>5, <1>6

\* A handler comes to hold a place after it counted k of them, and others may
\* have counted the same ones.
LEMMA EntersFit ==
    ASSUME Typed, Alone, IsFiniteSet(Calls), NEW R, NEW Q, "idle" \notin Q,
           NEW c \in Calls, NEW pc, pc # "idle", NEW ok, NEW next \in Q, Step(c, pc, ok, next),
           NEW k \in Nat, NEW m \in Int, m = k + 1 + AtOnce, Fits(R, Q, m),
           ok /\ call[c].row \in R => Cardinality(Held(R) \ {call[c].id}) <= k
    PROVE  Fits(R, Q, m)'
<1>1. PICK q : q = [call[c] EXCEPT !.pc = next]
  OBVIOUS
<1>2. call[c] \in CallState /\ call[c].id \in 0..Len(shift) /\ 0 \notin DOMAIN shift
  BY ShiftTypes DEF Typed, TypeOK, CallState
<1>3. q.pc = next /\ q.row = call[c].row /\ q.id = call[c].id
  BY <1>1, <1>2 DEF CallState
<1>4. ok => call' = [call EXCEPT ![c] = q]
  <2>1. call' = [call EXCEPT ![c].pc = next] => call' = [call EXCEPT ![c] = q]
    BY <1>1 DEF Typed, TypeOK
  <2>2. QED
    BY <2>1 DEF Step
<1>5. call[c].pc = pc /\ UNCHANGED <<shift, unchecked>> /\ (~ok => Return(c))
  BY DEF Step, At
<1>6. CASE ~ok
  BY <1>5, <1>6, ReturnShrinks, FitsStill DEF Typed
<1>7. CASE ok /\ call[c].row \notin R
  <2>1. Shrinks(R, Q)
    BY <1>3, <1>4, <1>5, <1>7, GoesOn
  <2>2. QED
    BY <2>1, FitsStill DEF Typed
<1>8. CASE ok /\ call[c].row \in R
  <2>1. PICK C : C = IF size.overlap THEN Calls ELSE {c}
    OBVIOUS
  <2>2. PICK H : H = Held(R) \ {call[c].id}
    OBVIOUS
  <2>3. PICK U, A, P2 : U = Changing(R, Q)' /\ A = Adding(R, Q)' /\ P2 = Places(R, Q)'
    OBVIOUS
  <2>4. PICK at : at = [d \in Calls |-> call'[d].id]
    OBVIOUS
  <2>5. PICK b : b = Cardinality(C)
    OBVIOUS
  <2>6. IsFiniteSet(C) /\ b \in Nat /\ Cardinality(C) <= b
    <3>1. IsFiniteSet({c}) /\ Cardinality({c}) = 1
      BY FS_Singleton
    <3>2. IsFiniteSet(C)
      BY <2>1, <3>1
    <3>3. b \in Nat
      BY <2>5, <3>2, FS_CardinalityType
    <3>4. QED
      BY <2>5, <3>2, <3>3
  <2>7. k + b = m
    <3>1. b = 1 + AtOnce
      <4>1. Cardinality({c}) = 1 /\ Cardinality(Calls) \in Nat
        BY FS_Singleton, FS_CardinalityType
      <4>2. QED
        BY <2>1, <2>5, <4>1 DEF AtOnce
    <3>2. AtOnce \in Int
      BY FS_CardinalityType DEF AtOnce
    <3>3. QED
      BY <3>1, <3>2
  <2>8. IsFiniteSet(H) /\ Cardinality(H) <= k
    BY <1>8, <2>2, PlacesFinite, FS_Subset DEF Typed
  <2>9. \A d \in Calls : call'[d] = IF d = c THEN q ELSE call[d]
    BY <1>4, <1>8 DEF Typed, TypeOK
  <2>10. U \cup A \subseteq C /\ U \cap A = {} /\ U \subseteq Calls
    <3>1. \A d \in U \cup A : d \in Calls /\ call'[d].pc # "idle"
      BY <2>3 DEF Changing, Adding
    <3>2. U \cap A = {}
      BY <2>3 DEF Changing, Adding
    <3>3. \A d \in U \cup A : d \in C
      BY <1>5, <2>1, <2>9, <3>1 DEF Alone
    <3>4. QED
      BY <3>1, <3>2, <3>3
  <2>11. P2 \in SUBSET (H \cup {at[d] : d \in U})
    <3>1. Held(R)' = Held(R)
      BY <1>5 DEF Held, Checked, Committed, Planned, There
    <3>2. call[c].id # 0 => c \in U /\ at[c] = call[c].id
      BY <1>3, <1>8, <2>3, <2>4, <2>9 DEF Changing
    <3>3. 0 \notin Held(R)
      BY <1>2 DEF Held, Checked, Committed, Planned
    <3>4. Held(R) \subseteq H \cup {at[d] : d \in U}
      BY <2>2, <3>2, <3>3
    <3>5. {call[d].id : d \in Changing(R, Q)}' = {at[d] : d \in U}
      BY <2>3, <2>4, <2>10
    <3>6. QED
      BY <2>3, <3>1, <3>4, <3>5 DEF Places
  <2>12. Cardinality(P2) + Cardinality(A) <= k + b
    <3>1. U \cup A \subseteq C /\ U \cap A = {}
      BY <2>10
    <3>2. PICK I : I = {at[d] : d \in U}
      OBVIOUS
    <3>3. P2 \in SUBSET (H \cup I)
      BY <2>11, <3>2
    <3>4. IsFiniteSet(I) /\ Cardinality(I) <= Cardinality(U)
      <4>1. IsFiniteSet(U)
        BY <2>6, <3>1, FS_Subset
      <4>2. QED
        BY <3>2, <4>1, ImageFits, Zenon
    <3>5. QED
      BY <2>6, <2>8, <3>1, <3>3, <3>4, AtWorkFit
  <2>13. QED
    BY <2>3, <2>7, <2>12 DEF Fits
<1>9. QED
  BY <1>6, <1>7, <1>8

\* Two shifts that cover the same hour overlap: once none of theirs does, a person
\* is not planned for an hour of the new one.
LEMMA BookedAlone ==
    ASSUME Typed, NEW c \in Calls, call[c].pc = "overlaps",
           EmployeeOverlaps(call[c].row, call[c].id) = {}, NEW e \in Employees, NEW h \in Hour,
           call[c].row \in BookedFor(e, h)
    PROVE  Held(BookedFor(e, h)) \ {call[c].id} = {}
<1>1. ASSUME NEW i \in Held(BookedFor(e, h)) \ {call[c].id} PROVE FALSE
  <2>1. i \in Committed /\ shift[i] \in Shift /\ shift[i].employee = e /\ Covers(shift[i], h)
    BY DEF Held, BookedFor, Checked
  <2>2. call[c].row \in Shift /\ call[c].row.employee = e /\ Covers(call[c].row, h)
    BY DEF BookedFor
  <2>3. Overlap(shift[i], call[c].row)
    BY <2>1, <2>2 DEF Overlap, Covers, Shift, Hour
  <2>4. i \in EmployeeOverlaps(call[c].row, call[c].id)
    BY <2>1, <2>2, <2>3 DEF EmployeeOverlaps
  <2>5. QED
    BY <2>4
<1>2. QED
  BY <1>1

LEMMA StoreCounted ==
    ASSUME Typed, IsFiniteSet(Calls), NEW c \in Calls, NEW limit \in Nat,
           WithinCapacity(call[c].row, call[c].id, limit), NEW s \in Stores, NEW h \in Hour, call[c].row \in FillsOf(s, h)
    PROVE  Cardinality(Held(FillsOf(s, h)) \ {call[c].id}) <= limit - 1
<1>1. PICK S : S = StoreConcurrent(call[c].row, call[c].id)
  OBVIOUS
<1>2. Cardinality(S) < limit
  BY <1>1 DEF WithinCapacity
<1>3. PICK H : H = Held(FillsOf(s, h)) \ {call[c].id}
  OBVIOUS
<1>4. H \subseteq S
  <2>1. ASSUME NEW i \in H PROVE i \in S
    <3>1. i \in Committed /\ shift[i] \in Shift /\ shift[i].store = s /\ shift[i].employee # Null
          /\ Covers(shift[i], h) /\ i # call[c].id
      BY <1>3 DEF Held, FillsOf, Checked
    <3>2. call[c].row \in Shift /\ call[c].row.store = s /\ Covers(call[c].row, h)
      BY DEF FillsOf
    <3>3. Overlap(shift[i], call[c].row)
      BY <3>1, <3>2 DEF Overlap, Covers, Shift, Hour
    <3>4. QED
      BY <1>1, <3>1, <3>2, <3>3 DEF StoreConcurrent
  <2>2. QED
    BY <2>1
<1>5. IsFiniteSet(S)
  <2>1. S \subseteq 1..Len(shift) /\ Len(shift) \in Nat
    BY <1>1, ShiftTypes DEF StoreConcurrent, Committed, Planned, Typed
  <2>2. IsFiniteSet(1..Len(shift))
    BY <2>1, FS_Interval
  <2>3. QED
    BY <2>1, <2>2, FS_Subset
<1>6. Cardinality(H) <= Cardinality(S) /\ Cardinality(H) \in Nat /\ Cardinality(S) \in Nat
  BY <1>4, <1>5, FS_Subset, FS_CardinalityType
<1>7. QED
  BY <1>2, <1>3, <1>6

\* Every step but the lookup that counts what a handler comes to hold.
LEMMA FitsStep ==
    ASSUME Typed, IsFiniteSet(Calls), NEW R, Bookable(R), NEW Q \in {Q1, Q2}, NEW m \in Int, Fits(R, Q, m),
           [Next]_vars, \A c \in Calls : Enters(c, Q) => Fits(R, Q, m)'
    PROVE  Fits(R, Q, m)'
<1>1. "idle" \notin Q /\ {"insert"} \subseteq Q /\ {"update"} \subseteq Q /\ "paste" \notin Q
  BY DEF Q1, Q2
<1>2. Shrinks(R, Q) => Fits(R, Q, m)'
  BY FitsStill DEF Typed
<1>3. ASSUME NEW c \in Calls, NEW store \in size.stores, NEW e \in size.people \cup {Null},
             NEW span \in size.spans, NEW break \in size.breaks, NEW status \in size.statuses,
             Create(c, store, e, span, break, status)
      PROVE  Shrinks(R, Q)
  <2>1. PICK row, pc : /\ Begin(c, pc, 0, row, Null) /\ row.employee = e
                       /\ pc = IF e = Null THEN "insert" ELSE "overlaps"
    BY <1>3 DEF Create
  <2>2. QED
    BY <2>1, BeginShrinks
<1>4. ASSUME NEW c \in Calls, NEW i \in DOMAIN shift, NEW set \in size.patches, Update(c, i, set)
      PROVE  Shrinks(R, Q)
  <2>1. PICK row, pc, all : Begin(c, pc, i, row, all) /\ pc = IF row.employee = Null THEN "update" ELSE "overlaps"
    BY <1>4 DEF Update
  <2>2. QED
    BY <2>1, BeginShrinks
<1>5. ASSUME NEW c \in Calls, NEW i \in DOMAIN shift, NEW e \in size.people \cup {Null}, Assign(c, i, e)
      PROVE  Shrinks(R, Q)
  <2>1. There(i)
    BY <1>5 DEF Assign
  <2>2. PICK set, row : set = Assigning(i, e) /\ row = Patch(shift[i], set)
    OBVIOUS
  <2>3. row.employee = e
    BY <2>1, <2>2, AssignSets
  <2>4. PICK pc : pc = IF e = Null THEN "update" ELSE "overlaps"
    OBVIOUS
  <2>5. Begin(c, pc, i, row, set)
    BY <1>5, <2>2, <2>4 DEF Assign, Assigning
  <2>6. QED
    BY <2>3, <2>4, <2>5, BeginShrinks
<1>6. ASSUME NEW c \in Calls,
             \/ CheckOverlaps(c) \/ CheckEmployee(c) \/ CheckHours(c)
             \/ CheckCapacity(c) \/ CheckConcurrent(c)
      PROVE  Fits(R, Q, m)'
  BY <1>2, <1>6, ChecksShrink
<1>7. ASSUME NEW c \in Calls, Insert(c) PROVE Fits(R, Q, m)'
  BY <1>1, <1>7, InsertFits
<1>8. ASSUME NEW c \in Calls, Write(c) PROVE Shrinks(R, Q)
  BY <1>1, <1>8, WriteShrinks
<1>9. ASSUME NEW c \in Calls, Paste(c) PROVE Shrinks(R, Q)
  BY <1>1, <1>9, PasteShrinks
<1>10. ASSUME NEW c \in Calls, NEW store \in size.stores, NEW from \in 0..1, NEW to \in 0..1,
              CopyWeek(c, store, from, to)
       PROVE  Shrinks(R, Q)
  <2>0. PICK rows : call' = [call EXCEPT ![c] = [Idle EXCEPT !.pc = "paste", !.rows = rows]]
    BY <1>10 DEF CopyWeek
  <2>1. PICK q : q = [Idle EXCEPT !.pc = "paste", !.rows = rows]
    OBVIOUS
  <2>2. UNCHANGED <<shift, unchecked>>
    BY <1>10 DEF CopyWeek
  <2>3. q.pc = "paste" /\ call' = [call EXCEPT ![c] = q]
    BY <2>0, <2>1 DEF Idle
  <2>4. QED
    BY <1>1, <2>2, <2>3, GoesOn
<1>11. ASSUME NEW i \in DOMAIN shift, Approve(i) \/ Cancel(i) \/ Remove(i) PROVE Shrinks(R, Q)
  <2>1. RowsKept({})
    BY <1>11, ApproveRows, CancelRows, RemoveRows
  <2>2. UNCHANGED call
    BY <1>11 DEF Approve, Cancel, Remove
  <2>3. QED
    BY <2>1, <2>2, RowsShrink
<1>12. ASSUME NEW store \in size.stores, NEW week \in 0..1, PublishRange(store, week)
       PROVE  Shrinks(R, Q)
  BY <1>12, PublishRows, RowsShrink DEF PublishRange
<1>13. ASSUME NEW store \in size.stores, NEW week \in 0..1, NEW block \in size.blocks,
              ApplyTemplate(store, week, block)
       PROVE  Shrinks(R, Q)
  BY <1>13, TemplateRows, RowsShrink DEF ApplyTemplate
<1>14. ASSUME UNCHANGED <<shift, unchecked, call>> PROVE Shrinks(R, Q)
  BY <1>14 DEF Shrinks, Places, Adding, Changing, Held, Checked, Committed, Planned, There
<1>15. ASSUME NEW store \in size.stores,
              \/ \E required \in size.required : SetTargets(store, required)
              \/ \E n \in size.capacities : SetCapacity(store, n)
       PROVE  Shrinks(R, Q)
  BY <1>14, <1>15 DEF SetTargets, SetCapacity
<1>16. CASE UNCHANGED vars
  BY <1>2, <1>14, <1>16 DEF vars
<1>17. CASE Next
  BY <1>2, <1>3, <1>4, <1>5, <1>6, <1>7, <1>8, <1>9, <1>10, <1>11, <1>12, <1>13, <1>15, <1>17 DEF Next
<1>18. QED
  BY <1>16, <1>17

LEMMA StepsKeep ==
    ASSUME Typed, [Next]_vars
    PROVE  UNCHANGED size /\ HeldLasts
<1>1. ASSUME Next PROVE UNCHANGED size /\ HeldLasts
  <2>1. ASSUME NEW c \in Calls, NEW store, NEW e, NEW span, NEW break, NEW status,
               Create(c, store, e, span, break, status)
        PROVE  UNCHANGED size /\ HeldLasts
    BY <2>1 DEF Create, Begin, Rest, HeldLasts
  <2>2. ASSUME NEW c \in Calls, NEW i, NEW set, Update(c, i, set) PROVE UNCHANGED size /\ HeldLasts
    BY <2>2 DEF Update, Begin, Rest, HeldLasts
  <2>3. ASSUME NEW c \in Calls, NEW i, NEW e, Assign(c, i, e) PROVE UNCHANGED size /\ HeldLasts
    BY <2>3 DEF Assign, Begin, Rest, HeldLasts
  <2>4. ASSUME NEW c \in Calls,
               \/ CheckOverlaps(c) \/ CheckEmployee(c) \/ CheckHours(c)
               \/ CheckCapacity(c) \/ CheckConcurrent(c)
        PROVE  UNCHANGED size /\ HeldLasts
    BY <2>4 DEF CheckOverlaps, CheckEmployee, CheckHours, CheckCapacity, CheckConcurrent, Step, Rest, HeldLasts
  <2>5. ASSUME NEW c \in Calls, Insert(c) \/ Write(c) \/ Paste(c) PROVE UNCHANGED size /\ HeldLasts
    BY <2>5 DEF Insert, Write, Paste, Rest, HeldLasts
  <2>6. ASSUME NEW c \in Calls, NEW store, NEW from, NEW to, CopyWeek(c, store, from, to)
        PROVE  UNCHANGED size /\ HeldLasts
    BY <2>6 DEF CopyWeek, Rest, HeldLasts
  <2>7. ASSUME NEW i, Approve(i) \/ Cancel(i) \/ Remove(i) PROVE UNCHANGED size /\ HeldLasts
    BY <2>7 DEF Approve, Cancel, Remove, Rest, HeldLasts
  <2>8. ASSUME NEW store, NEW week, PublishRange(store, week) PROVE UNCHANGED size /\ HeldLasts
    BY <2>8 DEF PublishRange, Rest, HeldLasts
  <2>9. ASSUME NEW store, NEW week, NEW block, ApplyTemplate(store, week, block) PROVE UNCHANGED size /\ HeldLasts
    BY <2>9 DEF ApplyTemplate, Rest, HeldLasts
  <2>10. ASSUME NEW store, NEW required, SetTargets(store, required) PROVE UNCHANGED size /\ HeldLasts
    BY <2>10 DEF SetTargets, HeldLasts
  <2>11. ASSUME NEW store \in size.stores, NEW n \in size.capacities, SetCapacity(store, n)
         PROVE  UNCHANGED size /\ HeldLasts
    BY <2>11, CapacitiesTyped DEF SetCapacity
  <2>12. QED
    BY <1>1, <2>1, <2>2, <2>3, <2>4, <2>5, <2>6, <2>7, <2>8, <2>9, <2>10, <2>11 DEF Next
<1>2. QED
  BY <1>1 DEF vars, HeldLasts

LEMMA AtOnceTyped ==
    ASSUME IsFiniteSet(Calls)
    PROVE  AtOnce \in Int /\ AtOnce >= -1
<1>1. Cardinality(Calls) \in Nat
  BY FS_CardinalityType
<1>2. QED
  BY <1>1 DEF AtOnce

LEMMA BookingsStep ==
    ASSUME Typed, Alone, IsFiniteSet(Calls), Bookings, [Next]_vars
    PROVE  Bookings'
<1>1. ASSUME NEW e \in Employees, NEW h \in Hour PROVE Fits(BookedFor(e, h), Q1, 1 + AtOnce)'
  <2>1. PICK R, m : R = BookedFor(e, h) /\ m = 1 + AtOnce
    OBVIOUS
  <2>2. m \in Int /\ m = 0 + 1 + AtOnce /\ Bookable(R) /\ Fits(R, Q1, m) /\ "idle" \notin Q1
    BY <2>1, AtOnceTyped, Kinds DEF Bookings, Q1
  <2>3. ASSUME NEW c \in Calls, CheckOverlaps(c) PROVE Fits(R, Q1, m)'
    <3>1. PICK ok \in BOOLEAN : ok <=> EmployeeOverlaps(call[c].row, call[c].id) = {}
      OBVIOUS
    <3>2. Step(c, "overlaps", ok, "employee") /\ call[c].pc = "overlaps" /\ "employee" \in Q1
      BY <2>3, <3>1 DEF CheckOverlaps, Step, At, Q1
    <3>3. ASSUME ok, call[c].row \in R PROVE Cardinality(Held(R) \ {call[c].id}) <= 0
      <4>1. Held(R) \ {call[c].id} = {}
        BY <2>1, <3>1, <3>2, <3>3, BookedAlone
      <4>2. QED
        BY <4>1, FS_EmptySet
    <3>4. QED
      BY <2>2, <3>2, <3>3, EntersFit
  <2>4. \A c \in Calls : Enters(c, Q1) => Fits(R, Q1, m)'
    BY <2>3 DEF Enters, Q1, Q2
  <2>5. Fits(R, Q1, m)'
    BY <2>2, <2>4, FitsStep
  <2>6. (1 + AtOnce)' = m /\ BookedFor(e, h)' = R
    BY <2>1, StepsKeep DEF AtOnce, BookedFor, Covers
  <2>7. QED
    BY <2>5, <2>6 DEF Fits, Places, Adding, Changing, Held
<1>2. QED
  BY <1>1 DEF Bookings

LEMMA Highest ==
    ASSUME NEW S, S \subseteq Nat, IsFiniteSet(S), S # {}
    PROVE  Max(S) \in S /\ \A y \in S : Max(S) >= y
<1> DEFINE Above(x) == {y \in S : y > x}
           Left == {k \in Nat : \E x \in S : Cardinality(Above(x)) = k}
<1>1. \A x \in S : IsFiniteSet(Above(x)) /\ Cardinality(Above(x)) \in Nat
  BY FS_Subset, FS_CardinalityType
<1>2. Left # {} /\ Left \subseteq Nat
  BY <1>1
<1>3. PICK k \in Left : \A m \in Left : ~ (<<m, k>> \in OpToRel(<, Nat))
  <2> HIDE DEF Left
  <2>1. QED
    BY <1>2, WFMin, NatLessThanWellFounded
<1>4. \A m \in Left : ~ (m < k)
  BY <1>2, <1>3 DEF OpToRel
<1>5. PICK x \in S : Cardinality(Above(x)) = k
  OBVIOUS
<1>6. ASSUME NEW y \in S, y > x PROVE FALSE
  <2>0. \A z \in S : z \in Int
    OBVIOUS
  <2>1. Above(y) \subseteq Above(x) /\ y \in Above(x) /\ y \notin Above(y)
    <3>1. \A z \in S : z > y => z > x
      BY <1>6, <2>0
    <3>2. ~(y > y)
      BY <2>0
    <3>3. QED
      BY <1>6, <3>1, <3>2
  <2> HIDE DEF Above
  <2>2. Cardinality(Above(y)) < Cardinality(Above(x))
    <3>1. Above(y) # Above(x)
      BY <2>1
    <3>2. Cardinality(Above(y)) <= Cardinality(Above(x))
          /\ (Cardinality(Above(x)) = Cardinality(Above(y)) => Above(y) = Above(x))
      BY <1>1, <2>1, FS_Subset
    <3>3. QED
      BY <1>1, <3>1, <3>2
  <2>3. Cardinality(Above(y)) \in Left
    BY <1>1
  <2>4. QED
    BY <1>4, <1>5, <2>2, <2>3
<1>7. \A y \in S : x >= y
  BY <1>6
<1>8. PICK z : z = CHOOSE w \in S : \A y \in S : w >= y
  OBVIOUS
<1>9. z \in S /\ \A y \in S : z >= y
  BY <1>7, <1>8
<1>10. QED
  BY <1>8, <1>9 DEF Max

\* The highest capacity that a store has had, now and after a step.
LEMMA TopOfHeld ==
    ASSUME Typed, NEW s \in Stores
    PROVE  Max(held[s]) \in held[s] /\ held[s] \subseteq Nat /\ \A n \in held[s] : Max(held[s]) >= n
<1>1. held[s] \subseteq size.capacities /\ held[s] # {}
  BY DEF Typed, TypeOK
<1>2. held[s] \subseteq Nat /\ IsFiniteSet(held[s])
  BY <1>1, SizeTypes, FS_Subset DEF Typed
<1>3. QED
  BY <1>1, <1>2, Highest

LEMMA TopRises ==
    ASSUME Typed, Typed', HeldLasts, UNCHANGED size, NEW s \in Stores
    PROVE  Max(held'[s]) \in held'[s] /\ Max(held'[s]) \in Nat /\ \A n \in held[s] : n <= Max(held'[s])
<1>1. held'[s] \subseteq size.capacities /\ held'[s] # {}
  BY DEF Typed, TypeOK
<1>2. held'[s] \subseteq Nat /\ IsFiniteSet(held'[s])
  BY <1>1, SizeTypes, FS_Subset DEF Typed
<1>3. PICK S : S = held'[s]
  OBVIOUS
<1>4. Max(S) \in S /\ \A n \in S : Max(S) >= n
  BY <1>1, <1>2, <1>3, Highest
<1>5. held[s] \subseteq S
  BY <1>3 DEF HeldLasts
<1>6. QED
  BY <1>2, <1>3, <1>4, <1>5

LEMMA FullnessStep ==
    ASSUME Typed, Alone, IsFiniteSet(Calls), Fullness, [Next]_vars
    PROVE  Fullness'
<1>0. Typed' /\ UNCHANGED size /\ HeldLasts
  BY TypedStep, StepsKeep
<1>1. ASSUME NEW s \in Stores, NEW h \in Hour, 0 \notin held'[s]
      PROVE  Fits(FillsOf(s, h), Q2, Max(held[s]) + AtOnce)'
  <2>1. PICK R, low, top, m : /\ R = FillsOf(s, h) /\ low = Max(held[s]) /\ top = Max(held'[s])
                              /\ m = top + AtOnce
    OBVIOUS
  <2>2. top \in held'[s] /\ top \in Nat /\ \A n \in held[s] : n <= top
    BY <1>0, <2>1, TopRises
  <2>3. low \in held[s] /\ low \in Nat /\ low <= top /\ top # 0
    BY <1>1, <2>1, <2>2, TopOfHeld
  <2>4. 0 \notin held[s]
    BY <1>0, <1>1 DEF HeldLasts
  <2>5. PICK k : k = top - 1
    OBVIOUS
  <2>6. k \in Nat /\ m \in Int /\ m = k + 1 + AtOnce /\ low + AtOnce \in Int /\ low + AtOnce <= m
    BY <2>1, <2>2, <2>3, <2>5, AtOnceTyped
  <2>7. Bookable(R) /\ "idle" \notin Q2
    BY <2>1, Kinds DEF Q2
  <2>8. Fits(R, Q2, m)
    <3>1. Fits(R, Q2, low + AtOnce)
      BY <2>1, <2>4 DEF Fullness
    <3>2. Cardinality(Places(R, Q2)) \in Nat /\ Cardinality(Adding(R, Q2)) \in Nat
      BY PlacesFinite, FS_CardinalityType DEF Typed
    <3>3. QED
      BY <2>6, <3>1, <3>2 DEF Fits
  <2>9. ASSUME NEW c \in Calls, CheckConcurrent(c) PROVE Fits(R, Q2, m)'
    <3>1. PICK ok \in BOOLEAN : ok <=> WithinCapacity(call[c].row, call[c].id, call[c].limit)
      OBVIOUS
    <3>2. PICK next : next = Enter(c)
      OBVIOUS
    <3>3. Step(c, "concurrent", ok, next) /\ next \in Q2 /\ call[c].pc = "concurrent"
      BY <2>9, <3>1, <3>2 DEF CheckConcurrent, Enter, Step, At, Q2
    <3>4. ASSUME ok, call[c].row \in R PROVE Cardinality(Held(R) \ {call[c].id}) <= k
      <4>1. PICK limit : limit = call[c].limit
        OBVIOUS
      <4>2. limit \in held[s]
        BY <2>1, <3>3, <3>4, <4>1 DEF Typed, Known, Knows, FillsOf
      <4>3. limit \in Nat /\ limit <= top
        BY <2>2, <4>2, TopOfHeld
      <4>4. Cardinality(Held(R) \ {call[c].id}) <= limit - 1
        BY <2>1, <3>1, <3>4, <4>1, <4>3, StoreCounted
      <4>5. Cardinality(Held(R) \ {call[c].id}) \in Nat
        BY PlacesFinite, FS_Subset, FS_CardinalityType DEF Typed
      <4>6. QED
        BY <2>2, <2>5, <4>3, <4>4, <4>5
    <3>5. QED
      BY <2>6, <2>7, <2>8, <3>3, <3>4, EntersFit
  <2>10. ASSUME NEW c \in Calls, CheckCapacity(c) PROVE Fits(R, Q2, m)'
    <3>1. PICK q : /\ call' = [call EXCEPT ![c] = q] /\ q.id = call[c].id /\ q.row = call[c].row
                   /\ q.pc = IF capacity[call[c].row.store] = 0 THEN Enter(c) ELSE "concurrent"
      BY <2>10, CapacityRead
    <3>2. q.row \in R => capacity[call[c].row.store] # 0
      <4>1. q.row \in R => call[c].row.store = s
        BY <2>1, <3>1 DEF FillsOf
      <4>2. capacity[s] \in held[s]
        BY DEF Typed, TypeOK
      <4>3. QED
        BY <2>4, <4>1, <4>2
    <3>3. "concurrent" \notin Q2 /\ UNCHANGED <<shift, unchecked>>
      BY <2>10, CapacityRead DEF Q2
    <3>4. Shrinks(R, Q2)
      BY <3>1, <3>2, <3>3, GoesOn
    <3>5. QED
      BY <2>6, <2>8, <3>4, FitsStill DEF Typed
  <2>11. \A c \in Calls : Enters(c, Q2) => Fits(R, Q2, m)'
    BY <2>9, <2>10 DEF Enters, Q1, Q2
  <2>12. Fits(R, Q2, m)'
    BY <2>6, <2>7, <2>8, <2>11, FitsStep
  <2>13. (Max(held[s]) + AtOnce)' = m /\ FillsOf(s, h)' = R
    BY <1>0, <2>1 DEF AtOnce, FillsOf, Covers
  <2>14. QED
    BY <2>12, <2>13 DEF Fits, Places, Adding, Changing, Held
<1>2. QED
  BY <1>1 DEF Fullness

LEMMA PlacesInit ==
    ASSUME Init, IsFiniteSet(Calls)
    PROVE  Alone /\ Bookings /\ Fullness
<1>1. shift = <<>> /\ \A c \in Calls : call[c].pc = "idle"
  BY DEF Init, Idle
<1>2. ASSUME NEW R, NEW Q \in {Q1, Q2}, NEW m \in Nat PROVE Fits(R, Q, m)
  <2>1. Places(R, Q) = {} /\ Adding(R, Q) = {}
    BY <1>1 DEF Places, Held, Checked, Committed, Planned, Changing, Adding, Q1, Q2
  <2>2. QED
    BY <2>1, FS_EmptySet DEF Fits
<1>3. Bookings
  <2>1. 1 + AtOnce \in Nat
    BY AtOnceTyped
  <2>2. QED
    BY <1>2, <2>1 DEF Bookings
<1>4. Fullness
  <2>1. ASSUME NEW s \in Stores, 0 \notin held[s] PROVE Max(held[s]) + AtOnce \in Nat
    <3>1. Max(held[s]) \in Nat /\ Max(held[s]) # 0
      BY <2>1, TypedInit, TopOfHeld
    <3>2. QED
      BY <3>1, AtOnceTyped
  <2>2. QED
    BY <1>2, <2>1 DEF Fullness
<1>5. QED
  BY <1>1, <1>3, <1>4 DEF Alone

\* What holds a place counts a shift that is checked.
LEMMA HeldFits ==
    ASSUME Typed, IsFiniteSet(Calls), NEW R, NEW Q, NEW m \in Int, Fits(R, Q, m)
    PROVE  Cardinality(Held(R)) <= m
<1>1. IsFiniteSet(Places(R, Q)) /\ IsFiniteSet(Adding(R, Q)) /\ Held(R) \subseteq Places(R, Q)
  BY PlacesFinite DEF Typed, Places
<1>2. Cardinality(Held(R)) + Cardinality({}) <= m
  BY <1>1, FewerFit DEF Fits
<1>3. Cardinality({}) = 0 /\ Cardinality(Held(R)) \in Nat
  BY <1>1, FS_EmptySet, FS_Subset, FS_CardinalityType
<1>4. QED
  BY <1>2, <1>3

LEMMA BookedOnce == Typed /\ IsFiniteSet(Calls) /\ Bookings => NoDoubleBooking
<1> SUFFICES ASSUME Typed, IsFiniteSet(Calls), Bookings, NEW e \in Employees, NEW h \in Hour
             PROVE  Cardinality({i \in Checked : shift[i].employee = e /\ Covers(shift[i], h)}) <= 1 + AtOnce
  BY DEF NoDoubleBooking
<1>1. {i \in Checked : shift[i].employee = e /\ Covers(shift[i], h)} = Held(BookedFor(e, h))
  BY ShiftTypes DEF Held, BookedFor, Checked, Committed, Planned, Typed
<1>2. 1 + AtOnce \in Int
  BY AtOnceTyped
<1>3. Cardinality(Held(BookedFor(e, h))) <= 1 + AtOnce
  BY <1>2, HeldFits DEF Bookings
<1>4. QED
  BY <1>1, <1>3

LEMMA NoStoreFull == Typed /\ IsFiniteSet(Calls) /\ Fullness => StoresNotFull
<1> SUFFICES ASSUME Typed, IsFiniteSet(Calls), Fullness, NEW s \in Stores, NEW h \in Hour,
                    0 \notin held[s]
             PROVE  Cardinality({i \in Checked : /\ shift[i].store = s /\ shift[i].employee # Null
                                                 /\ Covers(shift[i], h)}) <= Max(held[s]) + AtOnce
  BY DEF StoresNotFull
<1>1. {i \in Checked : /\ shift[i].store = s /\ shift[i].employee # Null
                       /\ Covers(shift[i], h)} = Held(FillsOf(s, h))
  BY ShiftTypes DEF Held, FillsOf, Checked, Committed, Planned, Typed
<1>2. Max(held[s]) + AtOnce \in Int
  BY AtOnceTyped, TopOfHeld
<1>3. Cardinality(Held(FillsOf(s, h))) <= Max(held[s]) + AtOnce
  BY <1>2, HeldFits DEF Fullness
<1>4. QED
  BY <1>1, <1>3

-----------------------------------------------------------------------------
(* The order of times, one handler at a time.                              *)

InTime(r) == r.starts < r.ends \/ r.source = "template"

\* A row in hand ends after it starts, as it will be written.
CallInTime(p) ==
    /\ p.id = 0 => p.row.starts < p.row.ends
    /\ p.id # 0 /\ There(p.id) => InTime(Patch(shift[p.id], p.set))

TimesInOrder ==
    ~size.overlap => /\ \A i \in Planned : InTime(shift[i])
                     /\ \A c \in Calls : call[c].pc \in Working => CallInTime(call[c])

LEMMA BeginInTime ==
    ASSUME Typed, TimesInOrder, NEW c \in Calls, NEW q, call' = [call EXCEPT ![c] = q],
           UNCHANGED <<shift, size>>, ~size.overlap /\ q.pc \in Working => CallInTime(q)
    PROVE  TimesInOrder'
<1> SUFFICES ASSUME ~size.overlap PROVE TimesInOrder'
  BY DEF TimesInOrder
<1>1. ASSUME NEW d \in Calls, call'[d].pc \in Working PROVE CallInTime(call[d])'
  <2>1. call'[d] = IF d = c THEN q ELSE call[d]
    BY DEF Typed, TypeOK
  <2>2. CASE d = c
    BY <1>1, <2>1, <2>2 DEF CallInTime, There
  <2>3. CASE d # c
    <3>1. CallInTime(call[d])
      BY <1>1, <2>1, <2>3 DEF TimesInOrder
    <3>2. QED
      BY <2>1, <2>3, <3>1 DEF CallInTime, There
  <2>4. QED
    BY <2>2, <2>3
<1>2. QED
  BY <1>1 DEF TimesInOrder, Planned, There

LEMMA RowsInTime ==
    ASSUME Typed, NEW J, RowsKept(J), \A i \in Planned : InTime(shift[i]),
           \A i \in Planned' : i \in J => InTime(shift'[i])
    PROVE  \A i \in Planned' : InTime(shift'[i])
<1> SUFFICES ASSUME NEW i \in Planned', i \notin J PROVE InTime(shift'[i])
  OBVIOUS
<1>1. \/ i \in DOMAIN shift /\ shift[i] # Gone /\ SameBooking(shift'[i], shift[i])
      \/ shift'[i].source = "template"
  BY DEF RowsKept, Planned, There
<1>2. QED
  BY <1>1 DEF InTime, SameBooking, Planned, There

LEMMA KeptInTime ==
    ASSUME Typed, Typed', TimesInOrder, RowsLast, RowsKept({}), UNCHANGED <<call, size>>
    PROVE  TimesInOrder'
<1> SUFFICES ASSUME ~size.overlap PROVE TimesInOrder'
  BY DEF TimesInOrder
<1>1. \A i \in Planned' : InTime(shift'[i])
  BY RowsInTime DEF TimesInOrder
<1>2. ASSUME NEW c \in Calls, call[c].pc \in Working PROVE CallInTime(call[c])'
  <2>1. PICK p : p = call[c]
    OBVIOUS
  <2>2. CallInTime(p) /\ p.id \in 0..Len(shift) /\ (p.id # 0 => p.set \in Values)
    BY <1>2, <2>1 DEF TimesInOrder, Typed, TypeOK, CallState, Known, Knows
  <2>3. ASSUME p.id # 0, There(p.id)' PROVE InTime(Patch(shift'[p.id], p.set))
    <3>1. p.id \in DOMAIN shift /\ There(p.id) /\ shift[p.id] \in Shift
      BY <2>2, <2>3, ShiftTypes DEF Typed, There, RowsLast
    <3>2. shift'[p.id] \in Shift
      BY <2>3 DEF Typed, TypeOK, There
    <3>3. SameBooking(shift'[p.id], shift[p.id])
      BY <2>3, <3>1 DEF RowsKept, There
    <3>4. PICK r, s : r = shift'[p.id] /\ s = shift[p.id]
      OBVIOUS
    <3>5. r \in Shift /\ s \in Shift /\ SameBooking(r, s) /\ p.set \in Values /\ InTime(Patch(s, p.set))
      BY <2>2, <2>3, <3>1, <3>2, <3>3, <3>4 DEF CallInTime
    <3>6. /\ Patch(r, p.set).source = r.source /\ Patch(s, p.set).source = s.source
          /\ Patch(r, p.set).starts = IF p.set.starts = Keep THEN r.starts ELSE p.set.starts
          /\ Patch(r, p.set).ends = IF p.set.ends = Keep THEN r.ends ELSE p.set.ends
          /\ Patch(s, p.set).starts = IF p.set.starts = Keep THEN s.starts ELSE p.set.starts
          /\ Patch(s, p.set).ends = IF p.set.ends = Keep THEN s.ends ELSE p.set.ends
      BY <3>5, PatchTyped
    <3>7. InTime(Patch(r, p.set))
      BY <3>5, <3>6 DEF InTime, SameBooking
    <3>8. QED
      BY <3>4, <3>7
  <2>4. call'[c] = p
    BY <2>1
  <2>5. p.id = 0 => p.row.starts < p.row.ends
    BY <2>2 DEF CallInTime
  <2>6. QED
    BY <2>3, <2>4, <2>5 DEF CallInTime
<1>3. QED
  BY <1>1, <1>2 DEF TimesInOrder

\* The one handler ends, having written the rows of J.
LEMMA LastInTime ==
    ASSUME Typed, Alone, TimesInOrder, NEW c \in Calls, call[c].pc # "idle", Return(c), UNCHANGED size,
           NEW J, RowsKept(J), ~size.overlap => \A i \in Planned' : i \in J => InTime(shift'[i])
    PROVE  TimesInOrder'
<1> SUFFICES ASSUME ~size.overlap PROVE TimesInOrder'
  BY DEF TimesInOrder
<1>1. \A i \in Planned' : InTime(shift'[i])
  BY RowsInTime DEF TimesInOrder
<1>2. \A d \in Calls : call'[d].pc = "idle"
  BY DEF Return, Typed, TypeOK, Idle, Alone
<1>3. "idle" \notin Working
  BY DEF Working
<1>4. QED
  BY <1>1, <1>2, <1>3 DEF TimesInOrder

LEMMA StepInTime ==
    ASSUME Typed, TimesInOrder, NEW c \in Calls, NEW pc \in Working, NEW ok, NEW next, Step(c, pc, ok, next)
    PROVE  TimesInOrder'
<1>1. call[c] \in CallState /\ call[c].pc \in Working /\ UNCHANGED <<shift, size>>
  BY DEF Typed, TypeOK, Step, At, Rest
<1>2. CASE Return(c)
  <2>1. PICK q : q = Idle
    OBVIOUS
  <2>2. call' = [call EXCEPT ![c] = q] /\ q.pc \notin Working
    BY <1>2, <2>1 DEF Return, Idle, Working
  <2>3. QED
    BY <1>1, <2>2, BeginInTime
<1>3. CASE call' = [call EXCEPT ![c].pc = next]
  <2>1. PICK q : q = [call[c] EXCEPT !.pc = next]
    OBVIOUS
  <2>2. call' = [call EXCEPT ![c] = q]
    BY <1>3, <2>1 DEF Typed, TypeOK
  <2>3. q.id = call[c].id /\ q.set = call[c].set /\ q.row = call[c].row
    BY <1>1, <2>1 DEF CallState
  <2>4. ~size.overlap => CallInTime(call[c])
    BY <1>1 DEF TimesInOrder
  <2>5. ~size.overlap => CallInTime(q)
    BY <2>3, <2>4 DEF CallInTime
  <2>6. QED
    BY <1>1, <2>2, <2>5, BeginInTime
<1>4. QED
  BY <1>2, <1>3 DEF Step

LEMMA TimesInit == Init => TimesInOrder
  BY DEF Init, TimesInOrder, Planned, Idle, Working

LEMMA TimesStep == Typed /\ Alone /\ TimesInOrder /\ [Next]_vars => TimesInOrder'
<1> SUFFICES ASSUME Typed, Alone, TimesInOrder, [Next]_vars PROVE TimesInOrder'
  OBVIOUS
<1>0. Typed' /\ UNCHANGED size
  BY TypedStep, StepsKeep
<1>1. ASSUME NEW c \in Calls, NEW store \in size.stores, NEW e \in size.people \cup {Null},
             NEW span \in size.spans, NEW break \in size.breaks, NEW status \in size.statuses,
             Create(c, store, e, span, break, status)
      PROVE  TimesInOrder'
  <2>1. PICK row, pc : Begin(c, pc, 0, row, Null) /\ row.starts = span[1] /\ row.ends = span[2]
    BY <1>1 DEF Create
  <2>2. PICK q : q = [pc |-> pc, id |-> 0, row |-> row, set |-> Null, limit |-> 0, rows |-> <<>>]
    OBVIOUS
  <2>3. call' = [call EXCEPT ![c] = q] /\ UNCHANGED shift
    BY <2>1, <2>2 DEF Begin
  <2>4. span[1] < span[2]
    BY SizeTypes DEF Typed
  <2>5. CallInTime(q)
    BY <2>1, <2>2, <2>4 DEF CallInTime
  <2>6. QED
    BY <1>0, <2>3, <2>5, BeginInTime
<1>2. ASSUME NEW c \in Calls, NEW i \in DOMAIN shift, There(i), NEW r, NEW set, NEW pc, Begin(c, pc, i, r, set),
             ~size.overlap => InTime(Patch(shift[i], set))
      PROVE  TimesInOrder'
  <2>1. PICK q : q = [pc |-> pc, id |-> i, row |-> r, set |-> set, limit |-> 0, rows |-> <<>>]
    OBVIOUS
  <2>2. call' = [call EXCEPT ![c] = q] /\ UNCHANGED shift
    BY <1>2, <2>1 DEF Begin
  <2>3. i # 0
    BY ShiftTypes DEF Typed
  <2>4. ~size.overlap => CallInTime(q)
    BY <1>2, <2>1, <2>3 DEF CallInTime
  <2>5. QED
    BY <1>0, <2>2, <2>4, BeginInTime
<1>3. ASSUME NEW c \in Calls, NEW i \in DOMAIN shift, NEW set \in size.patches, Update(c, i, set)
      PROVE  TimesInOrder'
  <2>1. There(i) /\ shift[i] \in Shift /\ set \in Values
    BY <1>3, ShiftTypes, SizeTypes DEF Typed, Update
  <2>2. PICK r, all, pc : /\ r = Patch(shift[i], set) /\ all = [set EXCEPT !.employee = r.employee]
                          /\ pc = IF r.employee = Null THEN "update" ELSE "overlaps"
    OBVIOUS
  <2>3. r \in Shift
    BY <2>1, <2>2, PatchTyped
  <2>4. r = Patch(shift[i], all)
    BY <2>1, <2>2, <2>3 DEF Values, Shift, Patch
  <2>5. Begin(c, pc, i, r, all) /\ Ordered(r)
    BY <1>3, <2>2 DEF Update
  <2>6. QED
    BY <1>2, <2>1, <2>4, <2>5 DEF Ordered, InTime
<1>4. ASSUME NEW c \in Calls, NEW i \in DOMAIN shift, NEW e \in size.people \cup {Null}, Assign(c, i, e)
      PROVE  TimesInOrder'
  <2>1. There(i) /\ shift[i] \in Shift
    BY <1>4, ShiftTypes DEF Typed, Assign
  <2>2. PICK set : set = Assigning(i, e)
    OBVIOUS
  <2>3. PICK r, pc : Begin(c, pc, i, r, set)
    BY <1>4, <2>2 DEF Assign, Assigning
  <2>4. set \in Values /\ set.starts = Keep /\ set.ends = Keep
    BY <2>1, <2>2, AssignSets DEF Assigning
  <2>5. PICK s : s = Patch(shift[i], set)
    OBVIOUS
  <2>6. s.starts = shift[i].starts /\ s.ends = shift[i].ends /\ s.source = shift[i].source
    BY <2>1, <2>4, <2>5, PatchTyped
  <2>7. ~size.overlap => InTime(shift[i])
    BY <2>1 DEF TimesInOrder, Planned
  <2>8. ~size.overlap => InTime(Patch(shift[i], set))
    BY <2>5, <2>6, <2>7 DEF InTime
  <2>9. QED
    BY <1>2, <2>1, <2>3, <2>8
<1>5. ASSUME NEW c \in Calls,
             \/ CheckOverlaps(c) \/ CheckEmployee(c) \/ CheckHours(c)
             \/ CheckCapacity(c) \/ CheckConcurrent(c)
      PROVE  TimesInOrder'
  <2>1. {"overlaps", "employee", "hours", "capacity", "concurrent"} \subseteq Working
    BY DEF Working
  <2>2. CASE CheckCapacity(c)
    <3>1. PICK q : /\ call' = [call EXCEPT ![c] = q] /\ UNCHANGED shift /\ call[c].pc = "capacity"
                   /\ q.id = call[c].id /\ q.row = call[c].row /\ q.set = call[c].set
      BY <2>2, CapacityRead
    <3>2. ~size.overlap => CallInTime(call[c])
      BY <2>1, <3>1 DEF TimesInOrder
    <3>3. ~size.overlap => CallInTime(q)
      BY <3>1, <3>2 DEF CallInTime
    <3>4. QED
      BY <1>0, <3>1, <3>3, BeginInTime
  <2>3. QED
    BY <1>5, <2>1, <2>2, StepInTime DEF CheckOverlaps, CheckEmployee, CheckHours, CheckConcurrent
<1>6. ASSUME NEW c \in Calls, Insert(c) PROVE TimesInOrder'
  <2>1. PICK n : n = Len(shift) + 1
    OBVIOUS
  <2>2. RowsKept({n}) /\ shift'[n] = call[c].row /\ call[c].pc = "insert" /\ call[c].id = 0
    BY <1>6, <2>1, InsertRows
  <2>3. ~size.overlap => InTime(shift'[n])
    BY <2>2 DEF TimesInOrder, CallInTime, InTime, Working
  <2>4. Return(c)
    BY <1>6 DEF Insert
  <2>5. QED
    BY <1>0, <2>2, <2>3, <2>4, LastInTime
<1>7. ASSUME NEW c \in Calls, Write(c) PROVE TimesInOrder'
  <2>1. PICK i : i = call[c].id
    OBVIOUS
  <2>2. RowsKept({i}) /\ call[c].pc = "update" /\ i # 0 /\ i \in DOMAIN shift
    BY <1>7, <2>1, WriteRows
  <2>3. ASSUME ~size.overlap, i \in Planned' PROVE InTime(shift'[i])
    <3>1. CASE There(i)
      <4>1. shift'[i] = Patch(shift[i], call[c].set)
        BY <1>7, <2>1, <3>1, WriteRows
      <4>2. InTime(Patch(shift[i], call[c].set))
        BY <2>1, <2>2, <2>3, <3>1 DEF TimesInOrder, CallInTime, Working
      <4>3. QED
        BY <4>1, <4>2
    <3>2. CASE ~There(i)
      BY <1>7, <2>1, <2>2, <2>3, <3>2, WriteRows DEF Planned, There
    <3>3. QED
      BY <3>1, <3>2
  <2>4. Return(c)
    BY <1>7 DEF Write
  <2>5. QED
    BY <1>0, <2>2, <2>3, <2>4, LastInTime
<1>8. ASSUME NEW c \in Calls, Paste(c) PROVE TimesInOrder'
  <2>1. RowsKept({}) /\ Return(c) /\ call[c].pc # "idle"
    BY <1>8, PasteRows DEF Paste, At
  <2>2. QED
    BY <1>0, <2>1, LastInTime
<1>9. ASSUME NEW c \in Calls, NEW store \in size.stores, NEW from \in 0..1, NEW to \in 0..1,
             CopyWeek(c, store, from, to)
      PROVE  TimesInOrder'
  <2>1. PICK rows : call' = [call EXCEPT ![c] = [Idle EXCEPT !.pc = "paste", !.rows = rows]]
    BY <1>9 DEF CopyWeek
  <2>2. PICK q : q = [Idle EXCEPT !.pc = "paste", !.rows = rows]
    OBVIOUS
  <2>3. q.pc \notin Working /\ call' = [call EXCEPT ![c] = q] /\ UNCHANGED shift
    BY <1>9, <2>1, <2>2 DEF Idle, Working, CopyWeek
  <2>4. QED
    BY <1>0, <2>3, BeginInTime
<1>10. ASSUME RowsLast, RowsKept({}), UNCHANGED call PROVE TimesInOrder'
  BY <1>0, <1>10, KeptInTime
<1>11. ASSUME NEW i \in DOMAIN shift, Approve(i) \/ Cancel(i) \/ Remove(i) PROVE TimesInOrder'
  <2>1. RowsKept({}) /\ RowsLast
    BY <1>11, ApproveRows, CancelRows, RemoveRows
  <2>2. UNCHANGED call
    BY <1>11 DEF Approve, Cancel, Remove
  <2>3. QED
    BY <1>10, <2>1, <2>2
<1>12. ASSUME NEW store \in size.stores, NEW week \in 0..1, PublishRange(store, week)
       PROVE  TimesInOrder'
  BY <1>10, <1>12, PublishRows DEF PublishRange
<1>13. ASSUME NEW store \in size.stores, NEW week \in 0..1, NEW block \in size.blocks,
              ApplyTemplate(store, week, block)
       PROVE  TimesInOrder'
  BY <1>10, <1>13, TemplateRows DEF ApplyTemplate
<1>14. ASSUME UNCHANGED <<shift, call>> PROVE TimesInOrder'
  BY <1>0, <1>14 DEF TimesInOrder, CallInTime, Planned, There
<1>15. ASSUME NEW store \in size.stores,
              \/ \E required \in size.required : SetTargets(store, required)
              \/ \E n \in size.capacities : SetCapacity(store, n)
       PROVE  TimesInOrder'
  BY <1>14, <1>15 DEF SetTargets, SetCapacity
<1>16. CASE UNCHANGED vars
  BY <1>14, <1>16 DEF vars
<1>17. CASE Next
  BY <1>1, <1>3, <1>4, <1>5, <1>6, <1>7, <1>8, <1>9, <1>11, <1>12, <1>13, <1>15, <1>17 DEF Next
<1>18. QED
  BY <1>16, <1>17

-----------------------------------------------------------------------------
(* What positions weigh together: T adds up the weights W of any of the     *)
(* positions up to n, one after the other, in whatever order.               *)

AddsUp(T, n, W) ==
    /\ T \in [SUBSET (1..n) -> Nat] /\ T[{}] = 0
    /\ \A S \in SUBSET (1..n), i \in 1..n : i \notin S => T[S \cup {i}] = T[S] + W[i]

LEMMA AddsOneMore ==
    ASSUME NEW n \in Nat, n # 0, NEW W \in [1..n -> Nat], NEW T, AddsUp(T, n - 1, W)
    PROVE  \E U : AddsUp(U, n, W)
<1> DEFINE More(S) == IF n \in S THEN W[n] ELSE 0
           U == [S \in SUBSET (1..n) |-> T[S \ {n}] + More(S)]
<1>1. n \in 1..n /\ W[n] \in Nat /\ \A i \in 1..n : i # n => i \in 1..n - 1
  OBVIOUS
<1>2. ASSUME NEW S \in SUBSET (1..n)
      PROVE  /\ S \ {n} \in SUBSET (1..n - 1) /\ T[S \ {n}] \in Nat /\ More(S) \in Nat
             /\ T[S \ {n}] + More(S) \in Nat /\ U[S] = T[S \ {n}] + More(S)
  <2>1. S \ {n} \in SUBSET (1..n - 1)
    BY <1>1
  <2>2. T[S \ {n}] \in Nat /\ More(S) \in Nat
    BY <1>1, <2>1 DEF AddsUp
  <2> HIDE DEF More
  <2>3. QED
    BY <2>1, <2>2
<1>3. U \in [SUBSET (1..n) -> Nat]
  <2> HIDE DEF More
  <2>1. QED
    BY <1>2
<1>4. U[{}] = 0
  BY DEF AddsUp
<1>5. ASSUME NEW S \in SUBSET (1..n), NEW i \in 1..n, i \notin S
      PROVE  U[S \cup {i}] = U[S] + W[i]
  <2>1. S \cup {i} \in SUBSET (1..n)
    OBVIOUS
  <2>2. CASE i = n
    <3>0. n \in S \cup {i} /\ n \notin S
      BY <1>5, <2>2
    <3>1. (S \cup {i}) \ {n} = S /\ S \ {n} = S /\ More(S \cup {i}) = W[n] /\ More(S) = 0
      BY <3>0
    <3>2. T[S] \in Nat
      BY <1>2, <3>1
    <3>3. U[S \cup {i}] = T[(S \cup {i}) \ {n}] + More(S \cup {i}) /\ U[S] = T[S \ {n}] + More(S)
      BY <1>2, <2>1
    <3>4. U[S \cup {i}] = T[S] + W[n] /\ U[S] = T[S] + 0
      <4> HIDE DEF More, U
      <4>1. QED
        BY <3>1, <3>3, Zenon
    <3> HIDE DEF More, U
    <3>5. QED
      BY <1>1, <2>2, <3>2, <3>4
  <2>3. CASE i # n
    <3>1. (S \cup {i}) \ {n} = (S \ {n}) \cup {i} /\ i \in 1..n - 1 /\ i \notin S \ {n}
      BY <1>1, <1>5, <2>3
    <3>2. T[(S \ {n}) \cup {i}] = T[S \ {n}] + W[i]
      BY <1>2, <3>1 DEF AddsUp
    <3>3. More(S \cup {i}) = More(S)
      BY <2>3
    <3>4. U[S \cup {i}] = T[(S \ {n}) \cup {i}] + More(S \cup {i}) /\ U[S] = T[S \ {n}] + More(S)
      BY <2>1, <3>1
    <3>5. T[S \ {n}] \in Nat /\ W[i] \in Nat /\ More(S) \in Nat
      BY <1>2
    <3> HIDE DEF U, More
    <3>6. QED
      BY <3>2, <3>3, <3>4, <3>5
  <2>4. QED
    BY <2>2, <2>3
<1> HIDE DEF U
<1>6. AddsUp(U, n, W)
  BY <1>3, <1>4, <1>5 DEF AddsUp
<1>7. QED
  BY <1>6

LEMMA AddUp ==
    ASSUME NEW n \in Nat, NEW W \in [1..n -> Nat]
    PROVE  \E T : AddsUp(T, n, W)
<1> DEFINE G == {k \in 0..n : \E T : AddsUp(T, k, W)}
<1>1. 0 \in G
  <2>1. SUBSET (1..0) = {{}} /\ 1..0 = {} /\ 0 \in 0..n
    OBVIOUS
  <2> DEFINE Z == [S \in SUBSET (1..0) |-> 0]
  <2>2. AddsUp(Z, 0, W)
    BY <2>1 DEF AddsUp
  <2>3. \E T : AddsUp(T, 0, W)
    <3> HIDE DEF Z
    <3>1. QED
      BY <2>2
  <2>4. QED
    BY <2>1, <2>3
<1>2. ASSUME NEW k \in 1..n, k - 1 \in G PROVE k \in G
  <2>1. PICK T : AddsUp(T, k - 1, W)
    BY <1>2
  <2>2. PICK V : V = [i \in 1..k |-> W[i]]
    OBVIOUS
  <2>3. k \in Nat /\ k # 0 /\ k \in 0..n /\ V \in [1..k -> Nat] /\ \A i \in 1..k : V[i] = W[i]
    BY <2>2
  <2>4. \A i \in 1..k - 1 : V[i] = W[i]
    BY <2>3
  <2>5. AddsUp(T, k - 1, V)
    <3> SUFFICES ASSUME NEW S \in SUBSET (1..k - 1), NEW i \in 1..k - 1, i \notin S
                 PROVE  T[S \cup {i}] = T[S] + V[i]
      BY <2>1 DEF AddsUp
    <3>1. T[S \cup {i}] = T[S] + W[i]
      BY <2>1 DEF AddsUp
    <3>2. QED
      BY <2>4, <3>1
  <2>6. PICK U : AddsUp(U, k, V)
    BY <2>3, <2>5, AddsOneMore
  <2>7. AddsUp(U, k, W)
    <3> SUFFICES ASSUME NEW S \in SUBSET (1..k), NEW i \in 1..k, i \notin S
                 PROVE  U[S \cup {i}] = U[S] + W[i]
      BY <2>6 DEF AddsUp
    <3>1. U[S \cup {i}] = U[S] + V[i]
      BY <2>6 DEF AddsUp
    <3>2. QED
      BY <2>3, <3>1
  <2>8. QED
    BY <2>3, <2>7
<1>3. n \in G
  <2> HIDE DEF G
  <2>1. n \in 0..n
    OBVIOUS
  <2>2. QED
    BY <1>1, <1>2, <2>1, CountUp
<1>4. QED
  BY <1>3

LEMMA MoreWeighsMore ==
    ASSUME NEW n \in Nat, NEW W \in [1..n -> Nat], NEW T, AddsUp(T, n, W),
           NEW S2 \in SUBSET (1..n), NEW S \in SUBSET S2
    PROVE  T[S] <= T[S2]
<1> DEFINE Upto(k) == S \cup {i \in S2 : i <= k}
           G == {k \in 0..n : T[S] <= T[Upto(k)]}
<1>0. /\ \A i \in S2 : i \in 1..n /\ i \in Int /\ ~(i <= 0) /\ i <= n
      /\ \A k \in 1..n, i \in S2 : i <= k <=> i <= k - 1 \/ i = k
      /\ \A k \in 1..n : ~(k <= k - 1)
  OBVIOUS
<1>1. \A k \in 0..n : Upto(k) \in SUBSET (1..n) /\ T[Upto(k)] \in Nat
  BY DEF AddsUp
<1>2. 0 \in G
  <2>0. 0 \in 0..n
    OBVIOUS
  <2>1. Upto(0) = S /\ 0 \in 0..n
    BY <1>0, <2>0, Zenon
  <2>2. T[S] \in Nat
    BY <1>1, <2>1
  <2> HIDE DEF Upto
  <2>3. QED
    BY <2>1, <2>2
<1>3. ASSUME NEW k \in 1..n, k - 1 \in G PROVE k \in G
  <2>1. k \in 0..n /\ k - 1 \in 0..n /\ W[k] \in Nat /\ T[S] \in Nat
    BY DEF AddsUp
  <2>0. /\ \A i \in S2 : i <= k <=> i <= k - 1 \/ i = k
        /\ ~(k <= k - 1) /\ k <= k
    BY <1>0
  <2>2. CASE k \in S2 /\ k \notin S
    <3>1. Upto(k) = Upto(k - 1) \cup {k} /\ k \notin Upto(k - 1)
      BY <2>0, <2>2, Zenon
    <3>2. T[Upto(k)] = T[Upto(k - 1)] + W[k]
      <4> HIDE DEF Upto
      <4>1. PICK V : V = Upto(k - 1)
        OBVIOUS
      <4>2. V \in SUBSET (1..n) /\ k \notin V
        BY <1>1, <2>1, <3>1, <4>1
      <4>3. T[V \cup {k}] = T[V] + W[k]
        BY <4>2 DEF AddsUp
      <4>4. QED
        BY <3>1, <4>1, <4>3
    <3> HIDE DEF Upto
    <3>3. QED
      BY <1>1, <1>3, <2>1, <3>2
  <2>3. CASE ~(k \in S2 /\ k \notin S)
    <3>1. Upto(k) = Upto(k - 1)
      BY <2>0, <2>3, Zenon
    <3> HIDE DEF Upto
    <3>2. QED
      BY <1>3, <2>1, <3>1
  <2>4. QED
    BY <2>2, <2>3
<1>4. n \in G
  <2> HIDE DEF G
  <2>1. n \in 0..n
    OBVIOUS
  <2>2. QED
    BY <1>2, <1>3, <2>1, CountUp
<1>5. Upto(n) = S2
  BY <1>0
<1>6. QED
  BY <1>4, <1>5

\* A sum is what its weights add up to: a least set on which the fold and T differ
\* would have a smaller one.
LEMMA SumIs ==
    ASSUME NEW n \in Nat, NEW W \in [1..n -> Nat], NEW T, AddsUp(T, n, W), NEW f,
           NEW S \in SUBSET (1..n), \A i \in S : f[i] = W[i]
    PROVE  SumFunctionOnSet(f, S) = T[S]
<1> DEFINE E(F) == F = [s \in SUBSET S |->
                           IF s = {} THEN 0
                           ELSE LET x == CHOOSE x \in s : TRUE IN f[x] + F[s \ {x}]]
           U == [s \in SUBSET S |-> T[s]]
<1>1. SumFunctionOnSet(f, S) = (CHOOSE F : E(F))[S]
  BY DEF SumFunctionOnSet, FoldFunctionOnSet, MapThenFoldSet
<1>2. ASSUME NEW s \in SUBSET S, s # {}
      PROVE  LET x == CHOOSE x \in s : TRUE
             IN  x \in s /\ s \ {x} \in SUBSET S /\ T[s] = f[x] + T[s \ {x}]
  <2>1. PICK x : x = CHOOSE y \in s : TRUE
    OBVIOUS
  <2>2. x \in s /\ s \ {x} \in SUBSET (1..n) /\ s = (s \ {x}) \cup {x} /\ x \in 1..n /\ x \notin s \ {x}
    BY <1>2, <2>1
  <2>3. T[s] = T[s \ {x}] + W[x] /\ T[s \ {x}] \in Nat /\ W[x] \in Nat
    <3>1. PICK v : v = s \ {x}
      OBVIOUS
    <3>2. v \in SUBSET (1..n) /\ x \in 1..n /\ x \notin v /\ s = v \cup {x}
      BY <2>2, <3>1
    <3>3. T[v \cup {x}] = T[v] + W[x] /\ T[v] \in Nat /\ W[x] \in Nat
      BY <3>2 DEF AddsUp
    <3>4. QED
      BY <3>1, <3>2, <3>3
  <2>4. f[x] = W[x]
    BY <2>2
  <2>5. T[s] = f[x] + T[s \ {x}]
    BY <2>3, <2>4
  <2>6. QED
    BY <2>1, <2>2, <2>5
<1>3. E(U)
  <2>1. \A s \in SUBSET S :
           T[s] = IF s = {} THEN 0 ELSE LET x == CHOOSE x \in s : TRUE IN f[x] + U[s \ {x}]
    BY <1>2 DEF AddsUp
  <2>2. QED
    BY <2>1
<1>4. PICK F : F = (CHOOSE G : E(G)) /\ E(F)
  <2> HIDE DEF E
  <2>1. E(CHOOSE G : E(G))
    BY <1>3, Zenon
  <2>2. QED
    BY <2>1
<1>a. \A s \in SUBSET S :
         F[s] = IF s = {} THEN 0 ELSE f[CHOOSE x \in s : TRUE] + F[s \ {CHOOSE x \in s : TRUE}]
  <2>1. F = [s \in SUBSET S |->
                IF s = {} THEN 0 ELSE LET x == CHOOSE x \in s : TRUE IN f[x] + F[s \ {x}]]
    BY <1>4, Zenon
  <2>2. QED
    BY <2>1, Zenon
<1>b. F[{}] = 0
  <2>1. {} \in SUBSET S
    OBVIOUS
  <2>2. QED
    BY <1>a, <2>1, Zenon
<1>c. ASSUME NEW s \in SUBSET S, s # {}, NEW x, x = CHOOSE y \in s : TRUE
      PROVE  F[s] = f[x] + F[s \ {x}]
  BY <1>a, <1>c, Zenon
<1> HIDE DEF E
<1>5. IsFiniteSet(S)
  <2>1. IsFiniteSet(1..n)
    BY FS_Interval
  <2>2. QED
    BY <2>1, FS_Subset
<1> DEFINE Bad == {k \in Nat : \E s \in SUBSET S : Cardinality(s) = k /\ F[s] # T[s]}
<1>6. ASSUME Bad # {} PROVE FALSE
  <2>1. PICK k \in Bad : \A m \in Bad : ~ (<<m, k>> \in OpToRel(<, Nat))
    BY <1>6, WFMin, NatLessThanWellFounded
  <2>2. \A m \in Bad : ~ (m < k)
    BY <2>1 DEF OpToRel
  <2>3. PICK s \in SUBSET S : Cardinality(s) = k /\ F[s] # T[s]
    OBVIOUS
  <2>4. s # {}
    <3>1. T[{}] = 0
      BY DEF AddsUp
    <3>2. QED
      BY <1>b, <2>3, <3>1
  <2>5. PICK x : x \in s /\ x = CHOOSE y \in s : TRUE
    BY <2>4
  <2>6. F[s] = f[x] + F[s \ {x}]
    BY <1>c, <2>4, <2>5, Zenon
  <2>7. T[s] = f[x] + T[s \ {x}] /\ s \ {x} \in SUBSET S
    BY <1>2, <2>4, <2>5
  <2>8. IsFiniteSet(s)
    BY <1>5, FS_Subset
  <2>9. Cardinality(s \ {x}) = k - 1 /\ IsFiniteSet(s \ {x}) /\ Cardinality(s \ {x}) \in Nat
    BY <2>3, <2>5, <2>8, FS_RemoveElement, FS_CardinalityType
  <2>10. k - 1 \in Nat /\ k - 1 < k
    BY <2>9
  <2>11. F[s \ {x}] # T[s \ {x}]
    BY <2>3, <2>6, <2>7
  <2>12. k - 1 \in Bad
    BY <2>7, <2>9, <2>10, <2>11
  <2>13. QED
    BY <2>2, <2>10, <2>12
<1>7. F[S] = T[S]
  <2>1. Cardinality(S) \in Nat
    BY <1>5, FS_CardinalityType
  <2>2. QED
    BY <1>6, <2>1
<1>8. QED
  BY <1>1, <1>4, <1>7

\* Lighter positions weigh less together.
LEMMA LessWeighsLess ==
    ASSUME NEW n \in Nat, NEW W \in [1..n -> Nat], NEW V \in [1..n -> Nat], \A i \in 1..n : W[i] <= V[i],
           NEW T, AddsUp(T, n, W), NEW U, AddsUp(U, n, V), NEW S \in SUBSET (1..n)
    PROVE  T[S] <= U[S]
<1> DEFINE Upto(k) == {i \in S : i <= k}
           G == {k \in 0..n : T[Upto(k)] <= U[Upto(k)]}
<1>0. /\ \A i \in S : i \in 1..n /\ i \in Int /\ ~(i <= 0) /\ i <= n
      /\ \A k \in 1..n, i \in S : i <= k <=> i <= k - 1 \/ i = k
      /\ \A k \in 1..n : ~(k <= k - 1)
  OBVIOUS
<1>1. \A k \in 0..n : Upto(k) \in SUBSET (1..n) /\ T[Upto(k)] \in Nat /\ U[Upto(k)] \in Nat
  BY DEF AddsUp
<1>2. 0 \in G
  <2>1. 0 \in 0..n
    OBVIOUS
  <2>2. Upto(0) = {}
    BY <1>0, <2>1, Zenon
  <2> HIDE DEF Upto
  <2>3. T[{}] = 0 /\ U[{}] = 0
    BY DEF AddsUp
  <2>4. T[Upto(0)] = 0 /\ U[Upto(0)] = 0
    BY <2>2, <2>3
  <2>5. QED
    BY <2>1, <2>4
<1>3. ASSUME NEW k \in 1..n, k - 1 \in G PROVE k \in G
  <2>1. k \in 0..n /\ k - 1 \in 0..n /\ W[k] \in Nat /\ V[k] \in Nat /\ W[k] <= V[k]
    OBVIOUS
  <2>2. (\A i \in S : i <= k <=> i <= k - 1 \/ i = k) /\ ~(k <= k - 1) /\ k <= k
    BY <1>0
  <2>3. CASE k \in S
    <3>1. Upto(k) = Upto(k - 1) \cup {k} /\ k \notin Upto(k - 1)
      BY <2>2, <2>3, Zenon
    <3>2. PICK X : X = Upto(k - 1)
      OBVIOUS
    <3> HIDE DEF Upto
    <3>3. X \in SUBSET (1..n) /\ k \notin X /\ T[X] \in Nat /\ U[X] \in Nat
      BY <1>1, <2>1, <3>1, <3>2
    <3>4. T[X \cup {k}] = T[X] + W[k] /\ U[X \cup {k}] = U[X] + V[k]
      BY <3>3 DEF AddsUp
    <3>5. T[X] <= U[X]
      BY <1>3, <3>2
    <3>6. T[X] + W[k] <= U[X] + V[k]
      BY <2>1, <3>3, <3>5
    <3>7. T[Upto(k)] <= U[Upto(k)]
      BY <3>1, <3>2, <3>4, <3>6
    <3>8. QED
      BY <2>1, <3>7
  <2>4. CASE k \notin S
    <3>1. Upto(k) = Upto(k - 1)
      BY <2>2, <2>4, Zenon
    <3> HIDE DEF Upto
    <3>2. QED
      BY <1>3, <2>1, <3>1
  <2>5. QED
    BY <2>3, <2>4
<1>4. n \in G
  <2> HIDE DEF G
  <2>1. n \in 0..n
    OBVIOUS
  <2>2. QED
    BY <1>2, <1>3, <2>1, CountUp
<1>5. Upto(n) = S
  BY <1>0
<1>6. QED
  BY <1>4, <1>5

LEMMA MaxZero == \A k \in Int : Max({0, k}) = IF k > 0 THEN k ELSE 0
<1> SUFFICES ASSUME NEW k \in Int PROVE Max({0, k}) = IF k > 0 THEN k ELSE 0
  OBVIOUS
<1>1. PICK m : m = IF k > 0 THEN k ELSE 0
  OBVIOUS
<1>2. m \in {0, k} /\ \A y \in {0, k} : m >= y
  BY <1>1
<1>3. PICK x : x = CHOOSE z \in {0, k} : \A y \in {0, k} : z >= y
  OBVIOUS
<1>4. x \in {0, k} /\ \A y \in {0, k} : x >= y
  BY <1>2, <1>3
<1>5. x = m
  BY <1>2, <1>4
<1>6. QED
  BY <1>1, <1>3, <1>5 DEF Max

LEMMA MinOfTwo == \A a, b \in Int : Min({a, b}) = IF a < b THEN a ELSE b
<1> SUFFICES ASSUME NEW a \in Int, NEW b \in Int PROVE Min({a, b}) = IF a < b THEN a ELSE b
  OBVIOUS
<1>1. PICK m : m = IF a < b THEN a ELSE b
  OBVIOUS
<1>2. m \in {a, b} /\ \A y \in {a, b} : m <= y
  BY <1>1
<1>3. PICK x : x = CHOOSE z \in {a, b} : \A y \in {a, b} : z <= y
  OBVIOUS
<1>4. x \in {a, b} /\ \A y \in {a, b} : x <= y
  BY <1>2, <1>3
<1>5. x = m
  BY <1>2, <1>4
<1>6. QED
  BY <1>1, <1>3, <1>5 DEF Min

\* The breaks are deducted from what a shift lasts, not from what a check adds for it;
\* and a break below 0 lengthens what it lasts, not what is worked.
LEMMA Lasts ==
    ASSUME NEW r \in Shift
    PROVE  /\ DurationMinutes(r) \in Nat /\ Gross(r) \in Nat /\ Worked(r) \in Nat
           /\ Worked(r) <= DurationMinutes(r) /\ Worked(r) <= Gross(r)
<1>1. r.starts \in Int /\ r.ends \in Int /\ r.break \in Int
  BY SchedulingAssumption DEF Shift, Hour, SchedulingAssumption
<1>2. r.ends - r.starts \in Int /\ r.ends - r.starts - r.break \in Int
  BY <1>1
<1>3. /\ Gross(r) = IF r.ends - r.starts > 0 THEN r.ends - r.starts ELSE 0
      /\ DurationMinutes(r) = IF r.ends - r.starts - r.break > 0 THEN r.ends - r.starts - r.break ELSE 0
  BY <1>2, MaxZero DEF Gross, DurationMinutes
<1>4. DurationMinutes(r) \in Nat /\ Gross(r) \in Nat
  BY <1>1, <1>3
<1>5. Worked(r) = IF Gross(r) < DurationMinutes(r) THEN Gross(r) ELSE DurationMinutes(r)
  BY <1>4, MinOfTwo DEF Worked
<1>6. QED
  BY <1>4, <1>5

HoursOf(rows, S) == SumFunctionOnSet([i \in S |-> Worked(rows[i])], S)

LEMMA HoursAre ==
    ASSUME NEW n \in Nat, NEW W \in [1..n -> Nat], NEW T, AddsUp(T, n, W), NEW rows,
           NEW S \in SUBSET (1..n), \A i \in S : Worked(rows[i]) = W[i]
    PROVE  HoursOf(rows, S) = T[S]
<1>1. PICK f : f = [i \in S |-> Worked(rows[i])]
  OBVIOUS
<1>2. \A i \in S : f[i] = W[i]
  BY <1>1
<1>3. SumFunctionOnSet(f, S) = T[S]
  BY <1>2, SumIs
<1>4. QED
  BY <1>1, <1>3 DEF HoursOf

\* Fewer shifts do not last longer, and one more lasts as long as it does.
LEMMA FewerHours ==
    ASSUME NEW n \in Nat, NEW rows, NEW more, NEW S2 \in SUBSET (1..n), NEW S \in SUBSET S2,
           \A i \in S2 : more[i] \in Shift,
           \A i \in S : Worked(rows[i]) = Worked(more[i])
    PROVE  HoursOf(rows, S) \in Nat /\ HoursOf(more, S2) \in Nat /\ HoursOf(rows, S) <= HoursOf(more, S2)
<1>1. PICK W : W = [i \in 1..n |-> IF i \in S2 THEN Worked(more[i]) ELSE 0]
  OBVIOUS
<1>2. W \in [1..n -> Nat]
  BY <1>1, Lasts
<1>3. PICK T : AddsUp(T, n, W)
  BY <1>2, AddUp
<1>4. S \in SUBSET (1..n)
  OBVIOUS
<1>5. \A i \in S : Worked(rows[i]) = W[i]
  BY <1>1
<1>6. \A i \in S2 : Worked(more[i]) = W[i]
  BY <1>1
<1>7. HoursOf(rows, S) = T[S]
  BY <1>2, <1>3, <1>4, <1>5, HoursAre
<1>8. HoursOf(more, S2) = T[S2]
  BY <1>2, <1>3, <1>6, HoursAre
<1>9. T[S] <= T[S2]
  BY <1>2, <1>3, MoreWeighsMore
<1>10. T[S] \in Nat /\ T[S2] \in Nat
  BY <1>3, <1>4 DEF AddsUp
<1>11. QED
  BY <1>7, <1>8, <1>9, <1>10

LEMMA OneMoreHours ==
    ASSUME NEW n \in Nat, NEW rows, NEW S \in SUBSET (1..n), NEW k \in 1..n, k \notin S,
           \A i \in S \cup {k} : rows[i] \in Shift
    PROVE  HoursOf(rows, S \cup {k}) = HoursOf(rows, S) + Worked(rows[k])
<1>1. PICK W : W = [i \in 1..n |-> IF i \in S \cup {k} THEN Worked(rows[i]) ELSE 0]
  OBVIOUS
<1>2. W \in [1..n -> Nat]
  BY <1>1, Lasts
<1>3. PICK T : AddsUp(T, n, W)
  BY <1>2, AddUp
<1>4. \A i \in S \cup {k} : Worked(rows[i]) = W[i]
  BY <1>1
<1>5. PICK S2 : S2 = S \cup {k}
  OBVIOUS
<1>6. HoursOf(rows, S) = T[S]
  <2>1. S \in SUBSET (1..n)
    OBVIOUS
  <2>2. \A i \in S : Worked(rows[i]) = W[i]
    BY <1>4
  <2>3. QED
    BY <1>2, <1>3, <2>1, <2>2, HoursAre
<1>7. HoursOf(rows, S2) = T[S2]
  <2>1. S2 \in SUBSET (1..n)
    BY <1>5
  <2>2. \A i \in S2 : Worked(rows[i]) = W[i]
    BY <1>4, <1>5
  <2>3. QED
    BY <1>2, <1>3, <2>1, <2>2, HoursAre
<1>8. T[S2] = T[S] + W[k] /\ W[k] = Worked(rows[k])
  <2>1. T[S \cup {k}] = T[S] + W[k]
    BY <1>3 DEF AddsUp
  <2>2. W[k] = Worked(rows[k])
    BY <1>4
  <2>3. QED
    BY <1>5, <2>1, <2>2
<1>9. QED
  BY <1>5, <1>6, <1>7, <1>8

-----------------------------------------------------------------------------
(* The hours of a week, one handler at a time.                             *)

WorkedIn(e, w) == EmployeeShifts(e, w) \ unchecked

\* The awaits after the lookup of hours.
Q3 == {"capacity", "concurrent", "insert", "update"}

\* There is room for the row in hand, its breaks included.
InHours(p) ==
    HoursOf(shift, WorkedIn(p.row.employee, WeekOf(p.row)) \ {p.id}) + Gross(p.row) <= MaxWeek

HoursInLimit ==
    ~size.overlap =>
        /\ \A e \in Employees, w \in Int : HoursOf(shift, WorkedIn(e, w)) <= MaxWeek
        /\ \A c \in Calls : call[c].pc \in Q3 /\ call[c].row.employee \in Employees => InHours(call[c])

LEMMA WorkedTyped ==
    ASSUME TypeOK, NEW e, NEW w
    PROVE  /\ WorkedIn(e, w) \in SUBSET (1..Len(shift)) /\ Len(shift) \in Nat
           /\ \A i \in WorkedIn(e, w) : shift[i] \in Shift
  BY ShiftTypes DEF WorkedIn, EmployeeShifts, Committed, Planned

\* But for the rows of J, what is worked in a week was before, and lasts as long.
LEMMA HoursFall ==
    ASSUME Typed, NEW J, RowsKept(J), NEW e \in Employees, NEW w \in Int, NEW K,
           NEW D, D \subseteq WorkedIn(e, w)', D \cap J = {}, D \cap K = {}
    PROVE  /\ HoursOf(shift', D) \in Nat /\ HoursOf(shift, WorkedIn(e, w) \ K) \in Nat
           /\ HoursOf(shift', D) <= HoursOf(shift, WorkedIn(e, w) \ K)
<1>1. PICK n, rows, S : n = Len(shift) /\ rows = shift' /\ S = WorkedIn(e, w) \ K
  OBVIOUS
<1>2. n \in Nat /\ S \in SUBSET (1..n) /\ \A i \in S : shift[i] \in Shift
  BY <1>1, WorkedTyped DEF Typed
<1>3. e # Null
  BY SchedulingAssumption DEF SchedulingAssumption
<1>4. ASSUME NEW i \in D PROVE i \in S /\ SameBooking(rows[i], shift[i])
  <2>1. i \in Checked' /\ i \notin J /\ shift'[i].employee = e /\ shift'[i].starts \div Week = w
    BY DEF WorkedIn, EmployeeShifts, Checked, WeekOf
  <2>2. i \in Checked /\ SameBooking(shift'[i], shift[i])
    BY <1>3, <2>1 DEF RowsKept
  <2>3. i \in WorkedIn(e, w)
    BY <2>1, <2>2 DEF WorkedIn, EmployeeShifts, Checked, WeekOf, SameBooking
  <2>4. QED
    BY <1>1, <2>2, <2>3
<1>5. \A i \in D : Worked(rows[i]) = Worked(shift[i])
  BY <1>4 DEF Worked, Gross, DurationMinutes, SameBooking
<1>6. D \in SUBSET S
  BY <1>4
<1>7. HoursOf(rows, D) \in Nat /\ HoursOf(shift, S) \in Nat /\ HoursOf(rows, D) <= HoursOf(shift, S)
  BY <1>2, <1>5, <1>6, FewerHours
<1>8. QED
  BY <1>1, <1>7

LEMMA LimitFalls ==
    ASSUME Typed, HoursInLimit, ~size.overlap, NEW J, RowsKept(J), NEW e \in Employees, NEW w \in Int,
           WorkedIn(e, w)' \cap J = {}
    PROVE  HoursOf(shift', WorkedIn(e, w)') <= MaxWeek
<1>1. PICK D : D = WorkedIn(e, w)'
  OBVIOUS
<1>2. D \cap {} = {} /\ WorkedIn(e, w) \ {} = WorkedIn(e, w) /\ MaxWeek \in Nat
  BY SizeTypes DEF Typed
<1>3. HoursOf(shift, WorkedIn(e, w)) <= MaxWeek
  BY DEF HoursInLimit
<1>4. HoursOf(shift', D) \in Nat /\ HoursOf(shift, WorkedIn(e, w) \ {}) \in Nat
      /\ HoursOf(shift', D) <= HoursOf(shift, WorkedIn(e, w) \ {})
  BY <1>1, <1>2, HoursFall
<1>5. QED
  BY <1>1, <1>2, <1>3, <1>4

LEMMA BeginInHours ==
    ASSUME Typed, HoursInLimit, NEW c \in Calls, NEW q, call' = [call EXCEPT ![c] = q],
           UNCHANGED <<shift, unchecked, size>>,
           ~size.overlap /\ q.pc \in Q3 /\ q.row.employee \in Employees => InHours(q)
    PROVE  HoursInLimit'
<1> SUFFICES ASSUME ~size.overlap PROVE HoursInLimit'
  BY DEF HoursInLimit
<1>1. \A e, w : WorkedIn(e, w)' = WorkedIn(e, w)
  BY DEF WorkedIn, EmployeeShifts, Committed, Planned, There
<1>2. ASSUME NEW d \in Calls, call'[d].pc \in Q3, call'[d].row.employee \in Employees
      PROVE  InHours(call[d])'
  <2>1. PICK p : p = call'[d]
    OBVIOUS
  <2>2. p = IF d = c THEN q ELSE call[d]
    BY <2>1 DEF Typed, TypeOK
  <2>3. InHours(p)
    BY <1>2, <2>1, <2>2 DEF HoursInLimit
  <2>4. HoursOf(shift', WorkedIn(p.row.employee, WeekOf(p.row))' \ {p.id}) + Gross(p.row) <= MaxWeek
    BY <1>1, <2>3 DEF InHours
  <2>5. QED
    BY <2>1, <2>4 DEF InHours
<1>3. \A e \in Employees, w \in Int : HoursOf(shift, WorkedIn(e, w))' <= MaxWeek
  BY <1>1 DEF HoursInLimit
<1>4. QED
  BY <1>2, <1>3 DEF HoursInLimit

LEMMA KeptInHours ==
    ASSUME Typed, HoursInLimit, RowsKept({}), UNCHANGED <<call, size>>
    PROVE  HoursInLimit'
<1> SUFFICES ASSUME ~size.overlap PROVE HoursInLimit'
  BY DEF HoursInLimit
<1>1. \A e \in Employees, w \in Int : HoursOf(shift', WorkedIn(e, w)') <= MaxWeek
  BY LimitFalls
<1>2. ASSUME NEW c \in Calls, call[c].pc \in Q3, call[c].row.employee \in Employees
      PROVE  InHours(call[c])'
  <2>1. PICK p, e, w, K : p = call[c] /\ e = p.row.employee /\ w = WeekOf(p.row) /\ K = {p.id}
    OBVIOUS
  <2>2. p.row \in Shift /\ e \in Employees /\ InHours(p)
    BY <1>2, <2>1 DEF Typed, Known, Knows, Working, Q3, HoursInLimit
  <2>3. w \in Int /\ Gross(p.row) \in Nat /\ MaxWeek \in Nat
    <3>1. p.row.starts \in Hour /\ Week \in Nat \ {0} /\ MaxWeek \in Nat
      BY <2>2, SizeTypes DEF Shift, Typed
    <3>2. w \in Int
      BY <2>1, <3>1 DEF WeekOf, Hour
    <3>3. Gross(p.row) \in Nat
      BY <2>2, Lasts DEF Typed
    <3>4. QED
      BY <3>1, <3>2, <3>3
  <2>4. PICK D : D = WorkedIn(e, w)' \ K
    OBVIOUS
  <2>5. D \subseteq WorkedIn(e, w)' /\ D \cap {} = {} /\ D \cap K = {}
    BY <2>4
  <2>6. /\ HoursOf(shift', D) \in Nat /\ HoursOf(shift, WorkedIn(e, w) \ K) \in Nat
        /\ HoursOf(shift', D) <= HoursOf(shift, WorkedIn(e, w) \ K)
    BY <2>2, <2>3, <2>5, HoursFall
  <2>7. HoursOf(shift, WorkedIn(e, w) \ K) + Gross(p.row) <= MaxWeek
    BY <2>1, <2>2 DEF InHours
  <2>8. HoursOf(shift', D) + Gross(p.row) <= MaxWeek
    BY <2>3, <2>6, <2>7
  <2>9. call'[c] = p
    BY <2>1
  <2>10. QED
    BY <2>1, <2>4, <2>8, <2>9 DEF InHours
<1>3. \A e \in Employees, w \in Int : HoursOf(shift, WorkedIn(e, w))' <= MaxWeek
  BY <1>1
<1>4. QED
  BY <1>2, <1>3 DEF HoursInLimit

\* The one handler ends, having written the rows of J.
LEMMA LastInHours ==
    ASSUME Typed, Alone, HoursInLimit, NEW c \in Calls, call[c].pc # "idle", Return(c), UNCHANGED size,
           NEW J, RowsKept(J),
           \A e \in Employees, w \in Int, j \in J :
              ~size.overlap /\ j \in WorkedIn(e, w)' => HoursOf(shift', WorkedIn(e, w)') <= MaxWeek
    PROVE  HoursInLimit'
<1> SUFFICES ASSUME ~size.overlap PROVE HoursInLimit'
  BY DEF HoursInLimit
<1>1. ASSUME NEW e \in Employees, NEW w \in Int PROVE HoursOf(shift', WorkedIn(e, w)') <= MaxWeek
  <2>1. CASE WorkedIn(e, w)' \cap J = {}
    BY <2>1, LimitFalls
  <2>2. CASE WorkedIn(e, w)' \cap J # {}
    BY <2>2
  <2>3. QED
    BY <2>1, <2>2
<1>2. \A d \in Calls : call'[d].pc = "idle"
  BY DEF Return, Typed, TypeOK, Idle, Alone
<1>3. "idle" \notin Q3
  BY DEF Q3
<1>4. \A e \in Employees, w \in Int : HoursOf(shift, WorkedIn(e, w))' <= MaxWeek
  BY <1>1
<1>5. QED
  BY <1>2, <1>3, <1>4 DEF HoursInLimit

\* A row that was looked at comes to those of its week.
LEMMA OneMoreInHours ==
    ASSUME Typed, Typed', HoursInLimit, ~size.overlap, NEW c \in Calls, call[c].pc \in Q3,
           NEW j, RowsKept({j}), call[c].id \in {0, j}, NEW e \in Employees, NEW w \in Int,
           j \in WorkedIn(e, w)', AsLookedAt(shift'[j], call[c].row)
    PROVE  HoursOf(shift', WorkedIn(e, w)') <= MaxWeek
<1>1. PICK p, n, rows, S : p = call[c] /\ n = Len(shift') /\ rows = shift' /\ S = WorkedIn(e, w)'
  OBVIOUS
<1>2. n \in Nat /\ S \in SUBSET (1..n) /\ \A i \in S : rows[i] \in Shift
  <2>1. DOMAIN shift' = 1..n /\ n \in Nat /\ \A i \in DOMAIN shift' : shift'[i] \in Shift \cup {Gone}
    BY <1>1 DEF Typed, TypeOK
  <2>2. QED
    BY <1>1, <2>1 DEF WorkedIn, EmployeeShifts, Committed, Planned, There
<1>3. rows[j].employee = e /\ WeekOf(rows[j]) = w /\ rows[j] \in Shift /\ j \in S
  BY <1>1, <1>2 DEF WorkedIn, EmployeeShifts, WeekOf
<1>4. /\ p.row.employee = e /\ WeekOf(p.row) = w /\ Gross(rows[j]) = Gross(p.row)
  BY <1>1, <1>3 DEF AsLookedAt, WeekOf, Gross
<1>5. PICK D, K : D = S \ {j} /\ K = {p.id}
  OBVIOUS
<1>6. D \subseteq WorkedIn(e, w)' /\ D \cap {j} = {} /\ D \cap K = {}
  BY <1>1, <1>2, <1>5
<1>7. HoursOf(shift, WorkedIn(e, w) \ K) + Gross(p.row) <= MaxWeek
  BY <1>1, <1>4, <1>5 DEF HoursInLimit, InHours
<1>8. /\ HoursOf(rows, D) \in Nat /\ HoursOf(shift, WorkedIn(e, w) \ K) \in Nat
      /\ HoursOf(rows, D) <= HoursOf(shift, WorkedIn(e, w) \ K)
  BY <1>1, <1>6, HoursFall
<1>9. HoursOf(rows, D \cup {j}) = HoursOf(rows, D) + Worked(rows[j])
  <2>1. D \in SUBSET (1..n) /\ j \in 1..n /\ j \notin D /\ \A i \in D \cup {j} : rows[i] \in Shift
    BY <1>2, <1>3, <1>5
  <2>2. QED
    BY <1>2, <2>1, OneMoreHours
<1>10. Worked(rows[j]) \in Nat /\ Worked(rows[j]) <= Gross(p.row) /\ Gross(p.row) \in Nat
  BY <1>3, <1>4, Lasts
<1>11. S = D \cup {j} /\ MaxWeek \in Nat
  BY <1>3, <1>5, SizeTypes DEF Typed
<1>12. HoursOf(rows, S) <= MaxWeek
  BY <1>7, <1>8, <1>9, <1>10, <1>11
<1>13. QED
  BY <1>1, <1>12

\* What is planned in the week of a row, as the check of hours counts it, is at least
\* what is worked there by those who were checked.
LEMMA HoursCounted ==
    ASSUME Typed, NEW p, p.row \in Shift, WithinHours(p.row, p.id)
    PROVE  InHours(p)
<1>1. PICK e, w, n, S, S2 : /\ e = p.row.employee /\ w = WeekOf(p.row) /\ n = Len(shift)
                            /\ S2 = EmployeeShifts(e, w) \ {p.id} /\ S = WorkedIn(e, w) \ {p.id}
  OBVIOUS
<1>2. n \in Nat /\ S2 \in SUBSET (1..n) /\ S \in SUBSET S2 /\ \A i \in S2 : shift[i] \in Shift
  BY <1>1, ShiftTypes DEF Typed, WorkedIn, EmployeeShifts, Committed, Planned
<1>3. HoursOf(shift, S) \in Nat /\ HoursOf(shift, S2) \in Nat /\ HoursOf(shift, S) <= HoursOf(shift, S2)
  BY <1>2, FewerHours
<1>4. Hours(S2) + Gross(p.row) <= MaxWeek
  BY <1>1 DEF WithinHours
<1>5. HoursOf(shift, S2) <= Hours(S2) /\ Hours(S2) \in Nat
  <2>1. PICK W, V : /\ W = [i \in 1..n |-> IF i \in S2 THEN Worked(shift[i]) ELSE 0]
                    /\ V = [i \in 1..n |-> IF i \in S2 THEN DurationMinutes(shift[i]) ELSE 0]
    OBVIOUS
  <2>2. W \in [1..n -> Nat] /\ V \in [1..n -> Nat] /\ \A i \in 1..n : W[i] <= V[i]
    BY <1>2, <2>1, Lasts
  <2>9. S2 \in SUBSET (1..n)
    BY <1>2
  <2>3. PICK T : AddsUp(T, n, W)
    BY <1>2, <2>2, AddUp
  <2>4. PICK U : AddsUp(U, n, V)
    BY <1>2, <2>2, AddUp
  <2>5. HoursOf(shift, S2) = T[S2]
    <3>1. PICK f : f = [i \in S2 |-> Worked(shift[i])]
      OBVIOUS
    <3>2. \A i \in S2 : f[i] = W[i]
      BY <1>2, <2>1, <3>1
    <3>3. SumFunctionOnSet(f, S2) = T[S2]
      BY <1>2, <2>2, <2>3, <3>2, SumIs
    <3>4. QED
      BY <3>1, <3>3 DEF HoursOf
  <2>6. Hours(S2) = U[S2]
    <3>1. PICK f : f = [i \in S2 |-> DurationMinutes(shift[i])]
      OBVIOUS
    <3>2. \A i \in S2 : f[i] = V[i]
      BY <1>2, <2>1, <3>1
    <3>3. n \in Nat /\ V \in [1..n -> Nat]
      BY <1>2, <2>2
    <3>4. SumFunctionOnSet(f, S2) = U[S2]
      BY <2>4, <2>9, <3>2, <3>3, SumIs
    <3>5. QED
      BY <3>1, <3>4 DEF Hours
  <2>7. T[S2] <= U[S2]
    <3>1. n \in Nat /\ W \in [1..n -> Nat] /\ V \in [1..n -> Nat] /\ \A i \in 1..n : W[i] <= V[i]
      BY <1>2, <2>2
    <3>2. QED
      BY <2>3, <2>4, <2>9, <3>1, LessWeighsLess
  <2>10. U[S2] \in Nat
    BY <2>4, <2>9 DEF AddsUp
  <2>8. QED
    BY <2>5, <2>6, <2>7, <2>10
<1>6. Gross(p.row) \in Nat /\ MaxWeek \in Nat
  BY Lasts, SizeTypes DEF Typed
<1>7. HoursOf(shift, S) + Gross(p.row) <= MaxWeek
  BY <1>3, <1>4, <1>5, <1>6
<1>8. QED
  BY <1>1, <1>7 DEF InHours

\* A check lets through a handler that has room, or that the check finds has.
LEMMA StepInHours ==
    ASSUME Typed, HoursInLimit, NEW c \in Calls, NEW pc \in Working, NEW ok, NEW next, Step(c, pc, ok, next),
           next \in Q3 => pc \in Q3 \/ (ok => WithinHours(call[c].row, call[c].id))
    PROVE  HoursInLimit'
<1>1. call[c] \in CallState /\ call[c].pc = pc /\ call[c].row \in Shift /\ UNCHANGED <<shift, unchecked, size>>
  BY DEF Typed, TypeOK, Known, Knows, Step, At, Rest
<1>2. CASE ~ok
  <2>1. PICK q : q = Idle
    OBVIOUS
  <2>2. call' = [call EXCEPT ![c] = q] /\ q.pc \notin Q3
    BY <1>2, <2>1 DEF Step, Return, Idle, Q3
  <2>3. QED
    BY <1>1, <2>2, BeginInHours
<1>3. CASE ok
  <2>1. PICK q : q = [call[c] EXCEPT !.pc = next]
    OBVIOUS
  <2>2. call' = [call EXCEPT ![c] = q]
    BY <1>3, <2>1 DEF Step, Typed, TypeOK
  <2>3. q.id = call[c].id /\ q.row = call[c].row /\ q.pc = next
    BY <1>1, <2>1 DEF CallState
  <2>4. ASSUME ~size.overlap, next \in Q3, q.row.employee \in Employees PROVE InHours(q)
    <3>1. CASE pc \in Q3
      BY <1>1, <2>3, <2>4, <3>1 DEF HoursInLimit, InHours
    <3>2. CASE pc \notin Q3
      BY <1>1, <1>3, <2>3, <2>4, <3>2, HoursCounted
    <3>3. QED
      BY <3>1, <3>2
  <2>5. QED
    BY <1>1, <2>2, <2>3, <2>4, BeginInHours
<1>4. QED
  BY <1>2, <1>3

LEMMA HoursInit == Init => HoursInLimit
<1> SUFFICES ASSUME Init PROVE HoursInLimit
  OBVIOUS
<1>1. Typed /\ "idle" \notin Q3 /\ \A c \in Calls : call[c].pc = "idle"
  BY TypedInit DEF Init, Idle, Q3
<1>2. ASSUME NEW e \in Employees, NEW w \in Int PROVE HoursOf(shift, WorkedIn(e, w)) <= MaxWeek
  <2>1. WorkedIn(e, w) = {} /\ MaxWeek \in Nat
    BY <1>1, SizeTypes DEF Init, Typed, WorkedIn, EmployeeShifts, Committed, Planned
  <2>2. PICK n, W, S : n = 0 /\ W = [i \in 1..0 |-> 0] /\ S = {}
    OBVIOUS
  <2>3. n \in Nat /\ W \in [1..n -> Nat] /\ S \in SUBSET (1..n)
        /\ \A i \in S : Worked(shift[i]) = W[i]
    BY <2>2
  <2>4. PICK T : AddsUp(T, n, W)
    BY <2>3, AddUp
  <2>5. HoursOf(shift, S) = T[S]
    BY <2>3, <2>4, HoursAre
  <2>6. T[S] = 0
    BY <2>2, <2>4 DEF AddsUp
  <2>7. QED
    BY <2>1, <2>2, <2>5, <2>6
<1>3. QED
  BY <1>1, <1>2 DEF HoursInLimit

LEMMA HoursStep == Typed /\ Alone /\ HoursInLimit /\ [Next]_vars => HoursInLimit'
<1> SUFFICES ASSUME Typed, Alone, HoursInLimit, [Next]_vars PROVE HoursInLimit'
  OBVIOUS
<1>0. Typed' /\ UNCHANGED size
  BY TypedStep, StepsKeep
<1>1. ASSUME NEW c \in Calls, NEW pc, NEW id, NEW row, NEW set, Begin(c, pc, id, row, set),
             row.employee # Null => pc = "overlaps"
      PROVE  HoursInLimit'
  <2>1. PICK q : q = [pc |-> pc, id |-> id, row |-> row, set |-> set, limit |-> 0, rows |-> <<>>]
    OBVIOUS
  <2>2. call' = [call EXCEPT ![c] = q] /\ UNCHANGED <<shift, unchecked>> /\ q.pc = pc /\ q.row = row
    BY <1>1, <2>1 DEF Begin
  <2>3. ~(q.pc \in Q3 /\ q.row.employee \in Employees)
    BY <1>1, <2>2, SchedulingAssumption DEF Q3, SchedulingAssumption
  <2>4. QED
    BY <1>0, <2>2, <2>3, BeginInHours
<1>2. ASSUME NEW c \in Calls, NEW store \in size.stores, NEW e \in size.people \cup {Null},
             NEW span \in size.spans, NEW break \in size.breaks, NEW status \in size.statuses,
             Create(c, store, e, span, break, status)
      PROVE  HoursInLimit'
  <2>1. PICK row, pc : /\ Begin(c, pc, 0, row, Null) /\ row.employee = e
                       /\ pc = IF e = Null THEN "insert" ELSE "overlaps"
    BY <1>2 DEF Create
  <2>2. QED
    BY <1>1, <2>1
<1>3. ASSUME NEW c \in Calls, NEW i \in DOMAIN shift, NEW set \in size.patches, Update(c, i, set)
      PROVE  HoursInLimit'
  <2>1. PICK row, pc, all : Begin(c, pc, i, row, all) /\ pc = IF row.employee = Null THEN "update" ELSE "overlaps"
    BY <1>3 DEF Update
  <2>2. QED
    BY <1>1, <2>1
<1>4. ASSUME NEW c \in Calls, NEW i \in DOMAIN shift, NEW e \in size.people \cup {Null}, Assign(c, i, e)
      PROVE  HoursInLimit'
  <2>1. There(i)
    BY <1>4 DEF Assign
  <2>2. PICK set, row : set = Assigning(i, e) /\ row = Patch(shift[i], set)
    OBVIOUS
  <2>3. row.employee = e
    BY <2>1, <2>2, AssignSets
  <2>4. PICK pc : pc = IF e = Null THEN "update" ELSE "overlaps"
    OBVIOUS
  <2>5. Begin(c, pc, i, row, set)
    BY <1>4, <2>2, <2>4 DEF Assign, Assigning
  <2>6. QED
    BY <1>1, <2>3, <2>4, <2>5
<1>5. ASSUME NEW c \in Calls,
             \/ CheckOverlaps(c) \/ CheckEmployee(c) \/ CheckHours(c)
             \/ CheckCapacity(c) \/ CheckConcurrent(c)
      PROVE  HoursInLimit'
  <2>1. {"overlaps", "employee", "hours", "capacity", "concurrent"} \subseteq Working
        /\ {"capacity", "concurrent"} \subseteq Q3 /\ "employee" \notin Q3 /\ "hours" \notin Q3
    BY DEF Working, Q3
  <2>2. CASE CheckOverlaps(c)
    BY <2>1, <2>2, StepInHours DEF CheckOverlaps
  <2>3. CASE CheckEmployee(c)
    BY <2>1, <2>3, StepInHours DEF CheckEmployee
  <2>4. CASE CheckHours(c)
    <3>1. PICK ok \in BOOLEAN : ok <=> WithinHours(call[c].row, call[c].id)
      OBVIOUS
    <3>2. Step(c, "hours", ok, "capacity")
      BY <2>4, <3>1 DEF CheckHours, Step
    <3>3. QED
      BY <2>1, <3>1, <3>2, StepInHours
  <2>5. CASE CheckConcurrent(c)
    BY <2>1, <2>5, StepInHours DEF CheckConcurrent
  <2>6. CASE CheckCapacity(c)
    <3>1. PICK q : /\ call' = [call EXCEPT ![c] = q] /\ call[c].pc = "capacity"
                   /\ q.id = call[c].id /\ q.row = call[c].row
      BY <2>6, CapacityRead
    <3>2. UNCHANGED <<shift, unchecked>>
      BY <2>6, CapacityRead
    <3>3. ~size.overlap /\ q.row.employee \in Employees => InHours(q)
      BY <2>1, <3>1 DEF HoursInLimit, InHours
    <3>4. QED
      BY <1>0, <3>1, <3>2, <3>3, BeginInHours
  <2>7. QED
    BY <1>5, <2>2, <2>3, <2>4, <2>5, <2>6
<1>6. ASSUME NEW c \in Calls, Insert(c) PROVE HoursInLimit'
  <2>1. PICK n : n = Len(shift) + 1
    OBVIOUS
  <2>2. RowsKept({n}) /\ shift'[n] = call[c].row /\ call[c].pc = "insert" /\ call[c].id = 0
    BY <1>6, <2>1, InsertRows
  <2>3. ASSUME ~size.overlap, NEW e \in Employees, NEW w \in Int, n \in WorkedIn(e, w)'
        PROVE  HoursOf(shift', WorkedIn(e, w)') <= MaxWeek
    BY <1>0, <2>2, <2>3, OneMoreInHours DEF Q3, AsLookedAt
  <2>4. Return(c)
    BY <1>6 DEF Insert
  <2>5. QED
    BY <1>0, <2>2, <2>3, <2>4, LastInHours
<1>7. ASSUME NEW c \in Calls, Write(c) PROVE HoursInLimit'
  <2>1. PICK i : i = call[c].id
    OBVIOUS
  <2>2. RowsKept({i}) /\ call[c].pc = "update" /\ i # 0 /\ i \in DOMAIN shift
    BY <1>7, <2>1, WriteRows
  <2>3. ASSUME ~size.overlap, NEW e \in Employees, NEW w \in Int, i \in WorkedIn(e, w)'
        PROVE  HoursOf(shift', WorkedIn(e, w)') <= MaxWeek
    <3>1. i \in Checked' /\ shift'[i].employee # Null
      BY <2>3, SchedulingAssumption DEF WorkedIn, EmployeeShifts, Checked, SchedulingAssumption
    <3>2. There(i)
      BY <1>7, <2>1, <3>1, WriteRows DEF Checked, Committed, Planned, There
    <3>3. AsLookedAt(shift'[i], call[c].row)
      BY <1>7, <2>1, <3>1, <3>2, WriteRows
    <3>4. QED
      BY <1>0, <2>1, <2>2, <2>3, <3>3, OneMoreInHours DEF Q3
  <2>4. Return(c)
    BY <1>7 DEF Write
  <2>5. QED
    BY <1>0, <2>2, <2>3, <2>4, LastInHours
<1>8. ASSUME NEW c \in Calls, Paste(c) PROVE HoursInLimit'
  <2>1. RowsKept({}) /\ Return(c) /\ call[c].pc # "idle"
    BY <1>8, PasteRows DEF Paste, At
  <2>2. QED
    BY <1>0, <2>1, LastInHours
<1>9. ASSUME NEW c \in Calls, NEW store \in size.stores, NEW from \in 0..1, NEW to \in 0..1,
             CopyWeek(c, store, from, to)
      PROVE  HoursInLimit'
  <2>1. PICK rows : call' = [call EXCEPT ![c] = [Idle EXCEPT !.pc = "paste", !.rows = rows]]
    BY <1>9 DEF CopyWeek
  <2>2. PICK q : q = [Idle EXCEPT !.pc = "paste", !.rows = rows]
    OBVIOUS
  <2>3. q.pc \notin Q3 /\ call' = [call EXCEPT ![c] = q] /\ UNCHANGED <<shift, unchecked>>
    BY <1>9, <2>1, <2>2 DEF Idle, Q3, CopyWeek
  <2>4. QED
    BY <1>0, <2>3, BeginInHours
<1>10. ASSUME RowsKept({}), UNCHANGED call PROVE HoursInLimit'
  BY <1>0, <1>10, KeptInHours
<1>11. ASSUME NEW i \in DOMAIN shift, Approve(i) \/ Cancel(i) \/ Remove(i) PROVE HoursInLimit'
  <2>1. RowsKept({})
    BY <1>11, ApproveRows, CancelRows, RemoveRows
  <2>2. UNCHANGED call
    BY <1>11 DEF Approve, Cancel, Remove
  <2>3. QED
    BY <1>10, <2>1, <2>2
<1>12. ASSUME NEW store \in size.stores, NEW week \in 0..1, PublishRange(store, week)
       PROVE  HoursInLimit'
  BY <1>10, <1>12, PublishRows DEF PublishRange
<1>13. ASSUME NEW store \in size.stores, NEW week \in 0..1, NEW block \in size.blocks,
              ApplyTemplate(store, week, block)
       PROVE  HoursInLimit'
  BY <1>10, <1>13, TemplateRows DEF ApplyTemplate
<1>14. ASSUME UNCHANGED <<shift, unchecked, call>> PROVE HoursInLimit'
  <2>1. RowsKept({})
    BY <1>14, ShiftTypes DEF RowsKept, SameBooking, Checked, Committed, Planned, There
  <2>2. QED
    BY <1>10, <1>14, <2>1
<1>15. ASSUME NEW store \in size.stores,
              \/ \E required \in size.required : SetTargets(store, required)
              \/ \E n \in size.capacities : SetCapacity(store, n)
       PROVE  HoursInLimit'
  BY <1>14, <1>15 DEF SetTargets, SetCapacity
<1>16. CASE UNCHANGED vars
  BY <1>14, <1>16 DEF vars
<1>17. CASE Next
  BY <1>2, <1>3, <1>4, <1>5, <1>6, <1>7, <1>8, <1>9, <1>11, <1>12, <1>13, <1>15, <1>17 DEF Next
<1>18. QED
  BY <1>16, <1>17

-----------------------------------------------------------------------------
(* What the checks let be planned. *)

\* The checks of overlaps, of capacity, of hours, and of the order of times, with what
\* the handlers that are past them will still write.
Fitting == Typed /\ Alone /\ Bookings /\ Fullness /\ TimesInOrder /\ HoursInLimit

LEMMA FittingInit == IsFiniteSet(Calls) /\ Init => Fitting
  BY TypedInit, PlacesInit, TimesInit, HoursInit DEF Fitting

LEMMA FittingStep == IsFiniteSet(Calls) /\ Fitting /\ [Next]_vars => Fitting'
  BY TypedStep, AloneStep, BookingsStep, FullnessStep, TimesStep, HoursStep DEF Fitting

LEMMA FittingFits == IsFiniteSet(Calls) /\ Fitting => ShiftsFit
<1> SUFFICES ASSUME IsFiniteSet(Calls), Fitting PROVE ShiftsFit
  OBVIOUS
<1>1. NoDoubleBooking /\ StoresNotFull
  BY BookedOnce, NoStoreFull DEF Fitting
<1>2. EndsAfterStart
  BY DEF EndsAfterStart, Fitting, TimesInOrder, InTime
<1>3. WithinWeeklyHours
  <2> SUFFICES ASSUME ~size.overlap, NEW e \in Employees, NEW week \in 0..1
               PROVE  WorkedHours(EmployeeShifts(e, week) \ unchecked) <= MaxWeek
    BY DEF WithinWeeklyHours
  <2>1. WorkedHours(WorkedIn(e, week)) = HoursOf(shift, WorkedIn(e, week))
    BY DEF WorkedHours, HoursOf
  <2>2. week \in Int
    OBVIOUS
  <2>3. HoursOf(shift, WorkedIn(e, week)) <= MaxWeek
    BY <2>2 DEF Fitting, HoursInLimit
  <2>4. QED
    BY <2>1, <2>3 DEF WorkedIn
<1>4. QED
  BY <1>1, <1>2, <1>3 DEF ShiftsFit

\* For any finite number of handlers: nobody is planned twice for an hour and no store
\* holds more people than the highest capacity it has had, however often that is
\* changed, but for as many as there are other handlers at once; one at a time, nobody
\* exceeds the weekly limit, if breaks below 0 add nothing to it, and no shift ends
\* before it starts unless it comes from a template ("Enforces double-booking,
\* over-hours, store-capacity", scheduling.service.ts:103).
THEOREM ChecksHold ==
    ASSUME IsFiniteSet(Calls)
    PROVE  Spec => []ShiftsFit
<1>1. Init => Fitting
  BY FittingInit
<1>2. Fitting /\ [Next]_vars => Fitting'
  BY FittingStep
<1>3. Fitting => ShiftsFit
  BY FittingFits
<1>4. QED
  BY <1>1, <1>2, <1>3, PTL DEF Spec

-----------------------------------------------------------------------------
(* Coverage.  What the runs are when the hours before h have been looked    *)
(* at, if d says who is missing in each.                                    *)

Run == [from : Nat, to : Nat, deficit : Nat \ {0}]

Grown(runs, h, d) ==
    IF d <= 0 THEN runs
    ELSE IF Len(runs) > 0 /\ Extends(runs[Len(runs)], h, d) THEN [runs EXCEPT ![Len(runs)].to = h + 1]
    ELSE Append(runs, [from |-> h, to |-> h + 1, deficit |-> d])

RunFits(run, h, d) ==
    /\ run.from < run.to /\ run.to <= h
    /\ run.from \div Day = (run.to - 1) \div Day
    /\ \A g \in DOMAIN d : run.from <= g /\ g < run.to => d[g] = run.deficit

RunsFit(runs, h, d) ==
    /\ runs \in Seq(Run)
    /\ \A i \in 1..Len(runs) : RunFits(runs[i], h, d)
    /\ \A i, j \in 1..Len(runs) : i < j => runs[i].to <= runs[j].from
    /\ \A g \in DOMAIN d : g < h /\ d[g] > 0 =>
          \E i \in 1..Len(runs) : runs[i].from <= g /\ g < runs[i].to
    /\ \A i, j \in 1..Len(runs) :
          runs[i].to = runs[j].from /\ runs[i].deficit = runs[j].deficit => runs[j].from % Day = 0

LEMMA RangeTypes ==
    ASSUME TypeOK, NEW range \in size.ranges
    PROVE  range[1] \in Nat /\ range[2] \in Nat /\ range[1] < range[2]
<1>1. range \in (0..2 * Week) \X (0..2 * Week) /\ range[1] < range[2]
  BY SizeTypes
<1>2. QED
  BY <1>1

LEMMA PlannedFinite == TypeOK => IsFiniteSet(Planned)
<1> SUFFICES ASSUME TypeOK PROVE IsFiniteSet(Planned)
  OBVIOUS
<1>1. Len(shift) \in Nat /\ DOMAIN shift = 1..Len(shift)
  BY ShiftTypes
<1>2. IsFiniteSet(1..Len(shift)) /\ Planned \subseteq 1..Len(shift)
  BY <1>1, FS_Interval DEF Planned
<1>3. QED
  BY <1>2, FS_Subset

LEMMA PlannedTimes ==
    ASSUME TypeOK PROVE \A i \in Planned : shift[i].starts \in Int /\ shift[i].ends \in Int
<1> SUFFICES ASSUME NEW i \in Planned PROVE shift[i].starts \in Int /\ shift[i].ends \in Int
  OBVIOUS
<1>1. shift[i] \in Shift
  BY ShiftTypes DEF Planned
<1>2. QED
  BY <1>1, SizeTypes DEF Shift, Hour

LEMMA DaysBreak ==
    ASSUME Day \in Nat \ {0}
    PROVE  \A h \in Nat : h # 0 /\ (h - 1) \div Day # h \div Day => h % Day = 0
  OBVIOUS

LEMMA GrownFits ==
    ASSUME Day \in Nat \ {0}, NEW lo \in Nat, NEW hi \in Nat, NEW d \in [lo..hi - 1 -> Int],
           NEW h \in lo..hi - 1, NEW runs, RunsFit(runs, h, d)
    PROVE  RunsFit(Grown(runs, h, d[h]), h + 1, d)
<1>1. PICK n, e : n = Len(runs) /\ e = d[h]
  OBVIOUS
<1>2. /\ runs \in Seq(Run) /\ n \in Nat /\ DOMAIN runs = 1..n /\ e \in Int /\ h \in Nat
      /\ DOMAIN d = lo..hi - 1
      /\ \A i \in 1..n : runs[i] \in Run
  BY <1>1, LenProperties, ElementOfSeq DEF RunsFit
<1>0. ASSUME NEW i \in 1..n
      PROVE  /\ runs[i].from \in Nat /\ runs[i].to \in Nat /\ runs[i].deficit \in Nat \ {0}
             /\ runs[i].from < runs[i].to /\ runs[i].to <= h
             /\ runs[i].from \div Day = (runs[i].to - 1) \div Day
  <2>1. PICK r : r = runs[i]
    OBVIOUS
  <2>2. r \in Run /\ RunFits(r, h, d)
    BY <1>1, <1>2, <2>1 DEF RunsFit
  <2>3. r.from \in Nat /\ r.to \in Nat /\ r.deficit \in Nat \ {0}
    BY <2>2 DEF Run
  <2>4. QED
    BY <2>1, <2>2, <2>3 DEF RunFits
<1>3. \A i \in 1..n : /\ runs[i].from \in Nat /\ runs[i].to \in Nat
                      /\ runs[i].from < runs[i].to /\ runs[i].to <= h
  BY <1>0
<1>4. ASSUME NEW i \in 1..n PROVE RunFits(runs[i], h + 1, d)
  <2>1. RunFits(runs[i], h, d)
    BY <1>1 DEF RunsFit
  <2>2. runs[i].to <= h + 1
    BY <1>2, <1>3
  <2>3. QED
    BY <2>1, <2>2 DEF RunFits
<1>5. CASE e <= 0
  <2>1. Grown(runs, h, d[h]) = runs
    BY <1>1, <1>5 DEF Grown
  <2>2. \A g \in lo..hi - 1 : g < h + 1 /\ d[g] > 0 => g < h
    BY <1>1, <1>2, <1>5
  <2>3. RunsFit(runs, h + 1, d)
    BY <1>1, <1>4, <2>2 DEF RunsFit
  <2>4. QED
    BY <2>1, <2>3
<1>6. CASE e > 0 /\ n > 0 /\ Extends(runs[n], h, e)
  <2>1. PICK new : new = [runs EXCEPT ![n].to = h + 1]
    OBVIOUS
  <2>2. Grown(runs, h, d[h]) = new
    BY <1>1, <1>2, <1>6, <2>1 DEF Grown
  <2>3. PICK r : r = [runs[n] EXCEPT !.to = h + 1]
    OBVIOUS
  <2>4. n \in 1..n /\ runs[n].deficit = e /\ runs[n].to = h /\ runs[n].from \div Day = h \div Day
        /\ runs[n] \in Run
    BY <1>2, <1>6 DEF Extends
  <2>5. r \in Run /\ r.from = runs[n].from /\ r.to = h + 1 /\ r.deficit = e
    <3>1. h + 1 \in Nat
      OBVIOUS
    <3>2. QED
      BY <2>3, <2>4, <3>1 DEF Run
  <2>6. /\ new \in Seq(Run) /\ Len(new) = n /\ new[n] = r
        /\ \A i \in 1..n : i # n => new[i] = runs[i]
    <3>1. new = [runs EXCEPT ![n] = r]
      BY <1>2, <2>1, <2>3
    <3>2. QED
      BY <1>1, <1>2, <2>4, <2>5, <3>1, ExceptSeq
  <2>7. RunFits(r, h + 1, d)
    <3>1. r.from < r.to /\ r.to <= h + 1 /\ r.to - 1 = h
      <4>1. r.from \in Nat /\ r.from < h
        BY <1>3, <2>4, <2>5
      <4>2. h \in Nat /\ r.to = h + 1
        BY <2>5
      <4>3. QED
        BY <4>1, <4>2
    <3>2. ASSUME NEW g \in lo..hi - 1, r.from <= g, g < r.to PROVE d[g] = r.deficit
      <4>1. CASE g = h
        BY <1>1, <2>5, <4>1
      <4>2. CASE g # h
        <5>1. runs[n].from <= g /\ g < runs[n].to
          BY <1>2, <2>4, <2>5, <3>2, <4>2
        <5>2. QED
          BY <1>1, <2>4, <2>5, <5>1 DEF RunsFit, RunFits
      <4>3. QED
        BY <4>1, <4>2
    <3>3. QED
      BY <2>4, <2>5, <3>1, <3>2 DEF RunFits
  <2>8. \A i \in 1..n : RunFits(new[i], h + 1, d) /\ new[i].from = runs[i].from /\ new[i].deficit = runs[i].deficit
    BY <1>4, <2>4, <2>5, <2>6, <2>7
  <2>9. \A i, j \in 1..n : i < j => new[i].to <= new[j].from
    <3>1. ASSUME NEW i \in 1..n, NEW j \in 1..n, i < j PROVE new[i].to <= new[j].from
      <4>1. i # n /\ new[i] = runs[i]
        BY <1>2, <2>6, <3>1
      <4>2. QED
        BY <1>1, <2>8, <3>1, <4>1 DEF RunsFit
    <3>2. QED
      BY <3>1
  <2>10. ASSUME NEW g \in lo..hi - 1, g < h + 1, d[g] > 0
         PROVE  \E i \in 1..n : new[i].from <= g /\ g < new[i].to
    <3>1. CASE g = h
      <4>1. new[n].from <= g /\ g < new[n].to
        <5>1. new[n].from = runs[n].from /\ new[n].to = h + 1
          BY <2>5, <2>6
        <5>2. runs[n].from \in Nat /\ runs[n].from < h
          BY <1>3, <2>4
        <5>3. QED
          BY <1>2, <3>1, <5>1, <5>2
      <4>2. QED
        BY <2>4, <4>1
    <3>2. CASE g # h
      <4>1. g < h
        BY <1>2, <2>10, <3>2
      <4>2. PICK i \in 1..n : runs[i].from <= g /\ g < runs[i].to
        BY <1>1, <2>10, <4>1 DEF RunsFit
      <4>3. new[i].from <= g /\ g < new[i].to
        <5>1. CASE i = n
          BY <1>2, <2>4, <2>5, <2>6, <4>1, <4>2, <5>1
        <5>2. CASE i # n
          BY <2>6, <4>2, <5>2
        <5>3. QED
          BY <5>1, <5>2
      <4>4. QED
        BY <4>3
    <3>3. QED
      BY <3>1, <3>2
  <2>11. ASSUME NEW i \in 1..n, NEW j \in 1..n, new[i].to = new[j].from, new[i].deficit = new[j].deficit
         PROVE  new[j].from % Day = 0
    <3>1. new[j].from < h + 1
      <4>1. PICK from, to : from = runs[j].from /\ to = runs[j].to
        OBVIOUS
      <4>2. from \in Nat /\ to \in Nat /\ from < to /\ to <= h
        BY <1>3, <4>1
      <4>3. new[j].from = from
        BY <2>8, <4>1
      <4>4. QED
        BY <1>2, <4>2, <4>3
    <3>2. i # n
      BY <1>2, <2>5, <2>6, <2>11, <3>1
    <3>3. runs[i].to = runs[j].from /\ runs[i].deficit = runs[j].deficit
      BY <2>6, <2>8, <2>11, <3>2
    <3>4. QED
      BY <1>1, <2>8, <3>3 DEF RunsFit
  <2>12. RunsFit(new, h + 1, d)
    BY <2>6, <2>8, <2>9, <2>10, <2>11 DEF RunsFit
  <2>13. QED
    BY <2>2, <2>12
<1>7. CASE e > 0 /\ ~(n > 0 /\ Extends(runs[n], h, e))
  <2>1. PICK r : r = [from |-> h, to |-> h + 1, deficit |-> e]
    OBVIOUS
  <2>2. PICK new : new = Append(runs, r)
    OBVIOUS
  <2>3. Grown(runs, h, d[h]) = new
    BY <1>1, <1>2, <1>7, <2>1, <2>2 DEF Grown
  <2>4. r \in Run /\ r.from = h /\ r.to = h + 1 /\ r.deficit = e
    <3>1. h + 1 \in Nat /\ e \in Nat \ {0}
      BY <1>2, <1>7
    <3>2. QED
      BY <2>1, <3>1 DEF Run
  <2>5. /\ new \in Seq(Run) /\ Len(new) = n + 1 /\ new[n + 1] = r
        /\ \A i \in 1..n : new[i] = runs[i]
    BY <1>1, <1>2, <2>2, <2>4, AppendProperties
  <2>6. \A i \in 1..n + 1 : i \in 1..n \/ i = n + 1
    BY <1>2
  <2>7. RunFits(r, h + 1, d)
    <3>1. \A g \in lo..hi - 1 : r.from <= g /\ g < r.to => g = h
      BY <1>2, <2>4
    <3>2. r.from < r.to /\ r.to <= h + 1 /\ r.to - 1 = r.from
      BY <1>2, <2>4
    <3>3. QED
      BY <1>1, <2>4, <3>1, <3>2 DEF RunFits
  <2>8. \A i \in 1..n + 1 : RunFits(new[i], h + 1, d)
    BY <1>4, <2>5, <2>6, <2>7
  <2>9. ASSUME NEW i \in 1..n + 1, NEW j \in 1..n + 1, i < j PROVE new[i].to <= new[j].from
    <3>1. i \in 1..n
      BY <1>2, <2>9
    <3>2. CASE j = n + 1
      BY <1>3, <2>4, <2>5, <3>1, <3>2
    <3>3. CASE j \in 1..n
      BY <1>1, <2>5, <2>9, <3>1, <3>3 DEF RunsFit
    <3>4. QED
      BY <2>6, <3>2, <3>3
  <2>10. ASSUME NEW g \in lo..hi - 1, g < h + 1, d[g] > 0
         PROVE  \E i \in 1..n + 1 : new[i].from <= g /\ g < new[i].to
    <3>1. CASE g = h
      <4>1. n + 1 \in 1..n + 1 /\ new[n + 1].from <= g /\ g < new[n + 1].to
        BY <1>2, <2>4, <2>5, <3>1
      <4>2. QED
        BY <4>1
    <3>2. CASE g # h
      <4>1. g < h
        BY <1>2, <2>10, <3>2
      <4>2. PICK i \in 1..n : runs[i].from <= g /\ g < runs[i].to
        BY <1>1, <2>10, <4>1 DEF RunsFit
      <4>3. i \in 1..n + 1 /\ new[i] = runs[i]
        BY <1>2, <2>5
      <4>4. QED
        BY <4>2, <4>3
    <3>3. QED
      BY <3>1, <3>2
  <2>11. ASSUME NEW i \in 1..n + 1, NEW j \in 1..n + 1, new[i].to = new[j].from,
                new[i].deficit = new[j].deficit
         PROVE  new[j].from % Day = 0
    <3>1. new[j].from < h + 1
      <4>1. CASE j = n + 1
        BY <1>2, <2>4, <2>5, <4>1
      <4>2. CASE j \in 1..n
        <5>1. new[j] = runs[j] /\ runs[j].from \in Nat /\ runs[j].to \in Nat
              /\ runs[j].from < runs[j].to /\ runs[j].to <= h
          BY <1>3, <2>5, <4>2
        <5>2. QED
          BY <1>2, <5>1
      <4>3. QED
        BY <2>6, <4>1, <4>2
    <3>2. i \in 1..n
      BY <1>2, <2>4, <2>5, <2>6, <2>11, <3>1
    <3>3. CASE j \in 1..n
      BY <1>1, <2>5, <2>11, <3>2, <3>3 DEF RunsFit
    <3>4. CASE j = n + 1
      <4>1. runs[i].to = h /\ runs[i].deficit = e /\ n \in 1..n
        BY <1>2, <2>4, <2>5, <2>11, <3>2, <3>4
      <4>2. i = n
        <5>1. ASSUME i < n PROVE FALSE
          <6>1. runs[i].to <= runs[n].from
            BY <1>1, <3>2, <4>1, <5>1 DEF RunsFit
          <6>2. PICK from, to : from = runs[n].from /\ to = runs[n].to
            OBVIOUS
          <6>3. from \in Nat /\ to \in Nat /\ from < to /\ to <= h
            BY <1>3, <4>1, <6>2
          <6>4. h <= from
            BY <4>1, <6>1, <6>2
          <6>5. QED
            BY <1>2, <6>3, <6>4
        <5>2. QED
          BY <1>2, <3>2, <5>1
      <4>3. runs[n].from \div Day # h \div Day
        BY <1>7, <1>2, <4>1, <4>2 DEF Extends
      <4>4. h # 0 /\ (h - 1) \div Day # h \div Day
        <5>1. h # 0
          <6>1. PICK from, to : from = runs[n].from /\ to = runs[n].to
            OBVIOUS
          <6>2. from \in Nat /\ to \in Nat /\ from < to
            BY <1>3, <4>1, <6>1
          <6>3. QED
            BY <4>1, <4>2, <6>1, <6>2
        <5>2. runs[n].from \div Day = (h - 1) \div Day
          <6>1. runs[n].from \div Day = (runs[n].to - 1) \div Day
            BY <1>0, <4>1
          <6>2. runs[n].to = h
            BY <4>1, <4>2
          <6>3. QED
            BY <6>1, <6>2
        <5>3. QED
          BY <4>3, <5>1, <5>2
      <4>5. h % Day = 0
        BY <1>2, <4>4, DaysBreak
      <4>6. QED
        BY <2>4, <2>5, <3>4, <4>5
    <3>5. QED
      BY <2>6, <3>3, <3>4
  <2>12. RunsFit(new, h + 1, d)
    BY <2>5, <2>8, <2>9, <2>10, <2>11 DEF RunsFit
  <2>13. QED
    BY <2>3, <2>12
<1>8. QED
  BY <1>2, <1>5, <1>6, <1>7

LEMMA DeficitTyped ==
    ASSUME TypeOK, NEW store \in Stores, NEW lo \in Nat, NEW hi \in Nat, NEW h \in Nat
    PROVE  Deficit(store, lo, hi, h) \in Int
<1>1. target[store][h % Week] \in Nat
  <2>1. Week \in Nat \ {0} /\ h % Week \in 0..Week - 1
    BY SizeTypes
  <2>2. target[store] \in [0..Week - 1 -> Nat]
    BY SizeTypes DEF TypeOK, Target
  <2>3. QED
    BY <2>1, <2>2
<1>2. Scheduled(store, lo, hi, h) \in Nat
  <2>1. PICK S : S = {i \in Planned : /\ shift[i].store = store
                                      /\ lo <= shift[i].starts /\ shift[i].starts < hi
                                      /\ shift[i].status \in COUNTED
                                      /\ shift[i].starts < h + 1 /\ shift[i].ends > h}
    OBVIOUS
  <2>2. S \subseteq Planned
    BY <2>1
  <2>3. Cardinality(S) \in Nat
    BY <2>2, PlannedFinite, FS_Subset, FS_CardinalityType
  <2>4. QED
    BY <2>1, <2>3 DEF Scheduled
<1>3. QED
  BY <1>1, <1>2 DEF Deficit

LEMMA SuggestionsFit ==
    ASSUME TypeOK, NEW store \in Stores, NEW lo \in Nat, NEW hi \in Nat, lo < hi,
           NEW d, d = [h \in lo..hi - 1 |-> Deficit(store, lo, hi, h)]
    PROVE  RunsFit(Suggestions(store, lo, hi), hi, d)
<1>0. PICK n : n = hi - lo
  OBVIOUS
<1> DEFINE X == Seq(Run)
           hours == [k \in 1..n |-> lo + k - 1]
           Next1(runs, h) ==
               LET f == Deficit(store, lo, hi, h)
                   m == Len(runs)
               IN  IF f <= 0 THEN runs
                   ELSE IF m > 0 /\ Extends(runs[m], h, f) THEN [runs EXCEPT ![m].to = h + 1]
                   ELSE Append(runs, [from |-> h, to |-> h + 1, deficit |-> f])
           E(F) == F = [s \in SUBSET (1..n) |->
                           IF s = {} THEN <<>> ELSE Next1(F[s \ {Max(s)}], hours[Max(s)])]
           N == [k \in 1..n |-> [runs \in X |-> Next1(runs, hours[k])]]
<1>1. n \in Nat \ {0} /\ Day \in Nat \ {0} /\ <<>> \in X /\ d \in [lo..hi - 1 -> Int]
  <2>1. \A h \in lo..hi - 1 : Deficit(store, lo, hi, h) \in Int
    BY DeficitTyped
  <2>2. QED
    BY <1>0, <2>1, SizeTypes
<1>2. ASSUME NEW k \in 1..n, NEW runs \in X
      PROVE  Next1(runs, hours[k]) = Grown(runs, lo + k - 1, d[lo + k - 1]) /\ lo + k - 1 \in lo..hi - 1
  <2>1. lo + k - 1 \in lo..hi - 1 /\ hours[k] = lo + k - 1
    BY <1>0, <1>1
  <2>2. QED
    BY <2>1 DEF Grown
<1>3. ASSUME NEW k \in 1..n, NEW runs \in X PROVE Next1(runs, hours[k]) \in X
  <2>1. PICK h, e : h = lo + k - 1 /\ e = d[h]
    OBVIOUS
  <2>2. h \in Nat /\ h \in lo..hi - 1 /\ h + 1 \in Nat /\ e \in Int
    BY <1>0, <1>1, <2>1
  <2>3. Next1(runs, hours[k]) = Grown(runs, h, e)
    BY <1>2, <2>1
  <2>4. Grown(runs, h, e) \in X
    <3>1. Len(runs) \in Nat /\ DOMAIN runs = 1..Len(runs) /\ \A i \in 1..Len(runs) : runs[i] \in Run
      BY LenProperties, ElementOfSeq
    <3>2. CASE e <= 0
      BY <3>2 DEF Grown
    <3>3. CASE e > 0 /\ Len(runs) > 0 /\ Extends(runs[Len(runs)], h, e)
      <4>1. PICK r : r = [runs[Len(runs)] EXCEPT !.to = h + 1]
        OBVIOUS
      <4>2. r \in Run /\ Len(runs) \in 1..Len(runs)
        <5>1. Len(runs) \in 1..Len(runs)
          BY <3>1, <3>3
        <5>2. PICK last : last = runs[Len(runs)] /\ last \in Run
          BY <3>1, <5>1
        <5>3. r = [last EXCEPT !.to = h + 1]
          BY <4>1, <5>2
        <5>4. r \in Run
          BY <2>2, <5>2, <5>3 DEF Run
        <5>5. QED
          BY <5>1, <5>4
      <4>3. [runs EXCEPT ![Len(runs)].to = h + 1] = [runs EXCEPT ![Len(runs)] = r]
        BY <3>1, <4>1
      <4>4. [runs EXCEPT ![Len(runs)] = r] \in X
        BY <4>2, ExceptSeq
      <4>5. Grown(runs, h, e) = [runs EXCEPT ![Len(runs)].to = h + 1]
        BY <2>2, <3>3 DEF Grown
      <4>6. QED
        BY <4>3, <4>4, <4>5
    <3>4. CASE e > 0 /\ ~(Len(runs) > 0 /\ Extends(runs[Len(runs)], h, e))
      <4>1. PICK r : r = [from |-> h, to |-> h + 1, deficit |-> e]
        OBVIOUS
      <4>2. r \in Run
        BY <2>2, <3>4, <4>1 DEF Run
      <4>3. Grown(runs, h, e) = Append(runs, r)
        BY <2>2, <3>4, <4>1 DEF Grown
      <4>4. QED
        BY <4>2, <4>3
    <3>5. QED
      BY <2>2, <3>2, <3>3, <3>4
  <2>5. QED
    BY <2>3, <2>4
<1> HIDE DEF X
<1>4. N \in [1..n -> [X -> X]]
  <2> HIDE DEF Next1, hours
  <2>1. QED
    BY <1>3
<1>5. PICK F : F \in [SUBSET (1..n) -> X] /\ Folds(F, n, <<>>, N)
  <2> HIDE DEF N
  <2>1. QED
    BY <1>1, <1>4, FoldExists
<1>6. \A s \in SUBSET (1..n) : s # {} => Max(s) \in s
  <2> HIDE DEF N
  <2>1. QED
    BY <1>1, <1>4, FoldExists
<1>7. E(F)
  <2> HIDE DEF Next1, hours
  <2>1. ASSUME NEW s \in SUBSET (1..n), s # {}
        PROVE  N[Max(s)][F[s \ {Max(s)}]] = Next1(F[s \ {Max(s)}], hours[Max(s)])
    <3>1. Max(s) \in 1..n /\ s \ {Max(s)} \in SUBSET (1..n)
      BY <1>6, <2>1
    <3>2. F[s \ {Max(s)}] \in X
      BY <1>5, <3>1
    <3>3. QED
      BY <3>1, <3>2
  <2>2. QED
    BY <1>5, <2>1 DEF Folds
<1>8. PICK H : H = (CHOOSE G : E(G)) /\ E(H)
  <2> HIDE DEF E
  <2>1. E(CHOOSE G : E(G))
    BY <1>7, Zenon
  <2>2. QED
    BY <2>1
<1>9. Suggestions(store, lo, hi) = H[1..n]
  <2>1. DOMAIN hours = 1..n
    OBVIOUS
  <2>2. Suggestions(store, lo, hi) = (CHOOSE G : E(G))[1..n]
    BY <1>0, <1>1, <2>1 DEF Suggestions, Seqs!FoldLeft, Seqs!MapThenFoldSet, Seqs!Max, Max
  <2>3. QED
    BY <1>8, <2>2
<1> DEFINE G == {k \in 0..n : RunsFit(H[1..k], lo + k, d)}
<1>10. 0 \in G
  <2>1. 1..0 = {} /\ {} \in SUBSET (1..n) /\ 0 \in 0..n
    BY <1>1
  <2>2. H[{}] = <<>>
    BY <1>8, <2>1
  <2>3. RunsFit(<<>>, lo, d)
    <3>1. DOMAIN d = lo..hi - 1 /\ \A g \in lo..hi - 1 : ~(g < lo)
      BY <1>1
    <3>2. Len(<<>>) = 0 /\ 1..0 = {} /\ <<>> \in Seq(Run)
      OBVIOUS
    <3>3. QED
      BY <3>1, <3>2 DEF RunsFit
  <2>4. lo + 0 = lo
    OBVIOUS
  <2>5. QED
    BY <2>1, <2>2, <2>3, <2>4
<1>11. ASSUME NEW k \in 1..n, k - 1 \in G PROVE k \in G
  <2>1. 1..k \in SUBSET (1..n) /\ 1..k # {} /\ Max(1..k) = k /\ (1..k) \ {k} = 1..k - 1
    BY <1>1, InOrder
  <2>2. H[1..k] = Next1(H[1..k - 1], hours[k])
    <3> HIDE DEF Next1, hours
    <3>1. QED
      BY <1>8, <2>1
  <2>3. PICK runs : runs = H[1..k - 1]
    OBVIOUS
  <2>5. PICK h : h = lo + k - 1
    OBVIOUS
  <2>4. RunsFit(runs, h, d) /\ runs \in X
    <3>1. lo + (k - 1) = h
      BY <2>5
    <3>2. QED
      BY <1>11, <2>3, <3>1 DEF RunsFit, X
  <2>6. h \in lo..hi - 1 /\ h + 1 = lo + k /\ H[1..k] = Grown(runs, h, d[h])
    <3> HIDE DEF Next1, hours
    <3>1. h \in lo..hi - 1 /\ h + 1 = lo + k
      BY <1>0, <1>1, <2>5
    <3>2. QED
      BY <1>2, <2>2, <2>3, <2>4, <2>5, <3>1
  <2>7. RunsFit(Grown(runs, h, d[h]), h + 1, d)
    BY <1>1, <2>4, <2>5, <2>6, GrownFits
  <2>8. RunsFit(H[1..k], lo + k, d) /\ k \in 0..n
    BY <1>1, <2>6, <2>7
  <2>9. QED
    BY <2>8
<1>12. n \in G
  <2> HIDE DEF G
  <2>1. n \in 0..n
    BY <1>1
  <2>2. QED
    BY <1>1, <1>10, <1>11, <2>1, CountUp
<1>13. lo + n = hi
  BY <1>0
<1>14. QED
  BY <1>9, <1>12, <1>13

LEMMA RunsFill ==
    ASSUME TypeOK, NEW store \in Stores, NEW lo \in Nat, NEW hi \in Nat, lo < hi
    PROVE  LET runs == Suggestions(store, lo, hi)
               At1(h) == {i \in DOMAIN runs : runs[i].from <= h /\ h < runs[i].to}
           IN  /\ \A h \in lo..hi - 1 :
                     IF Deficit(store, lo, hi, h) <= 0 THEN At1(h) = {}
                     ELSE \E i \in At1(h) : At1(h) = {i} /\ runs[i].deficit = Deficit(store, lo, hi, h)
               /\ \A i \in DOMAIN runs : runs[i].from \div Day = (runs[i].to - 1) \div Day
               /\ \A i, j \in DOMAIN runs :
                     runs[i].to = runs[j].from /\ runs[i].deficit = runs[j].deficit => runs[j].from % Day = 0
<1>1. PICK runs, d : runs = Suggestions(store, lo, hi) /\ d = [h \in lo..hi - 1 |-> Deficit(store, lo, hi, h)]
  OBVIOUS
<1>2. RunsFit(runs, hi, d) /\ DOMAIN d = lo..hi - 1
  BY <1>1, SuggestionsFit
<1>3. /\ DOMAIN runs = 1..Len(runs) /\ Len(runs) \in Nat
      /\ \A i \in 1..Len(runs) : runs[i] \in Run
  BY <1>2, LenProperties, ElementOfSeq DEF RunsFit
<1>4. \A i \in DOMAIN runs : runs[i].from \in Nat /\ runs[i].to \in Nat /\ runs[i].deficit \in Nat \ {0}
  BY <1>3 DEF Run
<1> DEFINE At1(h) == {i \in DOMAIN runs : runs[i].from <= h /\ h < runs[i].to}
<1>5. ASSUME NEW h \in lo..hi - 1, NEW i \in At1(h) PROVE Deficit(store, lo, hi, h) = runs[i].deficit
  <2>1. RunFits(runs[i], hi, d) /\ runs[i].from <= h /\ h < runs[i].to
    BY <1>2, <1>3 DEF RunsFit
  <2>2. d[h] = runs[i].deficit
    BY <1>2, <2>1 DEF RunFits
  <2>3. QED
    BY <1>1, <2>2
<1>6. ASSUME NEW h \in lo..hi - 1, NEW i \in At1(h), NEW j \in At1(h) PROVE i = j
  <2>1. i \in 1..Len(runs) /\ j \in 1..Len(runs) /\ h \in Int
    BY <1>2, <1>3
  <2>2. \A a, b \in At1(h) : a < b => FALSE
    <3> SUFFICES ASSUME NEW a \in At1(h), NEW b \in At1(h), a < b PROVE FALSE
      OBVIOUS
    <3>1. runs[a].to <= runs[b].from /\ h < runs[a].to /\ runs[b].from <= h
      BY <1>2, <1>3 DEF RunsFit
    <3>2. QED
      BY <1>4, <2>1, <3>1
  <2>3. QED
    BY <1>3, <2>1, <2>2
<1>7. ASSUME NEW h \in lo..hi - 1
      PROVE  IF Deficit(store, lo, hi, h) <= 0 THEN At1(h) = {}
             ELSE \E i \in At1(h) : At1(h) = {i} /\ runs[i].deficit = Deficit(store, lo, hi, h)
  <2>1. CASE Deficit(store, lo, hi, h) <= 0
    <3>1. ASSUME NEW i \in At1(h) PROVE FALSE
      <4>1. Deficit(store, lo, hi, h) = runs[i].deficit
        BY <1>5
      <4>2. runs[i].deficit \in Nat \ {0}
        BY <1>4
      <4>3. QED
        BY <2>1, <4>1, <4>2
    <3>2. QED
      BY <2>1, <3>1
  <2>2. CASE ~(Deficit(store, lo, hi, h) <= 0)
    <3>1. h \in Nat /\ Deficit(store, lo, hi, h) \in Int
      BY DeficitTyped
    <3>0. d[h] > 0 /\ h < hi
      BY <1>1, <2>2, <3>1
    <3>2. \E i \in 1..Len(runs) : runs[i].from <= h /\ h < runs[i].to
      BY <1>2, <3>0 DEF RunsFit
    <3>3. PICK i \in At1(h) : TRUE
      BY <1>3, <3>2
    <3>4. At1(h) = {i}
      BY <1>6
    <3>5. Deficit(store, lo, hi, h) = runs[i].deficit
      BY <1>5
    <3>6. QED
      BY <2>2, <3>4, <3>5
  <2>3. QED
    BY <2>1, <2>2
<1>8. /\ \A i \in DOMAIN runs : runs[i].from \div Day = (runs[i].to - 1) \div Day
      /\ \A i, j \in DOMAIN runs :
            runs[i].to = runs[j].from /\ runs[i].deficit = runs[j].deficit => runs[j].from % Day = 0
  BY <1>2, <1>3 DEF RunsFit, RunFits
<1>9. QED
  BY <1>1, <1>7, <1>8

\* In an hour of the range, those who count are those who are on duty and are seen.
LEMMA MissingIsDeficit ==
    ASSUME TypeOK, NEW store \in Stores, NEW lo \in Nat, NEW hi \in Nat, NEW h \in lo..hi - 1
    PROVE  Missing(store, lo, h) = Deficit(store, lo, hi, h)
<1>1. PICK A, U, S :
          /\ A = OnDuty(store, h) /\ U = Unseen(store, lo, h)
          /\ S = {i \in Planned : /\ shift[i].store = store
                                  /\ lo <= shift[i].starts /\ shift[i].starts < hi
                                  /\ shift[i].status \in COUNTED
                                  /\ shift[i].starts < h + 1 /\ shift[i].ends > h}
  OBVIOUS
<1>2. A \subseteq Planned /\ U \subseteq A
  BY <1>1 DEF OnDuty, Unseen
<1>3. \A i \in Planned : shift[i].starts \in Int /\ shift[i].ends \in Int
  BY PlannedTimes
<1>4. S = A \ U
  <2>1. ASSUME NEW i \in Planned
        PROVE  (lo <= shift[i].starts /\ shift[i].starts < hi /\ shift[i].starts < h + 1 /\ shift[i].ends > h)
                 <=> (Covers(shift[i], h) /\ ~(shift[i].starts < lo))
    BY <1>3 DEF Covers
  <2>2. QED
    BY <1>1, <2>1 DEF OnDuty, Unseen
<1>5. IsFiniteSet(A) /\ IsFiniteSet(U)
  BY <1>2, PlannedFinite, FS_Subset
<1>6. Cardinality(S) = Cardinality(A) - Cardinality(U)
  <2>1. A \cap U = U
    BY <1>2
  <2>2. Cardinality(A \ U) = Cardinality(A) - Cardinality(A \cap U)
    BY <1>5, FS_Difference
  <2>3. QED
    BY <1>4, <2>1, <2>2
<1>7. Cardinality(A) \in Nat /\ Cardinality(U) \in Nat
  BY <1>5, FS_CardinalityType
<1>8. PICK t : t = target[store][h % Week] /\ t \in Nat
  <2>1. Week \in Nat \ {0} /\ h % Week \in 0..Week - 1
    BY SizeTypes
  <2>2. target[store] \in [0..Week - 1 -> Nat]
    BY SizeTypes DEF TypeOK, Target
  <2>3. QED
    BY <2>1, <2>2
<1>9. Deficit(store, lo, hi, h) = t - Cardinality(S)
  BY <1>1, <1>8 DEF Deficit, Scheduled
<1>10. Missing(store, lo, h) = t - Cardinality(A) + Cardinality(U)
  BY <1>1, <1>8 DEF Missing
<1>11. QED
  BY <1>6, <1>7, <1>8, <1>9, <1>10

\* Whatever is planned and required, and whichever days are asked about, a store's
\* suggestions add in every hour who is missing then, and whoever is on duty in a
\* shift that began before those days, and nobody else; each lies within a day, and
\* none could be joined to the next ("merged into ranges", scheduling.service.ts:356).
THEOREM GapsFilled == Spec => []SuggestionsFillGaps
<1>1. Typed => SuggestionsFillGaps
  <2> SUFFICES ASSUME TypeOK, NEW store \in Stores, NEW range \in size.ranges
               PROVE  LET runs == Suggestions(store, range[1], range[2])
                          At1(h) == {i \in DOMAIN runs : runs[i].from <= h /\ h < runs[i].to}
                      IN  /\ \A h \in range[1]..range[2] - 1 :
                                IF Missing(store, range[1], h) <= 0 THEN At1(h) = {}
                                ELSE \E i \in At1(h) :
                                        At1(h) = {i} /\ runs[i].deficit = Missing(store, range[1], h)
                          /\ \A i \in DOMAIN runs : runs[i].from \div Day = (runs[i].to - 1) \div Day
                          /\ \A i, j \in DOMAIN runs :
                                runs[i].to = runs[j].from /\ runs[i].deficit = runs[j].deficit
                                   => runs[j].from % Day = 0
    BY DEF Typed, SuggestionsFillGaps
  <2>1. PICK lo, hi : lo = range[1] /\ hi = range[2] /\ lo \in Nat /\ hi \in Nat /\ lo < hi
    BY RangeTypes
  <2>2. \A h \in lo..hi - 1 : Missing(store, lo, h) = Deficit(store, lo, hi, h)
    BY <2>1, MissingIsDeficit
  <2>3. QED
    BY <2>1, <2>2, RunsFill
<1>2. QED
  BY TypedInit, TypedStep, <1>1, PTL DEF Spec
=============================================================================
