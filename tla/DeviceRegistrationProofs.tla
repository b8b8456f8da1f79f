---------------------- MODULE DeviceRegistrationProofs ----------------------
(***************************************************************************)
(* For any number of calls, employees and registrations: the types, the    *)
(* one active registration, what the trail tells of a status, and the      *)
(* finality of a revocation for the employees about whom calls come one at *)
(* a time.  For any number of calls, terminals and stores, any life of a   *)
(* code and any run of the clock: one terminal for a store, codes that an  *)
(* administrator ended stay ended, and a code shown is good for its time   *)
(* where the calls about a store come one at a time.  Devices is both.     *)
(***************************************************************************)
EXTENDS Devices, FiniteSetTheorems, TLAPS

\* A call under way knows its employee, and the row it works on is theirs.
Located ==
    \A c \in Calls :
        /\ Running(c) => call[c].employee \in Employees /\ call[c].op \in Op
        /\ call[c].pc \in {"read", "guard", "write"} =>
              /\ call[c].op # "register"
              /\ call[c].reg \in Registrations
              /\ reg[call[c].reg].employee = call[c].employee
        /\ call[c].pc = "trail" => call[c].reg \in Registrations
        /\ call[c].pc \in {"find", "insert"} => call[c].op = "register"

\* A row that was never written belongs to nobody.
NoneUnowned == \A r \in Registrations : reg[r].status = "none" => reg[r].employee = Null

Safe == TypeOK /\ Located /\ NoneUnowned /\ OneActive

-----------------------------------------------------------------------------
(* The invariant holds at first and every step keeps it. *)

LEMMA SafeInit == Init => Safe
  BY DEF Init, Safe, TypeOK, Located, NoneUnowned, OneActive, RegRow, RegStatus,
         CallState, Pc, Fresh, Running

\* A step that only moves a call: from one place to a later one that asks for
\* no more than the place it leaves.
LEMMA CallMoves ==
    ASSUME Safe, UNCHANGED reg, trail' \in [Registrations -> Seq(Action)],
           NEW c \in Calls, NEW locals \in CallState,
           call' = [call EXCEPT ![c] = locals],
           locals.pc \notin {"idle", "done", "dead"} =>
              locals.employee \in Employees /\ locals.op \in Op,
           locals.pc \in {"read", "guard", "write"} =>
              /\ locals.op # "register"
              /\ locals.reg \in Registrations
              /\ reg[locals.reg].employee = locals.employee,
           locals.pc = "trail" => locals.reg \in Registrations,
           locals.pc \in {"find", "insert"} => locals.op = "register"
    PROVE  Safe'
<1>1. TypeOK'
  BY DEF Safe, TypeOK
<1>2. Located'
  BY DEF Safe, TypeOK, Located, Running
<1>3. NoneUnowned' /\ OneActive'
  BY DEF Safe, NoneUnowned, OneActive
<1>4. QED
  BY <1>1, <1>2, <1>3 DEF Safe

\* A step that writes the row r for a call c and moves c: the row keeps its
\* owner if it had one, and is not a second active one.
LEMMA RowWritten ==
    ASSUME Safe, UNCHANGED trail,
           NEW c \in Calls, NEW locals \in CallState,
           call' = [call EXCEPT ![c] = locals],
           NEW r \in Registrations, NEW row \in RegRow,
           reg' = [reg EXCEPT ![r] = row],
           row.status # "none" /\ row.employee \in Employees,
           reg[r].status # "none" => row.employee = reg[r].employee,
           row.status = "active" => IndexAdmits(row.employee, r),
           locals.pc = "trail", locals.reg \in Registrations,
           locals.employee \in Employees, locals.op \in Op
    PROVE  Safe'
<1>1. TypeOK'
  BY DEF Safe, TypeOK
<1>2. ASSUME NEW d \in Calls, d # c, call[d].pc \in {"read", "guard", "write"}
      PROVE  reg'[call[d].reg].employee = call[d].employee
  <2>1. /\ call[d].reg \in Registrations /\ call[d].employee \in Employees
        /\ reg[call[d].reg].employee = call[d].employee
    BY <1>2 DEF Safe, Located, Running
  <2>2. reg[call[d].reg].status # "none"
    BY <2>1, RegistrationAssumption DEF Safe, NoneUnowned, RegistrationAssumption
  <2>3. QED
    BY <2>1, <2>2 DEF Safe, TypeOK
<1>3. Located'
  BY <1>2 DEF Safe, TypeOK, Located, Running
<1>4. NoneUnowned'
  BY DEF Safe, TypeOK, NoneUnowned
<1>5. OneActive'
  BY DEF Safe, TypeOK, OneActive, IndexAdmits, ActiveFor
<1>6. QED
  BY <1>1, <1>3, <1>4, <1>5 DEF Safe

LEMMA BeginSafe ==
    ASSUME Safe, NEW c \in Calls, NEW op \in Op, NEW e \in Employees,
           NEW r \in Registrations \cup {Null}, Begin(c, op, e, r)
    PROVE  Safe'
<1> DEFINE locals == [pc |-> IF op = "register" THEN "find" ELSE "read",
                      op |-> op, employee |-> e, reg |-> r]
<1>1. locals \in CallState
  BY DEF CallState, Pc, Op
<1>2. call' = [call EXCEPT ![c] = locals] /\ UNCHANGED <<reg, trail>>
  BY DEF Begin
<1>3. trail' \in [Registrations -> Seq(Action)]
  BY <1>2 DEF Safe, TypeOK
<1>4. locals.pc = "read" => /\ locals.op # "register"
                            /\ locals.reg \in Registrations
                            /\ reg[locals.reg].employee = locals.employee
  BY DEF Begin
<1>5. /\ locals.pc \in {"find", "read"}
      /\ locals.pc = "find" => locals.op = "register"
      /\ locals.employee \in Employees /\ locals.op \in Op
  OBVIOUS
<1> HIDE DEF locals
<1>6. QED
  BY <1>1, <1>2, <1>3, <1>4, <1>5, CallMoves

\* A call that goes on where it may, or ends.
LEMMA GotoSafe ==
    ASSUME Safe, NEW c \in Calls, NEW at \in Pc \ {"idle", "read", "trail"},
           Running(c), Goto(c, at), UNCHANGED reg,
           trail' \in [Registrations -> Seq(Action)],
           at \in {"guard", "write"} => call[c].pc \in {"read", "guard", "write"},
           at \in {"find", "insert"} => call[c].pc \in {"find", "insert"}
    PROVE  Safe'
<1> DEFINE locals == [call[c] EXCEPT !.pc = at]
<1>1. call[c] \in CallState
  BY DEF Safe, TypeOK
<1>2. locals \in CallState /\ locals.pc = at /\ locals.op = call[c].op
      /\ locals.employee = call[c].employee /\ locals.reg = call[c].reg
  BY <1>1 DEF CallState
<1>3. call' = [call EXCEPT ![c] = locals]
  BY DEF Goto
<1>4. locals.employee \in Employees /\ locals.op \in Op
  BY <1>2 DEF Safe, Located
<1>5. at \in {"read", "guard", "write"} =>
         /\ locals.op # "register"
         /\ locals.reg \in Registrations
         /\ reg[locals.reg].employee = locals.employee
  BY <1>2 DEF Safe, Located
<1>6. at \in {"find", "insert"} => locals.op = "register"
  BY <1>2 DEF Safe, Located
<1> HIDE DEF locals
<1>7. QED
  BY <1>2, <1>3, <1>4, <1>5, <1>6, CallMoves

LEMMA InsertSafe ==
    ASSUME Safe, NEW c \in Calls, NEW r \in Registrations, InsertRegistration(c, r)
    PROVE  Safe'
<1> DEFINE e == call[c].employee
           row == [status |-> "active", employee |-> e]
           locals == [call[c] EXCEPT !.pc = "trail", !.reg = r]
<1>1. Running(c) /\ e \in Employees /\ call[c].op \in Op /\ call[c] \in CallState
  BY DEF InsertRegistration, Running, Safe, Located, TypeOK
<1>2. CASE IndexAdmits(e, r)
  <2>1. /\ reg' = [reg EXCEPT ![r] = row]
        /\ call' = [call EXCEPT ![c] = locals]
        /\ UNCHANGED trail /\ reg[r].status = "none"
    BY <1>2 DEF InsertRegistration
  <2>2. locals \in CallState /\ locals.pc = "trail" /\ locals.reg = r
        /\ locals.employee = e /\ locals.op = call[c].op
    BY <1>1 DEF CallState, Pc
  <2>3. row \in RegRow /\ row.status = "active" /\ row.employee = e
    BY <1>1 DEF RegRow, RegStatus
  <2> HIDE DEF locals, row
  <2>4. QED
    BY <1>1, <1>2, <2>1, <2>2, <2>3, RowWritten
<1>3. CASE ~IndexAdmits(e, r)
  BY <1>1, <1>3, GotoSafe DEF InsertRegistration, Finish, Pc, Safe, TypeOK
<1>4. QED
  BY <1>2, <1>3

\* The row an operation writes.
LEMMA WriteSafe ==
    ASSUME Safe, NEW c \in Calls, WriteRegistration(c)
    PROVE  Safe'
<1> DEFINE r == call[c].reg
           op == call[c].op
           row == [reg[r] EXCEPT !.status = Result(op)]
           locals == [call[c] EXCEPT !.pc = "trail"]
           refused == op = "enable" /\ ~IndexAdmits(call[c].employee, r)
<1>1. /\ Running(c) /\ r \in Registrations /\ op \in {"revoke", "disable", "enable"}
      /\ call[c].employee \in Employees /\ reg[r].employee = call[c].employee
      /\ call[c] \in CallState /\ reg[r] \in RegRow
  BY DEF WriteRegistration, Running, Safe, Located, TypeOK, Op
<1>2. CASE ~refused
  <2>1. /\ reg' = [reg EXCEPT ![r] = row]
        /\ call' = [call EXCEPT ![c] = locals]
        /\ UNCHANGED trail
    BY <1>2 DEF WriteRegistration, Goto
  <2>2. locals \in CallState /\ locals.pc = "trail" /\ locals.reg = r
        /\ locals.employee = call[c].employee /\ locals.op = op
    BY <1>1 DEF CallState, Pc
  <2>3. /\ Result(op) \in {"active", "disabled", "revoked"}
        /\ Result(op) = "active" => op = "enable"
    BY <1>1 DEF Result
  <2>4. row \in RegRow /\ row.status = Result(op) /\ row.employee = call[c].employee
    BY <1>1, <2>3 DEF RegRow, RegStatus
  <2>5. op \in Op
    BY <1>1 DEF Op
  <2>6. row.status = "active" => IndexAdmits(row.employee, r)
    BY <1>2, <2>3, <2>4
  <2> HIDE DEF locals, row, r, op, refused
  <2>7. QED
    BY <1>1, <2>1, <2>2, <2>3, <2>4, <2>5, <2>6, RowWritten
<1>3. CASE refused
  BY <1>1, <1>3, GotoSafe DEF WriteRegistration, Finish, Pc, Safe, TypeOK
<1>4. QED
  BY <1>2, <1>3

LEMMA StepSafe == Safe /\ [Next]_vars => Safe'
<1> SUFFICES ASSUME Safe, [Next]_vars PROVE Safe'
  OBVIOUS
<1>1. trail \in [Registrations -> Seq(Action)]
  BY DEF Safe, TypeOK
<1>2. CASE UNCHANGED vars
  BY <1>2 DEF vars, Safe, TypeOK, Located, NoneUnowned, OneActive, Running
<1>3. ASSUME NEW c \in Calls, Step(c) PROVE Safe'
  <2>1. ASSUME NEW op \in Op, NEW e \in Employees, NEW r \in Registrations \cup {Null},
               Begin(c, op, e, r)
        PROVE  Safe'
    BY <2>1, BeginSafe
  <2>2. CASE FindActive(c)
    BY <1>1, <2>2, GotoSafe DEF FindActive, Finish, Pc, Running
  <2>3. ASSUME NEW r \in Registrations, InsertRegistration(c, r) PROVE Safe'
    BY <2>3, InsertSafe
  <2>4. CASE ReadRegistration(c)
    BY <1>1, <2>4, GotoSafe DEF ReadRegistration, Finish, Pc, Running
  <2>5. CASE GuardOneActive(c)
    BY <1>1, <2>5, GotoSafe DEF GuardOneActive, Finish, Pc, Running
  <2>6. CASE WriteRegistration(c)
    BY <2>6, WriteSafe
  <2>7. CASE AddLog(c)
    <3>1. call[c].reg \in Registrations /\ call[c].op \in Op
      BY <2>7 DEF AddLog, Safe, Located, Running
    <3>2. Entry(call[c].op) \in Action
      BY <3>1 DEF Entry, Op, Action
    <3>3. trail' \in [Registrations -> Seq(Action)]
      BY <1>1, <2>7, <3>1, <3>2 DEF AddLog
    <3>4. QED
      BY <2>7, <3>3, GotoSafe DEF AddLog, Finish, Pc, Running
  <2>8. CASE Crash(c)
    BY <1>1, <2>8, GotoSafe DEF Crash, Finish, Pc
  <2>9. QED
    BY <1>3, <2>1, <2>2, <2>3, <2>4, <2>5, <2>6, <2>7, <2>8 DEF Step
<1>4. QED
  BY <1>2, <1>3 DEF Next

LEMMA SafeAlways == Spec => []Safe
  BY SafeInit, StepSafe, PTL DEF Spec

\* The rows, the trail and the locals of every call keep their types.
THEOREM TypeCorrect == Spec => []TypeOK
<1>1. Safe => TypeOK
  BY DEF Safe
<1>2. QED
  BY <1>1, SafeAlways, PTL

\* However the calls overlap or die, an employee has at most one active
\* registration.
THEOREM OneActiveAlways == Spec => []OneActive
<1>1. Safe => OneActive
  BY DEF Safe
<1>2. QED
  BY <1>1, SafeAlways, PTL

-----------------------------------------------------------------------------
(* Revocation, when the calls about one employee come one at a time *)

\* No two calls about one employee are under way, so what a call found when it
\* read the row is still so when it writes it.
OneAtATime ==
    \A c, d \in Calls :
        (/\ Running(c) /\ Running(d)
         /\ call[c].employee = call[d].employee /\ call[c].employee \in Serialized)
        => c = d
StillAllowed ==
    \A c \in Calls : call[c].pc \in {"guard", "write"} /\ call[c].employee \in Serialized =>
        Allowed(call[c].op, reg[call[c].reg].status)
Serial == Safe /\ OneAtATime /\ StillAllowed

LEMMA SerialInit == Init => Serial
  BY SafeInit DEF Init, Serial, OneAtATime, StillAllowed, Fresh, Running

\* A call that moves on, with its row untouched by it or written by it.
LEMMA OneAtATimeStep ==
    ASSUME Serial, [Next]_vars
    PROVE  OneAtATime'
<1>1. CASE UNCHANGED vars
  BY <1>1 DEF vars, Serial, OneAtATime, Running
<1>2. ASSUME NEW c \in Calls, Step(c) PROVE OneAtATime'
  <2>1. ASSUME NEW op \in Op, NEW e \in Employees, NEW r \in Registrations \cup {Null},
               Begin(c, op, e, r)
        PROVE  OneAtATime'
    BY <2>1 DEF Begin, Serial, Safe, TypeOK, OneAtATime, Running
  <2>2. CASE /\ Running(c)
             /\ \A d \in Calls : d # c => call'[d] = call[d]
             /\ call'[c].employee = call[c].employee
    BY <2>2 DEF Serial, OneAtATime, Running
  <2>3. ASSUME NEW at, Goto(c, at)
        PROVE  /\ \A d \in Calls : d # c => call'[d] = call[d]
               /\ call'[c].employee = call[c].employee
    BY <2>3 DEF Goto, Serial, Safe, TypeOK, CallState
  <2>4. ASSUME NEW r \in Registrations, InsertRegistration(c, r)
        PROVE  /\ Running(c)
               /\ \A d \in Calls : d # c => call'[d] = call[d]
               /\ call'[c].employee = call[c].employee
    BY <2>4 DEF InsertRegistration, Finish, Goto, Running, Serial, Safe, TypeOK, CallState
  <2>5. CASE FindActive(c) \/ ReadRegistration(c) \/ GuardOneActive(c)
             \/ WriteRegistration(c) \/ AddLog(c) \/ Crash(c)
    <3>1. Running(c) /\ \E at : Goto(c, at)
      BY <2>5 DEF FindActive, ReadRegistration, GuardOneActive, WriteRegistration, AddLog,
                  Crash, Finish, Running
    <3>2. QED
      BY <2>2, <2>3, <3>1
  <2>6. QED
    BY <1>2, <2>1, <2>2, <2>4, <2>5 DEF Step
<1>3. QED
  BY <1>1, <1>2 DEF Next

\* A call past its check still finds the row as it left it.
LEMMA StillAllowedStep ==
    ASSUME Serial, [Next]_vars
    PROVE  StillAllowed'
<1> SUFFICES ASSUME NEW d \in Calls, call'[d].pc \in {"guard", "write"},
                    call'[d].employee \in Serialized
             PROVE  Allowed(call'[d].op, reg'[call'[d].reg].status)
  BY DEF StillAllowed, Allowed
<1>1. CASE UNCHANGED vars
  BY <1>1 DEF vars, Serial, StillAllowed
<1>2. ASSUME NEW c \in Calls, Step(c) PROVE Allowed(call'[d].op, reg'[call'[d].reg].status)
  <2>1. CASE c = d
    <3>1. ASSUME NEW at, Goto(d, at), UNCHANGED reg
          PROVE  /\ call'[d].pc = at /\ call'[d].op = call[d].op
                 /\ call'[d].reg = call[d].reg /\ call'[d].employee = call[d].employee
                 /\ reg'[call'[d].reg] = reg[call[d].reg]
      BY <3>1 DEF Goto, Serial, Safe, TypeOK, CallState
    <3>2. CASE ReadRegistration(d)
      <4>1. Allowed(call[d].op, reg[call[d].reg].status)
        BY <3>1, <3>2 DEF ReadRegistration, Finish
      <4>2. QED
        BY <3>1, <3>2, <4>1 DEF ReadRegistration
    <3>3. CASE GuardOneActive(d)
      <4>1. UNCHANGED reg /\ \E at : Goto(d, at)
        BY <3>3 DEF GuardOneActive, Finish
      <4>2. QED
        BY <3>1, <3>3, <4>1 DEF GuardOneActive, Serial, StillAllowed
    <3>4. QED
      BY <1>2, <2>1, <3>2, <3>3
      DEF Step, Begin, FindActive, InsertRegistration, WriteRegistration, AddLog, Crash,
          Finish, Goto, Serial, Safe, TypeOK, CallState
  <2>2. CASE c # d
    <3>1. call'[d] = call[d]
      BY <1>2, <2>2
      DEF Step, Begin, FindActive, InsertRegistration, ReadRegistration, GuardOneActive,
          WriteRegistration, AddLog, Crash, Finish, Goto, Serial, Safe, TypeOK
    <3>2. /\ Running(d) /\ call[d].reg \in Registrations /\ call[d].employee \in Employees
          /\ reg[call[d].reg].employee = call[d].employee
      BY <3>1 DEF Serial, Safe, Located, Running
    <3>3. reg[call[d].reg].status # "none"
      BY <3>2, RegistrationAssumption DEF Serial, Safe, NoneUnowned, RegistrationAssumption
    <3>4. WriteRegistration(c) => call[c].reg # call[d].reg
      BY <2>2, <3>1, <3>2 DEF WriteRegistration, Serial, OneAtATime, Safe, Located, Running
    <3>5. reg'[call[d].reg].status = reg[call[d].reg].status
      BY <1>2, <3>2, <3>3, <3>4
      DEF Step, Begin, FindActive, InsertRegistration, ReadRegistration, GuardOneActive,
          WriteRegistration, AddLog, Crash, Serial, Safe, TypeOK, RegRow
    <3>6. QED
      BY <3>1, <3>5 DEF Serial, StillAllowed
  <2>3. QED
    BY <2>1, <2>2
<1>3. QED
  BY <1>1, <1>2 DEF Next

LEMMA SerialStep == Serial /\ [Next]_vars => Serial'
  BY StepSafe, OneAtATimeStep, StillAllowedStep DEF Serial

\* The only step that changes the status of a registration ever written is a
\* write its operation is still allowed to make.
LEMMA RevokedKept ==
    ASSUME Serial, [Next]_vars, NEW r \in Registrations,
           reg[r].status = "revoked", reg[r].employee \in Serialized
    PROVE  reg'[r].status = "revoked"
<1>1. CASE UNCHANGED vars
  BY <1>1 DEF vars
<1>2. ASSUME NEW c \in Calls, Step(c) PROVE reg'[r].status = "revoked"
  <2>1. CASE WriteRegistration(c)
    <3>1. call[c].reg \in Registrations /\ call[c].op \in {"revoke", "disable", "enable"}
      BY <2>1 DEF WriteRegistration, Serial, Safe, Located, Running, Op
    <3>2. call[c].reg = r => Allowed(call[c].op, "revoked")
      BY <2>1 DEF WriteRegistration, Serial, Safe, Located, StillAllowed
    <3>3. call[c].reg = r => call[c].op = "revoke"
      BY <3>1, <3>2 DEF Allowed
    <3>4. QED
      BY <2>1, <3>1, <3>3 DEF WriteRegistration, Result, Serial, Safe, TypeOK, RegRow
  <2>2. QED
    BY <1>2, <2>1
    DEF Step, Begin, FindActive, InsertRegistration, ReadRegistration, GuardOneActive,
        AddLog, Crash, Serial, Safe, TypeOK, RegRow
<1>3. QED
  BY <1>1, <1>2 DEF Next

\* While the calls about an employee come one at a time, a registration of
\* theirs that was revoked stays revoked.
THEOREM RevocationIsFinal == Spec => RevokedStaysRevoked
<1>1. Serial /\ [Next]_vars => Serial'
  BY SerialStep
<1>2. Serial /\ [Next]_vars => [KeepsRevoked(Serialized)]_vars
  BY RevokedKept DEF KeepsRevoked
<1>3. QED
  BY SerialInit, <1>1, <1>2, PTL DEF Spec, RevokedStaysRevoked

-----------------------------------------------------------------------------
(* The trail *)

\* A status is told by a row of the trail, or will be by a call that is about to add
\* it, unless a call has died.
InTrail(r) == \E i \in DOMAIN trail[r] : trail[r][i] \in Told(reg[r].status)
AtEnd(r) == trail[r] # <<>> /\ trail[r][Len(trail[r])] \in Told(reg[r].status)
Answers(c, r) ==
    call[c].pc = "trail" /\ call[c].reg = r /\ Entry(call[c].op) \in Told(reg[r].status)
Awaited(r) == \E c \in Calls : call[c].pc = "dead" \/ Answers(c, r)
Accounted == \A r \in Registrations : reg[r].status # "none" => InTrail(r) \/ Awaited(r)
LastTells ==
    \A r \in Registrations :
        reg[r].status # "none" /\ reg[r].employee \in Serialized => AtEnd(r) \/ Awaited(r)

\* What a call is about to add is still so where no other call came between.
StillTells ==
    \A c \in Calls : call[c].pc = "trail" =>
        /\ reg[call[c].reg].employee = call[c].employee
        /\ reg[call[c].reg].status # "none"
        /\ call[c].employee \in Serialized =>
               Entry(call[c].op) \in Told(reg[call[c].reg].status)

Telling == Accounted /\ LastTells /\ StillTells

LEMMA TellingInit == Init => Telling
  BY DEF Init, Telling, Accounted, LastTells, StillTells, Fresh

\* A step that only moves a call which was not about to add a row, or ends it by death.
LEMMA TellingMoves ==
    ASSUME Serial, Telling, UNCHANGED <<reg, trail>>,
           NEW c \in Calls, \A d \in Calls : d # c => call'[d] = call[d],
           call'[c].pc # "trail", call[c].pc \notin {"trail", "dead"} \/ call'[c].pc = "dead"
    PROVE  Telling'
<1>1. \A r \in Registrations : Awaited(r) => Awaited(r)'
  BY DEF Awaited, Answers
<1>2. Accounted' /\ LastTells'
  BY <1>1 DEF Telling, Accounted, LastTells, InTrail, AtEnd
<1>3. StillTells'
  BY DEF Telling, StillTells
<1>4. QED
  BY <1>2, <1>3 DEF Telling

\* A call writes its row and is about to say so.
LEMMA TellingWritten ==
    ASSUME Serial, Telling, UNCHANGED trail, NEW c \in Calls, NEW r \in Registrations,
           \A d \in Calls : d # c => call'[d] = call[d],
           Running(c), call[c].pc # "trail",
           call'[c].pc = "trail", call'[c].reg = r, call'[c].employee = call[c].employee,
           \A s \in Registrations : s # r => reg'[s] = reg[s],
           reg'[r].employee = call[c].employee, reg'[r].status # "none",
           reg[r].status # "none" => reg[r].employee = call[c].employee,
           Entry(call'[c].op) \in Told(reg'[r].status)
    PROVE  Telling'
<1>1. Awaited(r)'
  BY DEF Awaited, Answers
<1>2. ASSUME NEW s \in Registrations, s # r
      PROVE  (InTrail(s) => InTrail(s)') /\ (AtEnd(s) => AtEnd(s)') /\ (Awaited(s) => Awaited(s)')
  BY <1>2 DEF InTrail, AtEnd, Awaited, Answers, Running
<1>3. Accounted' /\ LastTells'
  BY <1>1, <1>2 DEF Telling, Accounted, LastTells
<1>4. StillTells'
  <2> SUFFICES ASSUME NEW d \in Calls, d # c, call[d].pc = "trail"
               PROVE  /\ reg'[call[d].reg].employee = call[d].employee
                      /\ reg'[call[d].reg].status # "none"
                      /\ call[d].employee \in Serialized =>
                             Entry(call[d].op) \in Told(reg'[call[d].reg].status)
    BY DEF StillTells
  <2>1. /\ call[d].reg \in Registrations /\ Running(d)
        /\ reg[call[d].reg].employee = call[d].employee /\ reg[call[d].reg].status # "none"
        /\ call[d].employee \in Serialized => Entry(call[d].op) \in Told(reg[call[d].reg].status)
    BY DEF Serial, Safe, Located, Running, Telling, StillTells
  <2>2. call[d].reg = r => call[d].employee \notin Serialized
    BY <2>1 DEF Serial, OneAtATime
  <2>3. QED
    BY <2>1, <2>2
<1>5. QED
  BY <1>3, <1>4 DEF Telling

LEMMA TellingAdds ==
    ASSUME Serial, Telling, NEW c \in Calls, AddLog(c), NEW r \in Registrations, call[c].reg = r
    PROVE  Telling'
<1> DEFINE entry == Entry(call[c].op)
<1>1. /\ call[c].op \in Op /\ call[c].pc = "trail"
      /\ trail \in [Registrations -> Seq(Action)] /\ call \in [Calls -> CallState]
  BY DEF AddLog, Serial, Safe, TypeOK, Located, Running
<1>2. /\ entry \in Action
      /\ trail[r] \in Seq(Action) /\ trail'[r] = Append(trail[r], entry)
      /\ \A s \in Registrations : s # r => trail'[s] = trail[s]
      /\ UNCHANGED reg
      /\ \A d \in Calls : d # c => call'[d] = call[d]
      /\ call'[c].pc = "done"
  BY <1>1 DEF AddLog, Finish, Goto, Entry, Op, Action, CallState
<1> HIDE DEF entry
<1>3. /\ \A i \in DOMAIN trail[r] : i \in DOMAIN trail'[r] /\ trail'[r][i] = trail[r][i]
      /\ trail'[r] # <<>> /\ trail'[r][Len(trail'[r])] = entry
      /\ Len(trail'[r]) \in DOMAIN trail'[r]
  BY <1>2
<1>4. ASSUME NEW s \in Registrations, s # r
      PROVE  (InTrail(s) => InTrail(s)') /\ (AtEnd(s) => AtEnd(s)') /\ (Awaited(s) => Awaited(s)')
  BY <1>1, <1>2, <1>4 DEF InTrail, AtEnd, Awaited, Answers
<1>5. InTrail(r) => InTrail(r)'
  BY <1>2, <1>3 DEF InTrail
<1>6. entry \in Told(reg[r].status) => InTrail(r)' /\ AtEnd(r)'
  BY <1>2, <1>3 DEF InTrail, AtEnd
<1>7. Awaited(r) => Awaited(r)' \/ entry \in Told(reg[r].status)
  BY <1>1, <1>2 DEF Awaited, Answers, entry
<1>8. reg[r].employee \in Serialized => entry \in Told(reg[r].status)
  BY <1>1 DEF Telling, StillTells, entry
<1>9. Accounted'
  BY <1>2, <1>4, <1>5, <1>6, <1>7 DEF Telling, Accounted
<1>10. LastTells'
  BY <1>2, <1>4, <1>6, <1>8 DEF Telling, LastTells
<1>11. StillTells'
  BY <1>2 DEF Telling, StillTells
<1>12. QED
  BY <1>9, <1>10, <1>11 DEF Telling

LEMMA TellingStep ==
    ASSUME Serial, Telling, [Next]_vars
    PROVE  Telling'
<1>1. CASE UNCHANGED vars
  BY <1>1 DEF vars, Telling, Accounted, LastTells, StillTells, InTrail, AtEnd, Awaited, Answers
<1>2. ASSUME NEW c \in Calls, Step(c) PROVE Telling'
  <2>1. call \in [Calls -> CallState] /\ reg \in [Registrations -> RegRow]
    BY DEF Serial, Safe, TypeOK
  <2>2. ASSUME NEW at, Goto(c, at), UNCHANGED <<reg, trail>>, at # "trail",
               call[c].pc \notin {"trail", "dead"} \/ at = "dead"
        PROVE  Telling'
    BY <2>1, <2>2, TellingMoves DEF Goto, CallState
  <2>3. ASSUME NEW op \in Op, NEW e \in Employees, NEW r \in Registrations \cup {Null},
               Begin(c, op, e, r)
        PROVE  Telling'
    BY <2>1, <2>3, TellingMoves DEF Begin
  <2>4. CASE FindActive(c)
    BY <2>2, <2>4 DEF FindActive, Finish
  <2>5. CASE ReadRegistration(c)
    BY <2>2, <2>5 DEF ReadRegistration, Finish
  <2>6. CASE GuardOneActive(c)
    BY <2>2, <2>6 DEF GuardOneActive, Finish
  <2>7. CASE Crash(c)
    BY <2>2, <2>7 DEF Crash
  <2>8. CASE AddLog(c)
    BY <2>8, TellingAdds DEF AddLog, Serial, Safe, Located
  <2>9. ASSUME NEW r \in Registrations, InsertRegistration(c, r)
        PROVE  Telling'
    <3>1. Running(c) /\ call[c].pc = "insert" /\ reg[r].status = "none"
      BY <2>9 DEF InsertRegistration, Running
    <3>2. CASE IndexAdmits(call[c].employee, r)
      <4>1. /\ \A d \in Calls : d # c => call'[d] = call[d]
            /\ call'[c].pc = "trail" /\ call'[c].reg = r
            /\ call'[c].employee = call[c].employee /\ call'[c].op = call[c].op
        BY <2>1, <2>9, <3>2 DEF InsertRegistration, CallState
      <4>2. /\ \A s \in Registrations : s # r => reg'[s] = reg[s]
            /\ reg'[r].status = "active" /\ reg'[r].employee = call[c].employee
            /\ UNCHANGED trail
        BY <2>1, <2>9, <3>2 DEF InsertRegistration
      <4>3. call[c].op = "register"
        BY <3>1 DEF Serial, Safe, Located
      <4>4. QED
        BY <3>1, <4>1, <4>2, <4>3, TellingWritten DEF Entry, Told
    <3>3. CASE ~IndexAdmits(call[c].employee, r)
      BY <2>2, <2>9, <3>1, <3>3 DEF InsertRegistration, Finish
    <3>4. QED
      BY <3>2, <3>3
  <2>10. CASE WriteRegistration(c)
    <3> DEFINE r == call[c].reg
               op == call[c].op
               refused == op = "enable" /\ ~IndexAdmits(call[c].employee, r)
    <3>1. /\ Running(c) /\ call[c].pc = "write" /\ r \in Registrations
          /\ op \in {"revoke", "disable", "enable"}
          /\ reg[r].employee = call[c].employee
      BY <2>10 DEF WriteRegistration, Running, Serial, Safe, Located, Op
    <3>2. CASE refused
      BY <2>2, <2>10, <3>1, <3>2 DEF WriteRegistration, Finish
    <3>3. CASE ~refused
      <4>1. /\ \A d \in Calls : d # c => call'[d] = call[d]
            /\ call'[c].pc = "trail" /\ call'[c].reg = r
            /\ call'[c].employee = call[c].employee /\ call'[c].op = op
        BY <2>1, <2>10, <3>3 DEF WriteRegistration, Goto, CallState
      <4>2. /\ \A s \in Registrations : s # r => reg'[s] = reg[s]
            /\ reg'[r].status = Result(op) /\ reg'[r].employee = call[c].employee
            /\ UNCHANGED trail
        BY <2>1, <2>10, <3>1, <3>3 DEF WriteRegistration, RegRow
      <4>3. Result(op) # "none" /\ Entry(op) \in Told(Result(op))
        BY <3>1 DEF Result, Entry, Told
      <4> HIDE DEF r, op, refused
      <4>4. QED
        BY <3>1, <4>1, <4>2, <4>3, TellingWritten
    <3>4. QED
      BY <3>2, <3>3
  <2>11. QED
    BY <1>2, <2>3, <2>4, <2>5, <2>6, <2>7, <2>8, <2>9, <2>10 DEF Step
<1>3. QED
  BY <1>1, <1>2 DEF Next

\* Once every call has answered the trail accounts for the status of every registration,
\* and ends with what tells it where the calls about the employee came one at a time.
THEOREM TrailTellsAlways == Spec => []TrailTells
<1>1. Serial /\ Telling /\ [Next]_vars => Serial' /\ Telling'
  BY SerialStep, TellingStep
<1>2. Telling => TrailTells
  BY DEF Telling, Accounted, LastTells, TrailTells, TrailComplete, TrailInOrder, AllAnswered,
         InTrail, AtEnd, Awaited, Answers
<1>3. QED
  BY SerialInit, TellingInit, <1>1, <1>2, PTL DEF Spec

-----------------------------------------------------------------------------
(* Terminals *)

\* A terminal that was never made is nobody's.
KioskNoneUnowned == \A t \in Terminals : terminal[t].status = "none" => terminal[t].store = Null

\* A call knows its store, and the terminal it is about is of that store.
KioskLocated ==
    \A c \in Calls :
        /\ T!Running(c) => visit[c].store \in Stores
        /\ visit[c].target # Null =>
              visit[c].store \in Stores /\ terminal[visit[c].target].store = visit[c].store
        /\ visit[c].pc \in {"read", "write"} => visit[c].target # Null /\ visit[c].op \in T!Op \ {"create"}

OneEach ==
    \A t, u \in Terminals :
        T!Exists(t) /\ T!Exists(u) /\ terminal[t].store = terminal[u].store => t = u

\* A secret is of the terminal whose call made it, and none is both current and burned.
Made(x, t) == x \in Calls /\ visit[x].pc = "done" /\ visit[x].target = t
SecretsMade ==
    /\ \A t \in Terminals : terminal[t].secret # Null =>
          Made(terminal[t].secret, t) /\ terminal[t].secret \notin burned
    /\ \A c \in Calls : visit[c].qr # Null =>
          /\ visit[c].pc = "done" /\ visit[c].qr.terminal = visit[c].target
          /\ Made(visit[c].qr.secret, visit[c].target)
    /\ \A x \in burned : visit[x].pc = "done"

\* Where calls about a store come one at a time, what getQr found stale is so when
\* it writes; and of what was shown, the current code is the only one in time.
KioskOneAtATime ==
    \A c, d \in Calls :
        (/\ T!Running(c) /\ T!Running(d)
         /\ visit[c].store = visit[d].store /\ visit[c].store \in Ordered)
        => c = d
StillStale ==
    \A c \in Calls :
        visit[c].pc = "write" /\ visit[c].op = "getQr" /\ visit[c].store \in Ordered =>
            terminal[visit[c].target].status = "active" /\ T!Stale(terminal[visit[c].target])
InTime(qr) ==
    LET row == terminal[qr.terminal]
    IN  \/ row.status = "active" /\ row.secret = qr.secret /\ row.rotatedAt = qr.rotatedAt
        \/ now > qr.rotatedAt + Ttl
ShownInTime ==
    \A c \in Calls :
        visit[c].qr # Null /\ visit[c].store \in Ordered /\ visit[c].qr.secret \notin burned =>
            InTime(visit[c].qr)

KioskSafe ==
    /\ T!TypeOK /\ KioskNoneUnowned /\ KioskLocated /\ OneEach /\ SecretsMade
    /\ KioskOneAtATime /\ StillStale /\ ShownInTime

-----------------------------------------------------------------------------

LEMMA KioskSafeInit ==
    ASSUME T!TerminalsAssumption
    PROVE  T!Init => KioskSafe
<1> SUFFICES ASSUME T!Init PROVE KioskSafe
  OBVIOUS
<1>1. T!TypeOK
  BY DEF T!TerminalsAssumption, T!Init, T!TypeOK, T!Time, T!TerminalRow, T!TerminalStatus, T!NoTerminal,
         T!CallState, T!Pc, T!Fresh
<1>2. KioskNoneUnowned /\ KioskLocated /\ OneEach
  BY DEF T!Init, KioskNoneUnowned, KioskLocated, OneEach, T!Exists, T!NoTerminal, T!Fresh, T!Running
<1>3. SecretsMade /\ KioskOneAtATime /\ StillStale /\ ShownInTime
  BY DEF T!Init, SecretsMade, KioskOneAtATime, StillStale, ShownInTime, T!NoTerminal, T!Fresh, T!Running
<1>4. QED
  BY <1>1, <1>2, <1>3 DEF KioskSafe

\* A step that moves one call and writes nothing; if it answers a code, it is the
\* current one of an active terminal.
LEMMA KioskCallMoves ==
    ASSUME T!TerminalsAssumption, KioskSafe, UNCHANGED <<now, terminal, burned>>,
           NEW c \in Calls, NEW locals \in T!CallState, visit[c].pc # "done",
           visit' = [visit EXCEPT ![c] = locals],
           locals.store \in Stores,
           locals.target # Null => terminal[locals.target].store = locals.store,
           locals.pc \in {"read", "write"} => locals.target # Null /\ locals.op \in T!Op \ {"create"},
           locals.store \in Ordered /\ locals.pc # "done" =>
              \A d \in Calls \ {c} : T!Running(d) => visit[d].store # locals.store,
           locals.pc = "write" /\ locals.op = "getQr" /\ locals.store \in Ordered =>
              terminal[locals.target].status = "active" /\ T!Stale(terminal[locals.target]),
           \/ locals.qr = Null
           \/ /\ locals.pc = "done" /\ locals.target \in Terminals
              /\ locals.qr = T!Shown(locals.target, terminal[locals.target])
              /\ terminal[locals.target].status = "active"
              /\ terminal[locals.target].secret # Null
    PROVE  KioskSafe'
<1>1. /\ \A d \in Calls : d # c => visit'[d] = visit[d]
      /\ visit'[c] = locals
  BY DEF KioskSafe, T!TypeOK
<1>2. T!TypeOK'
  BY DEF KioskSafe, T!TypeOK
<1>3. KioskNoneUnowned' /\ OneEach'
  BY DEF KioskSafe, KioskNoneUnowned, OneEach, T!Exists
<1>4. KioskLocated'
  BY <1>1 DEF KioskSafe, KioskLocated, T!Running
<1>5. \A x, t : Made(x, t) => Made(x, t)'
  BY <1>1 DEF Made
<1>6. SecretsMade'
  <2>1. (\A t \in Terminals : terminal[t].secret # Null =>
            Made(terminal[t].secret, t) /\ terminal[t].secret \notin burned)'
    BY <1>5 DEF KioskSafe, SecretsMade
  <2>2. ASSUME NEW d \in Calls, d # c
        PROVE  (visit[d].qr # Null => /\ visit[d].pc = "done" /\ visit[d].qr.terminal = visit[d].target
                                     /\ Made(visit[d].qr.secret, visit[d].target))'
    BY <1>1, <1>5, <2>2 DEF KioskSafe, SecretsMade
  <2>3. (visit[c].qr # Null => /\ visit[c].pc = "done" /\ visit[c].qr.terminal = visit[c].target
                              /\ Made(visit[c].qr.secret, visit[c].target))'
    <3> SUFFICES ASSUME locals.qr # Null
                 PROVE  /\ locals.pc = "done" /\ locals.qr.terminal = locals.target
                        /\ Made(locals.qr.secret, locals.target)'
      BY <1>1
    <3>1. Made(terminal[locals.target].secret, locals.target)
      BY DEF KioskSafe, SecretsMade
    <3>2. QED
      BY <1>5, <3>1 DEF T!Shown
  <2>4. (\A x \in burned : visit[x].pc = "done")'
    BY <1>1 DEF KioskSafe, SecretsMade, T!TypeOK, T!Secret
  <2>5. QED
    BY <2>1, <2>2, <2>3, <2>4 DEF SecretsMade
<1>7. KioskOneAtATime'
  BY <1>1 DEF KioskSafe, KioskOneAtATime, T!Running
<1>8. StillStale'
  BY <1>1 DEF KioskSafe, StillStale, T!Stale
<1>9. ShownInTime'
  <2>1. locals.qr # Null => InTime(locals.qr)'
    BY DEF InTime, T!Shown
  <2>2. QED
    BY <1>1, <2>1 DEF KioskSafe, ShownInTime, InTime
<1>10. QED
  BY <1>2, <1>3, <1>4, <1>6, <1>7, <1>8, <1>9 DEF KioskSafe

LEMMA KioskBeginSafe ==
    ASSUME T!TerminalsAssumption, KioskSafe, NEW c \in Calls, NEW op \in T!Op, NEW s \in Stores,
           NEW t \in Terminals \cup {Null}, T!Begin(c, op, s, t)
    PROVE  KioskSafe'
<1> DEFINE locals == [pc |-> IF op = "create" THEN "find" ELSE "read",
                      op |-> op, store |-> s, target |-> t, qr |-> Null]
<1>1. locals \in T!CallState
  BY DEF T!CallState, T!Pc
<1>2. /\ visit' = [visit EXCEPT ![c] = locals] /\ UNCHANGED <<now, terminal, burned>>
      /\ visit[c].pc # "done"
  BY DEF T!Begin
<1>3. /\ locals.store \in Stores
      /\ locals.target # Null => terminal[locals.target].store = locals.store
      /\ locals.pc \in {"read", "write"} => locals.target # Null /\ locals.op \in T!Op \ {"create"}
      /\ locals.pc # "write" /\ locals.qr = Null
  BY DEF T!Begin, T!TerminalsAssumption
<1>4. locals.store \in Ordered => \A d \in Calls \ {c} : T!Running(d) => visit[d].store # locals.store
  BY DEF T!Begin
<1> HIDE DEF locals
<1>5. QED
  BY <1>1, <1>2, <1>3, <1>4, KioskCallMoves

\* A call that goes on where it may, or ends without an answer.
LEMMA KioskGotoSafe ==
    ASSUME T!TerminalsAssumption, KioskSafe, NEW c \in Calls, NEW at \in {"insert", "write", "done"},
           T!Running(c), T!Goto(c, at), UNCHANGED <<now, terminal, burned>>,
           at = "write" => visit[c].pc = "read",
           at = "write" /\ visit[c].op = "getQr" =>
              terminal[visit[c].target].status = "active" /\ T!Stale(terminal[visit[c].target])
    PROVE  KioskSafe'
<1> DEFINE locals == [visit[c] EXCEPT !.pc = at]
<1>1. visit[c] \in T!CallState /\ visit[c].pc # "done" /\ visit[c].qr = Null
  BY DEF KioskSafe, T!TypeOK, SecretsMade, T!Running
<1>2. /\ locals \in T!CallState /\ locals.pc = at /\ locals.op = visit[c].op
      /\ locals.store = visit[c].store /\ locals.target = visit[c].target /\ locals.qr = Null
  BY <1>1 DEF T!CallState, T!Pc
<1>3. visit' = [visit EXCEPT ![c] = locals]
  BY DEF T!Goto
<1>4. /\ locals.store \in Stores
      /\ locals.target # Null => terminal[locals.target].store = locals.store
      /\ at = "write" => locals.target # Null /\ locals.op \in T!Op \ {"create"}
  BY <1>2 DEF KioskSafe, KioskLocated
<1>5. locals.store \in Ordered => \A d \in Calls \ {c} : T!Running(d) => visit[d].store # locals.store
  BY <1>2 DEF KioskSafe, KioskOneAtATime
<1> HIDE DEF locals
<1>6. QED
  BY <1>1, <1>2, <1>3, <1>4, <1>5, KioskCallMoves

LEMMA KioskInsertSafe ==
    ASSUME T!TerminalsAssumption, KioskSafe, NEW c \in Calls, NEW t \in Terminals, T!InsertTerminal(c, t)
    PROVE  KioskSafe'
<1> DEFINE s == visit[c].store
           row == [T!NoTerminal EXCEPT !.status = "pending", !.store = s]
<1>1. T!Running(c) /\ s \in Stores /\ UNCHANGED <<now, burned>> /\ T!Goto(c, "done")
  BY DEF T!InsertTerminal, T!Running, KioskSafe, KioskLocated, T!Finish
<1>2. CASE ~T!IndexAdmits(s)
  BY <1>1, <1>2, KioskGotoSafe DEF T!InsertTerminal
<1>3. CASE T!IndexAdmits(s)
  <2>1. /\ row \in T!TerminalRow /\ row.status = "pending" /\ row.store = s /\ row.secret = Null
    <3>1. T!NoTerminal \in T!TerminalRow /\ T!NoTerminal.secret = Null
      BY DEF T!NoTerminal, T!TerminalRow, T!TerminalStatus, T!Time, T!TerminalsAssumption
    <3>2. QED
      BY <1>1, <3>1 DEF T!TerminalRow, T!TerminalStatus
  <2>2. terminal' = [terminal EXCEPT ![t] = row] /\ terminal[t].status = "none"
    BY <1>3 DEF T!InsertTerminal
  <2> HIDE DEF row
  <2>3. /\ \A u \in Terminals : u # t => terminal'[u] = terminal[u]
        /\ terminal'[t] = row
    BY <2>2 DEF KioskSafe, T!TypeOK
  <2>4. /\ \A d \in Calls : d # c => visit'[d] = visit[d]
        /\ visit[c].pc # "done" /\ visit'[c].pc = "done" /\ visit[c].qr = Null
        /\ visit'[c].qr = visit[c].qr /\ visit'[c].store = s /\ visit'[c].target = visit[c].target
        /\ visit' \in [Calls -> T!CallState]
    BY <1>1 DEF T!Goto, KioskSafe, T!TypeOK, SecretsMade, T!CallState, T!Pc, T!Running
  <2>5. \A d \in Calls : visit[d].target # Null => visit[d].target # t
    BY <2>2 DEF KioskSafe, KioskLocated, KioskNoneUnowned, T!TerminalsAssumption
  <2>6. T!TypeOK' /\ KioskNoneUnowned'
    BY <1>1, <2>1, <2>2, <2>3, <2>4 DEF KioskSafe, T!TypeOK, KioskNoneUnowned
  <2>7. KioskLocated'
    BY <1>1, <2>3, <2>4, <2>5 DEF KioskSafe, KioskLocated, T!Running, T!TypeOK, T!CallState
  <2>8. OneEach'
    BY <1>3, <2>1, <2>3 DEF KioskSafe, OneEach, T!Exists, T!IndexAdmits, T!AtStore
  <2>9. SecretsMade'
    BY <1>1, <2>1, <2>3, <2>4 DEF KioskSafe, SecretsMade, Made, T!TypeOK, T!Secret
  <2>10. KioskOneAtATime'
    BY <2>4 DEF KioskSafe, KioskOneAtATime, T!Running
  <2>11. StillStale'
    BY <1>1, <2>3, <2>4, <2>5 DEF KioskSafe, StillStale, T!Stale, KioskLocated, T!TypeOK, T!CallState
  <2>12. ShownInTime'
    <3>1. \A d \in Calls : visit[d].qr # Null => visit[d].qr.terminal # t
      BY <2>5 DEF KioskSafe, T!TypeOK, T!CallState, T!Payload, SecretsMade, T!TerminalsAssumption
    <3>2. \A d \in Calls : visit'[d].qr = visit[d].qr /\ visit'[d].store = visit[d].store
      BY <2>4
    <3>3. \A d \in Calls : visit[d].qr # Null => terminal'[visit[d].qr.terminal] = terminal[visit[d].qr.terminal]
      BY <2>3, <3>1 DEF KioskSafe, T!TypeOK, T!CallState, T!Payload
    <3>4. QED
      BY <1>1, <3>2, <3>3 DEF KioskSafe, ShownInTime, InTime
  <2>13. QED
    BY <2>6, <2>7, <2>8, <2>9, <2>10, <2>11, <2>12 DEF KioskSafe
<1>4. QED
  BY <1>2, <1>3

LEMMA ReadSafe ==
    ASSUME T!TerminalsAssumption, KioskSafe, NEW c \in Calls, T!ReadTerminal(c)
    PROVE  KioskSafe'
<1> DEFINE t == visit[c].target
           row == terminal[t]
           locals == [visit[c] EXCEPT !.pc = "done", !.qr = T!Shown(t, row)]
<1>1. /\ T!Running(c) /\ visit[c].pc = "read" /\ visit[c] \in T!CallState /\ t \in Terminals
      /\ visit[c].store \in Stores /\ row.store = visit[c].store
      /\ row \in T!TerminalRow
      /\ UNCHANGED <<now, terminal, burned>>
  BY DEF T!ReadTerminal, T!Running, KioskSafe, T!TypeOK, KioskLocated, T!CallState
<1>2. CASE T!Goto(c, "done")
  BY <1>1, <1>2, KioskGotoSafe
<1>3. CASE T!Goto(c, "write") /\ (visit[c].op = "getQr" => row.status = "active" /\ T!Stale(row))
  BY <1>1, <1>3, KioskGotoSafe
<1>4. CASE row.status = "active" /\ ~T!Stale(row) /\ visit' = [visit EXCEPT ![c] = locals]
  <2>1. T!Shown(t, row) \in T!Payload /\ row.secret # Null
    BY <1>1, <1>4 DEF T!Shown, T!Payload, T!TerminalRow, T!Stale
  <2>2. /\ locals \in T!CallState /\ locals.pc = "done" /\ locals.qr = T!Shown(t, row)
        /\ locals.store = visit[c].store /\ locals.target = t
    BY <1>1, <2>1 DEF T!CallState, T!Pc
  <2> HIDE DEF locals
  <2>3. QED
    BY <1>1, <1>4, <2>1, <2>2, KioskCallMoves
<1>5. QED
  BY <1>2, <1>3, <1>4 DEF T!ReadTerminal, T!Finish

LEMMA TickSafe ==
    ASSUME T!TerminalsAssumption, KioskSafe, T!Tick
    PROVE  KioskSafe'
<1>1. /\ now \in Nat /\ now' = now + 1 /\ UNCHANGED <<terminal, visit, burned>>
      /\ now' \in T!Time /\ Ttl \in Nat
  BY DEF T!Tick, KioskSafe, T!TypeOK, T!Time, T!TerminalsAssumption
<1>2. \A t \in Terminals : terminal[t].rotatedAt \in Nat
  BY DEF KioskSafe, T!TypeOK, T!TerminalRow, T!Time, T!TerminalsAssumption
<1>3. T!TypeOK' /\ KioskNoneUnowned' /\ KioskLocated' /\ OneEach' /\ SecretsMade' /\ KioskOneAtATime'
  BY <1>1 DEF KioskSafe, T!TypeOK, KioskNoneUnowned, KioskLocated, OneEach, T!Exists, SecretsMade,
              Made, KioskOneAtATime,
              T!Running
<1>4. StillStale'
  <2>1. \A c \in Calls : visit[c].pc = "write" => visit[c].target \in Terminals
    BY DEF KioskSafe, KioskLocated, T!TypeOK, T!CallState
  <2>2. QED
    BY <1>1, <1>2, <2>1 DEF KioskSafe, StillStale, T!Stale
<1>5. ShownInTime'
  <2>1. \A c \in Calls : visit[c].qr # Null => visit[c].qr.rotatedAt \in Nat
    BY DEF KioskSafe, T!TypeOK, T!CallState, T!Payload, T!Time, T!TerminalsAssumption
  <2>2. QED
    BY <1>1, <2>1 DEF KioskSafe, ShownInTime, InTime
<1>6. QED
  BY <1>3, <1>4, <1>5 DEF KioskSafe

\* What an operation makes of its row.
LEMMA WrittenRow ==
    ASSUME T!TerminalsAssumption, T!TypeOK, NEW c \in Calls, NEW row \in T!TerminalRow,
           visit[c].op \in T!Op \ {"create"}
    PROVE  /\ T!Written(c, row) \in T!TerminalRow /\ T!Written(c, row).store = row.store
           /\ T!Written(c, row).secret \in {c, Null}
           /\ row.status \notin {"none", "gone"} => T!Written(c, row).status # "none"
           /\ visit[c].op = "getQr" =>
                 /\ T!Written(c, row).status = row.status
                 /\ T!Written(c, row).secret = c /\ T!Written(c, row).rotatedAt = now
<1>1. now \in T!Time
  BY DEF T!TypeOK
<1>2. CASE visit[c].op \in {"authorize", "reactivate"}
  BY <1>1, <1>2 DEF T!Written, T!TerminalRow, T!TerminalStatus, T!Secret
<1>3. CASE visit[c].op = "block"
  BY <1>1, <1>3 DEF T!Written, T!TerminalRow, T!TerminalStatus, T!Secret
<1>4. CASE visit[c].op = "deactivate"
  BY <1>1, <1>4 DEF T!Written, T!TerminalRow, T!TerminalStatus, T!Secret
<1>5. CASE visit[c].op = "delete"
  BY <1>1, <1>5 DEF T!Written, T!TerminalRow, T!TerminalStatus, T!Secret
<1>6. CASE visit[c].op = "getQr"
  BY <1>1, <1>6 DEF T!Written, T!TerminalRow, T!TerminalStatus, T!Secret
<1>7. QED
  BY <1>2, <1>3, <1>4, <1>5, <1>6 DEF T!Op

LEMMA KioskWriteSafe ==
    ASSUME T!TerminalsAssumption, KioskSafe, NEW c \in Calls, T!WriteTerminal(c),
           NEW t \in Terminals, visit[c].target = t
    PROVE  KioskSafe'
<1> DEFINE row == T!Written(c, terminal[t])
           getQr == visit[c].op = "getQr"
<1>1. /\ T!Running(c) /\ visit[c].pc = "write" /\ visit[c] \in T!CallState
      /\ visit[c].store \in Stores /\ terminal[t].store = visit[c].store
      /\ visit[c].op \in T!Op \ {"create"} /\ visit[c].qr = Null
      /\ terminal[t] \in T!TerminalRow /\ now' = now
  BY DEF T!WriteTerminal, T!Running, KioskSafe, T!TypeOK, KioskLocated, SecretsMade
<1>2. CASE ~T!Exists(t)
  BY <1>1, <1>2, KioskGotoSafe DEF T!WriteTerminal, T!Finish
<1>3. CASE T!Exists(t)
  <2>1. /\ row \in T!TerminalRow /\ row.store = visit[c].store
        /\ row.secret \in {c, Null} /\ row.status # "none"
        /\ getQr => row.status = terminal[t].status /\ row.secret = c /\ row.rotatedAt = now
    BY <1>1, <1>3, WrittenRow DEF T!Exists, KioskSafe
  <2> HIDE DEF row
  <2>2. terminal' = [terminal EXCEPT ![t] = row]
    BY <1>3 DEF T!WriteTerminal, row
  <2>3. /\ \A u \in Terminals : u # t => terminal'[u] = terminal[u]
        /\ terminal'[t] = row
    BY <2>2 DEF KioskSafe, T!TypeOK
  <2>4. getQr => T!Shown(t, row) \in T!Payload
    BY <2>1 DEF T!Shown, T!Payload, T!TerminalRow
  <2>5. visit' = [visit EXCEPT ![c].pc = "done", ![c].qr = IF getQr THEN T!Shown(t, row) ELSE Null]
    BY <1>3 DEF T!WriteTerminal, row
  <2>6. /\ \A d \in Calls : d # c => visit'[d] = visit[d]
        /\ visit'[c].pc = "done" /\ visit'[c].qr = IF getQr THEN T!Shown(t, row) ELSE Null
        /\ visit'[c].store = visit[c].store /\ visit'[c].target = t
        /\ visit' \in [Calls -> T!CallState]
    BY <1>1, <2>4, <2>5 DEF KioskSafe, T!TypeOK, T!CallState, T!Pc
  <2>7. burned' = IF getQr THEN burned ELSE burned \cup T!ShownSecrets(t)
    BY <1>3 DEF T!WriteTerminal
  <2>8. \A x \in T!ShownSecrets(t) : Made(x, t)
    BY DEF T!ShownSecrets, KioskSafe, SecretsMade
  <2>9. /\ burned' \subseteq T!Secret /\ \A x \in burned' : visit[x].pc = "done"
        /\ c \notin burned'
    BY <1>1, <2>7, <2>8 DEF KioskSafe, T!TypeOK, SecretsMade, Made, T!Secret
  <2>10. T!TypeOK' /\ KioskNoneUnowned'
    BY <1>1, <2>1, <2>2, <2>3, <2>6, <2>9 DEF KioskSafe, T!TypeOK, KioskNoneUnowned
  <2>11. KioskLocated'
    BY <1>1, <2>1, <2>3, <2>6 DEF KioskSafe, T!TypeOK, T!CallState, KioskLocated, T!Running
  <2>12. OneEach'
    BY <1>1, <1>3, <2>1, <2>3 DEF KioskSafe, OneEach, T!Exists
  <2>13. \A x, u : Made(x, u) => Made(x, u)'
    BY <1>1, <2>6 DEF Made
  <2>14. Made(c, t)'
    BY <2>6 DEF Made
  <2>15. SecretsMade'
    <3>1. ASSUME NEW u \in Terminals, u # t
          PROVE  (terminal[u].secret # Null =>
                     Made(terminal[u].secret, u) /\ terminal[u].secret \notin burned)'
      BY <2>3, <2>7, <2>8, <2>13, <3>1 DEF KioskSafe, SecretsMade, Made
    <3>2. (terminal[t].secret # Null =>
              Made(terminal[t].secret, t) /\ terminal[t].secret \notin burned)'
      BY <2>1, <2>3, <2>9, <2>14
    <3>3. ASSUME NEW d \in Calls, d # c
          PROVE  (visit[d].qr # Null => /\ visit[d].pc = "done" /\ visit[d].qr.terminal = visit[d].target
                                       /\ Made(visit[d].qr.secret, visit[d].target))'
      BY <2>6, <2>13, <3>3 DEF KioskSafe, SecretsMade
    <3>4. (visit[c].qr # Null => /\ visit[c].pc = "done" /\ visit[c].qr.terminal = visit[c].target
                                /\ Made(visit[c].qr.secret, visit[c].target))'
      BY <2>1, <2>6, <2>14 DEF T!Shown
    <3>5. (\A x \in burned : visit[x].pc = "done")'
      BY <2>6, <2>9 DEF T!Secret
    <3>6. QED
      BY <3>1, <3>2, <3>3, <3>4, <3>5 DEF SecretsMade
  <2>16. KioskOneAtATime'
    BY <2>6 DEF KioskSafe, KioskOneAtATime, T!Running
  <2>17. \A d \in Calls : T!Running(d) /\ d # c /\ visit[d].target = t => visit[d].store \notin Ordered
    BY <1>1, T!TerminalsAssumption DEF KioskSafe, KioskOneAtATime, KioskLocated, T!TerminalsAssumption
  <2>18. StillStale'
    BY <1>1, <2>3, <2>6, <2>17
    DEF KioskSafe, T!TypeOK, T!CallState, StillStale, T!Stale, KioskLocated, T!Running,
        T!TerminalsAssumption
  <2>19. ShownInTime'
    <3>1. ASSUME getQr, visit[c].store \in Ordered
          PROVE  terminal[t].status = "active" /\ T!Stale(terminal[t])
      BY <1>1, <3>1 DEF KioskSafe, StillStale
    <3>2. ASSUME visit'[c].qr # Null, visit[c].store \in Ordered
          PROVE  InTime(visit[c].qr)'
      BY <1>1, <2>1, <2>3, <2>6, <3>1, <3>2 DEF InTime, T!Shown
    <3>3. ASSUME NEW d \in Calls, d # c, visit[d].qr # Null, visit[d].store \in Ordered,
                 visit[d].qr.secret \notin burned'
          PROVE  InTime(visit[d].qr)'
      <4>1. /\ visit[d].qr \in T!Payload /\ visit[d].qr.terminal = visit[d].target
            /\ visit[d].target \in Terminals /\ visit[d].qr.secret \in Calls
            /\ visit[d].store = terminal[visit[d].target].store
        BY <3>3 DEF KioskSafe, T!TypeOK, T!CallState, T!Payload, SecretsMade, Made, KioskLocated,
                    T!TerminalsAssumption
      <4>2. InTime(visit[d].qr)
        BY <2>7, <3>3 DEF KioskSafe, ShownInTime
      <4>3. CASE visit[d].target # t
        BY <1>1, <2>3, <2>6, <3>3, <4>1, <4>2, <4>3 DEF InTime
      <4>4. CASE visit[d].target = t /\ ~getQr
        BY <2>7, <3>3, <4>1, <4>4 DEF T!ShownSecrets
      <4>5. CASE visit[d].target = t /\ getQr
        <5>1. T!Stale(terminal[t])
          BY <1>1, <3>1, <3>3, <4>1, <4>5
        <5>2. /\ now \in Nat /\ Ttl \in Nat /\ terminal[t].rotatedAt \in Nat
              /\ visit[d].qr.secret # Null
          BY <1>1, <4>1 DEF KioskSafe, T!TypeOK, T!TerminalRow, T!Time, T!TerminalsAssumption
        <5>3. now > visit[d].qr.rotatedAt + Ttl
          BY <4>1, <4>2, <4>5, <5>1, <5>2 DEF InTime, T!Stale
        <5>4. QED
          BY <1>1, <2>6, <3>3, <5>3 DEF InTime
      <4>6. QED
        BY <4>3, <4>4, <4>5
    <3>4. QED
      BY <2>6, <3>2, <3>3 DEF ShownInTime
  <2>20. QED
    BY <2>10, <2>11, <2>12, <2>15, <2>16, <2>18, <2>19 DEF KioskSafe
<1>4. QED
  BY <1>2, <1>3

LEMMA KioskStepSafe ==
    ASSUME T!TerminalsAssumption
    PROVE  KioskSafe /\ [T!Next]_T!vars => KioskSafe'
<1> SUFFICES ASSUME KioskSafe, [T!Next]_T!vars PROVE KioskSafe'
  OBVIOUS
<1>1. CASE UNCHANGED T!vars
  BY <1>1 DEF T!vars, KioskSafe, T!TypeOK, KioskNoneUnowned, KioskLocated, OneEach, T!Exists,
              SecretsMade, Made,
              KioskOneAtATime, StillStale, T!Stale, ShownInTime, InTime, T!Running
<1>2. ASSUME NEW c \in Calls, NEW op \in T!Op, NEW s \in Stores, NEW t \in Terminals \cup {Null},
             T!Begin(c, op, s, t)
      PROVE  KioskSafe'
  BY <1>2, KioskBeginSafe
<1>3. ASSUME NEW c \in Calls, T!FindByStore(c)
      PROVE  KioskSafe'
  BY <1>3, KioskGotoSafe DEF T!FindByStore, T!Finish, T!Running
<1>4. ASSUME NEW c \in Calls, NEW t \in Terminals, T!InsertTerminal(c, t)
      PROVE  KioskSafe'
  BY <1>4, KioskInsertSafe
<1>5. ASSUME NEW c \in Calls, T!ReadTerminal(c)
      PROVE  KioskSafe'
  BY <1>5, ReadSafe
<1>6. ASSUME NEW c \in Calls, T!WriteTerminal(c)
      PROVE  KioskSafe'
  <2>1. visit[c].target \in Terminals
    BY <1>6 DEF T!WriteTerminal, KioskSafe, T!TypeOK, T!CallState, KioskLocated
  <2>2. QED
    BY <1>6, <2>1, KioskWriteSafe
<1>7. CASE T!Tick
  BY <1>7, TickSafe
<1>8. QED
  BY <1>1, <1>2, <1>3, <1>4, <1>5, <1>6, <1>7 DEF T!Next

\* What the invariant says of stores and codes.
LEMMA SafeMeans ==
    ASSUME T!TerminalsAssumption, KioskSafe
    PROVE  T!TerminalsHold
<1>1. T!OnePerStore
  <2> SUFFICES ASSUME NEW s \in Stores PROVE Cardinality(T!AtStore(s)) <= 1
    BY DEF T!OnePerStore, T!Cardinality, Cardinality
  <2>1. \A t, u \in T!AtStore(s) : t = u
    BY DEF KioskSafe, OneEach, T!AtStore
  <2>2. CASE T!AtStore(s) = {}
    BY <2>2, FS_EmptySet
  <2>3. ASSUME NEW t \in T!AtStore(s)
        PROVE  Cardinality(T!AtStore(s)) <= 1
    <3>1. T!AtStore(s) = {t}
      BY <2>1
    <3>2. Cardinality({t}) = 1
      BY FS_Singleton
    <3>3. QED
      BY <3>1, <3>2
  <2>4. QED
    BY <2>2, <2>3
<1>2. T!OldCodesDie
  BY DEF KioskSafe, SecretsMade, T!OldCodesDie, T!Accepts
<1>3. T!QrValidInTurn
  <2> SUFFICES ASSUME NEW c \in Calls, visit[c].qr # Null, visit[c].store \in Ordered,
                      visit[c].qr.secret \notin burned, now <= visit[c].qr.rotatedAt + Ttl
               PROVE  T!Accepts(visit[c].qr.terminal, visit[c].qr.secret)
    BY DEF T!QrValidInTurn
  <2>1. /\ now \in Nat /\ Ttl \in Nat /\ visit[c].qr.rotatedAt \in Nat
        /\ visit[c].qr.secret # Null
    BY DEF KioskSafe, T!TypeOK, T!CallState, T!Payload, SecretsMade, Made, T!Time, T!TerminalsAssumption
  <2>2. InTime(visit[c].qr)
    BY DEF KioskSafe, ShownInTime
  <2>3. QED
    BY <2>1, <2>2 DEF InTime, T!Accepts
<1>4. QED
  BY <1>1, <1>2, <1>3 DEF KioskSafe, T!TerminalsHold

-----------------------------------------------------------------------------

\* Whatever calls overlap, die or wait while the clock goes on: one terminal per store;
\* a code an administrator ended is accepted by no terminal again; and where the calls
\* about a store come one at a time, what getQr showed is accepted until it expires
\* (DevicesService.createTerminal, getQr, validateQrToken).
THEOREM TerminalsCorrect == DevicesSpec => []TerminalsHold
<1>1. DevicesInit => KioskSafe
  BY KioskSafeInit, DevicesAssumption DEF DevicesInit
<1>2. KioskSafe /\ [T!Next]_(T!vars) => KioskSafe'
  BY KioskStepSafe, DevicesAssumption
<1>3. KioskSafe /\ [DevicesNext]_<<scene, vars, terminals>> => KioskSafe'
  <2> SUFFICES ASSUME KioskSafe, [DevicesNext]_<<scene, vars, terminals>> PROVE KioskSafe'
    OBVIOUS
  <2>1. [T!Next]_(T!vars)
    BY DEF DevicesNext, terminals, T!vars
  <2>2. QED
    BY <1>2, <2>1
<1>4. KioskSafe => TerminalsHold
  BY SafeMeans, DevicesAssumption DEF TerminalsHold
<1>5. QED
  BY <1>1, <1>3, <1>4, PTL DEF DevicesSpec
=============================================================================
