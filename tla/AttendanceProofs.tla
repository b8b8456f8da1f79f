-------------------------- MODULE AttendanceProofs --------------------------
(***************************************************************************)
(* Proofs about TimeClock: Attendance, whatever overlaps and in turn, and  *)
(* Corrections, each in its scene, for any values of their constants.      *)
(***************************************************************************)
EXTENDS TimeClock, TLAPS

-----------------------------------------------------------------------------
(* Punches, whatever overlaps *)

\* What a call with the locals p relies on.
PunchKnows(p) ==
    /\ p.pc \in {"raise", "flag", "stamp", "breaks", "endbreak", "newbreak", "close"} =>
         p.log \in Logs /\ log[p.log].status # "none"
    /\ p.pc \in {"raise", "flag"} => p.todo # <<>>
    /\ p.pc = "flag" /\ Exists(p.log) => \E t \in AnomalyType : <<p.log, t>> \in anomaly
    /\ p.pc = "start" /\ p.op = "delete" => p.target \in Logs
    /\ p.pc = "delete" => p.target \in Logs /\ log[p.target].status # "none"
    /\ p.pc = "breaks" => p.op \in {"clock_out", "break_start", "break_end"}
    /\ p.pc = "endbreak" => p.brk \in Breaks
    /\ p.pc = "close" => p.op = "clock_out"
    /\ p.pc \in {"breaks", "endbreak", "close"} /\ p.op = "clock_out" /\ Exists(p.log) =>
         log[p.log].clockIn < p.at

PunchSafe ==
    TypeOK /\ (\A c \in Calls : PunchKnows(call[c])) /\ FlagsExplained /\ ClosedAfterOpened

\* What no step undoes: a log in use stays used, where it is still there its
\* clock-in has not moved, and its anomalies are still on record.
LogsLast ==
    \A l \in Logs :
        /\ log[l].status # "none" => log'[l].status # "none"
        /\ log[l].status # "none" /\ Exists(l)' => Exists(l) /\ log'[l].clockIn = log[l].clockIn
        /\ Exists(l)' => \A t \in AnomalyType : <<l, t>> \in anomaly => <<l, t>> \in anomaly'

LEMMA SomeEmployee == NoEmployee \in Employees
  BY AttendanceAssumption DEF NoEmployee

LEMMA NoRows == NoLog \in LogRow /\ NoBreak \in BreakRow
<1>1. 0 \in Time
  BY AttendanceAssumption DEF Time
<1>2. QED
  BY <1>1, SomeEmployee DEF NoLog, LogRow, LogStatus, NoBreak, BreakRow

LEMMA FreshTyped == Fresh \in CallState /\ PunchKnows(Fresh)
<1>1. 0 \in Time /\ <<>> \in Seq(AnomalyType)
  BY AttendanceAssumption DEF Time
<1>2. QED
  BY <1>1, SomeEmployee DEF Fresh, CallState, Pc, PunchKnows

LEMMA EndedTyped ==
    ASSUME NEW p \in CallState, NEW failed \in BOOLEAN
    PROVE  /\ Ended(p, failed) \in CallState
           /\ Ended(p, failed).pc \in {"next", "done"}
           /\ PunchKnows(Ended(p, failed)) /\ PunchKnows(Ended(p, failed))'
<1>1. PICK e \in BOOLEAN : e = (p.errors \/ failed)
  BY DEF CallState
<1>2. Ended(p, failed) = IF p.sync
                         THEN [Fresh EXCEPT !.pc = "next", !.sync = TRUE, !.employee = p.employee,
                                            !.batch = p.batch, !.clean = p.clean, !.errors = e]
                         ELSE [Fresh EXCEPT !.pc = "done"]
  BY <1>1, Zenon DEF Ended
<1>3. /\ Ended(p, failed) \in CallState
      /\ Ended(p, failed).pc \in {"next", "done"}
  <2>1. CASE p.sync
    <3>1. PICK q : q = [Fresh EXCEPT !.pc = "next", !.sync = TRUE, !.employee = p.employee,
                                     !.batch = p.batch, !.clean = p.clean, !.errors = e]
      OBVIOUS
    <3>2. q = [pc |-> "next", op |-> "none", sync |-> TRUE, employee |-> p.employee,
               target |-> Null, log |-> Null, brk |-> Null, at |-> 0, todo |-> <<>>,
               batch |-> p.batch, clean |-> p.clean, errors |-> e]
      BY <3>1 DEF Fresh
    <3>3. 0 \in Time /\ <<>> \in Seq(AnomalyType)
      BY AttendanceAssumption DEF Time
    <3>4. q \in CallState /\ q.pc = "next"
      BY <3>2, <3>3 DEF CallState, Pc
    <3>5. QED
      BY <3>1, <3>4, <2>1, <1>2
  <2>2. CASE ~p.sync
    <3>1. PICK q : q = [Fresh EXCEPT !.pc = "done"]
      OBVIOUS
    <3>2. q \in CallState /\ q.pc = "done"
      BY <3>1, FreshTyped DEF CallState, Pc
    <3>3. QED
      BY <3>1, <3>2, <2>2, <1>2
  <2>3. QED
    BY <2>1, <2>2
<1>4. QED
  BY <1>3 DEF PunchKnows

\* The anomalies an operation still has to raise, or what comes after them.
LEMMA RaisingTyped ==
    ASSUME NEW p \in CallState, NEW todo \in Seq(AnomalyType), p.log \in Logs,
           log'[p.log].status # "none"
    PROVE  Raising(p, todo) \in CallState /\ PunchKnows(Raising(p, todo))'
<1>1. CASE todo # <<>>
  <2>1. PICK q : q = [p EXCEPT !.pc = "raise", !.todo = todo]
    OBVIOUS
  <2>2. q \in CallState /\ q.pc = "raise" /\ q.todo = todo /\ q.log = p.log
    BY <2>1 DEF CallState, Pc
  <2>3. PunchKnows(q)'
    BY <2>2, <1>1 DEF PunchKnows
  <2>4. QED
    BY <2>1, <2>2, <2>3, <1>1 DEF Raising
<1>2. CASE todo = <<>> /\ p.sync /\ p.op = "clock_in"
  <2>1. PICK q : q = [p EXCEPT !.pc = "source"]
    OBVIOUS
  <2>2. q \in CallState /\ q.pc = "source"
    BY <2>1 DEF CallState, Pc
  <2>3. PunchKnows(q)'
    BY <2>2 DEF PunchKnows
  <2>4. QED
    BY <2>1, <2>2, <2>3, <1>2 DEF Raising, AfterAnomalies
<1>3. CASE todo = <<>> /\ ~(p.sync /\ p.op = "clock_in")
  BY <1>3, EndedTyped DEF Raising, AfterAnomalies
<1>4. QED
  BY <1>1, <1>2, <1>3

\* What another call relies on outlives a step.
LEMMA PunchKept ==
    ASSUME NEW p \in CallState, PunchKnows(p), LogsLast
    PROVE  PunchKnows(p)'
  BY DEF PunchKnows, LogsLast

LEMMA PunchGlue ==
    ASSUME PunchSafe, NEW c \in Calls, NEW q \in CallState, call' = [call EXCEPT ![c] = q],
           PunchKnows(q)', LogsLast, now' \in Time, log' \in [Logs -> LogRow],
           break' \in [Breaks -> BreakRow], anomaly' \subseteq (Logs \cup {Null}) \X AnomalyType,
           FlagsExplained', ClosedAfterOpened'
    PROVE  PunchSafe'
<1>1. TypeOK'
  BY DEF PunchSafe, TypeOK
<1>2. ASSUME NEW d \in Calls PROVE PunchKnows(call[d])'
  <2>1. CASE d = c
    BY <2>1 DEF PunchSafe, TypeOK
  <2>2. CASE d # c
    <3>1. PICK p : p = call[d]
      OBVIOUS
    <3>2. call'[d] = p /\ p \in CallState /\ PunchKnows(p)
      BY <2>2, <3>1 DEF PunchSafe, TypeOK
    <3>3. PunchKnows(p)'
      BY <3>2, PunchKept
    <3>4. QED
      BY <3>2, <3>3
  <2>3. QED
    BY <2>1, <2>2
<1>3. QED
  BY <1>1, <1>2 DEF PunchSafe

\* A step that only moves the call on.
LEMMA PunchLocal ==
    ASSUME PunchSafe, NEW c \in Calls, NEW q \in CallState, call' = [call EXCEPT ![c] = q],
           PunchKnows(q), UNCHANGED <<now, log, anomaly>>, break' \in [Breaks -> BreakRow]
    PROVE  PunchSafe'
<1>1. LogsLast /\ FlagsExplained' /\ ClosedAfterOpened'
  BY DEF PunchSafe, LogsLast, Exists, FlagsExplained, ClosedAfterOpened
<1>2. PunchKnows(q)'
  BY <1>1, PunchKept
<1>3. now' \in Time /\ log' \in [Logs -> LogRow] /\ anomaly' \subseteq (Logs \cup {Null}) \X AnomalyType
  BY DEF PunchSafe, TypeOK
<1>4. QED
  BY <1>1, <1>2, <1>3, PunchGlue

LEMMA BeginPunches ==
    ASSUME PunchSafe, NEW c \in Calls, NEW e \in Employees,
           \/ \E op \in PunchKind \cup {"delete"}, target \in Logs \cup {Null}, at \in Time :
                 Punch(c, e, op, target, at)
           \/ \E batch \in Batches : Sync(c, e, batch)
    PROVE  PunchSafe'
<1>1. ASSUME NEW op \in PunchKind \cup {"delete"}, NEW target \in Logs \cup {Null}, NEW at \in Time,
             Punch(c, e, op, target, at)
      PROVE  PunchSafe'
  <2>1. PICK q : q = [Fresh EXCEPT !.pc = "start", !.op = op, !.employee = e, !.target = target, !.at = at]
    OBVIOUS
  <2>2. q \in CallState /\ PunchKnows(q)
    <3>1. /\ q \in CallState /\ q.pc = "start" /\ q.op = op /\ q.target = target
      BY <2>1, FreshTyped DEF CallState, Pc
    <3>2. op = "delete" => target \in Logs
      BY <1>1 DEF Punch
    <3>3. QED
      BY <3>1, <3>2 DEF PunchKnows
  <2>3. call' = [call EXCEPT ![c] = q] /\ UNCHANGED <<now, log, break, anomaly>>
    BY <1>1, <2>1 DEF Punch
  <2>4. QED
    BY <2>2, <2>3, PunchLocal DEF PunchSafe, TypeOK
<1>2. ASSUME NEW batch \in Batches, Sync(c, e, batch)
      PROVE  PunchSafe'
  <2>1. PICK b \in BOOLEAN : b = (OpenLogs(e) = {} /\ Orderly(batch))
    OBVIOUS
  <2>2. PICK q : q = [Fresh EXCEPT !.pc = "next", !.sync = TRUE, !.employee = e,
                                   !.batch = batch, !.clean = b]
    OBVIOUS
  <2>3. q \in CallState /\ PunchKnows(q)
    <3>1. batch \in SUBSET Event
      BY AttendanceAssumption
    <3>2. q \in CallState /\ q.pc = "next"
      BY <2>2, <3>1, FreshTyped DEF CallState, Pc
    <3>3. QED
      BY <3>2 DEF PunchKnows
  <2>4. call' = [call EXCEPT ![c] = q] /\ UNCHANGED <<now, log, break, anomaly>>
    BY <1>2, <2>1, <2>2, Zenon DEF Sync
  <2>5. QED
    BY <2>3, <2>4, PunchLocal DEF PunchSafe, TypeOK
<1>3. QED
  BY <1>1, <1>2

\* The steps that write nothing: to the next state of the handler, or to the answer.
LEMMA GotoPunches ==
    ASSUME PunchSafe, NEW c \in Calls, NEW at \in Pc, Goto(c, at),
           UNCHANGED <<now, log, anomaly>>, break' \in [Breaks -> BreakRow],
           PunchKnows([call[c] EXCEPT !.pc = at])
    PROVE  PunchSafe'
<1>1. PICK q : q = [call[c] EXCEPT !.pc = at]
  OBVIOUS
<1>2. q \in CallState /\ call' = [call EXCEPT ![c] = q]
  <2>1. call[c] \in CallState /\ call \in [Calls -> CallState]
    BY DEF PunchSafe, TypeOK
  <2>2. q \in CallState
    BY <1>1, <2>1 DEF CallState
  <2>3. call' = [call EXCEPT ![c] = q]
    BY <1>1, <2>1 DEF Goto
  <2>4. QED
    BY <2>2, <2>3
<1>3. QED
  BY <1>1, <1>2, PunchLocal

LEMMA EndPunches ==
    ASSUME PunchSafe, NEW c \in Calls, Refuse(c) \/ Answer(c),
           UNCHANGED <<now, log, anomaly>>, break' \in [Breaks -> BreakRow]
    PROVE  PunchSafe'
<1>1. PICK failed \in BOOLEAN : call' = [call EXCEPT ![c] = Ended(call[c], failed)]
  BY DEF Refuse, Answer
<1>2. Ended(call[c], failed) \in CallState /\ PunchKnows(Ended(call[c], failed))
  BY EndedTyped DEF PunchSafe, TypeOK
<1>3. QED
  BY <1>1, <1>2, PunchLocal

LEMMA NextEventPunches ==
    ASSUME PunchSafe, NEW c \in Calls, NextEvent(c)
    PROVE  PunchSafe'
<1>1. UNCHANGED <<now, log, break, anomaly>> /\ break \in [Breaks -> BreakRow] /\ call[c] \in CallState
  BY DEF NextEvent, PunchSafe, TypeOK
<1>2. CASE call' = [call EXCEPT ![c] = [Fresh EXCEPT !.pc = "done", !.sync = TRUE,
                                                     !.clean = call[c].clean,
                                                     !.errors = call[c].errors]]
  <2>1. PICK q : q = [Fresh EXCEPT !.pc = "done", !.sync = TRUE, !.clean = call[c].clean,
                                   !.errors = call[c].errors]
    OBVIOUS
  <2>2. q \in CallState /\ q.pc = "done"
    BY <1>1, <2>1, FreshTyped DEF CallState, Pc
  <2>3. PunchKnows(q)
    BY <2>2 DEF PunchKnows
  <2>4. call' = [call EXCEPT ![c] = q]
    BY <2>1, <1>2
  <2>5. QED
    BY <1>1, <2>2, <2>3, <2>4, PunchLocal
<1>3. ASSUME NEW ev \in Earliest(call[c].batch),
             call' = [call EXCEPT ![c].pc = "start", ![c].op = ev.kind, ![c].at = ev.at,
                                  ![c].batch = @ \ {ev}]
      PROVE  PunchSafe'
  <2>1. PICK q : q = [call[c] EXCEPT !.pc = "start", !.op = ev.kind, !.at = ev.at, !.batch = @ \ {ev}]
    OBVIOUS
  <2>2. ev \in Event
    BY <1>1 DEF Earliest, CallState
  <2>3. q \in CallState /\ q.pc = "start" /\ q.op # "delete"
    BY <1>1, <2>1, <2>2 DEF CallState, Pc, Event, PunchKind
  <2>4. PunchKnows(q)
    BY <2>3 DEF PunchKnows
  <2>5. call' = [call EXCEPT ![c] = q]
    BY <1>3, <2>1 DEF PunchSafe, TypeOK
  <2>6. QED
    BY <1>1, <2>3, <2>4, <2>5, PunchLocal
<1>4. QED
  BY <1>2, <1>3 DEF NextEvent

LEMMA LookPunches ==
    ASSUME PunchSafe, NEW c \in Calls, ClockInFind(c) \/ DeleteFind(c)
    PROVE  PunchSafe'
<1>1. UNCHANGED <<now, log, break, anomaly>> /\ break \in [Breaks -> BreakRow] /\ call[c] \in CallState
  BY DEF ClockInFind, DeleteFind, PunchSafe, TypeOK
<1>2. CASE Refuse(c)
  BY <1>1, <1>2, EndPunches
<1>3. CASE Goto(c, "insert")
  <2>1. PunchKnows([call[c] EXCEPT !.pc = "insert"])
    BY <1>1 DEF PunchKnows, CallState
  <2>2. QED
    BY <1>1, <1>3, <2>1, GotoPunches DEF Pc
<1>4. CASE DeleteFind(c) /\ Goto(c, "delete") /\ Exists(call[c].target)
  <2>1. PICK q : q = [call[c] EXCEPT !.pc = "delete"]
    OBVIOUS
  <2>2. q.pc = "delete" /\ q.target = call[c].target
    BY <1>1, <2>1 DEF CallState
  <2>3. q.target \in Logs
    BY <1>4, <2>2 DEF DeleteFind, PunchSafe, PunchKnows
  <2>4. PunchKnows(q)
    BY <1>4, <2>2, <2>3 DEF PunchKnows, Exists
  <2>5. QED
    BY <1>1, <1>4, <2>1, <2>4, GotoPunches DEF Pc
<1>5. QED
  BY <1>2, <1>3, <1>4 DEF ClockInFind, DeleteFind

LEMMA InsertPunches ==
    ASSUME PunchSafe, NEW c \in Calls, NEW l \in Logs, ClockInInsert(c, l)
    PROVE  PunchSafe'
<1>1. /\ call[c] \in CallState /\ log[l] = NoLog /\ UNCHANGED <<now, break, anomaly>>
      /\ log \in [Logs -> LogRow]
  BY DEF ClockInInsert, PunchSafe, TypeOK
<1>2. PICK paired \in Pairings(call[c].employee, call[c].at) :
         /\ log' = [log EXCEPT ![l] = [status |-> "open", employee |-> call[c].employee,
                                       clockIn |-> call[c].at, clockOut |-> Null,
                                       source |-> "online", paired |-> paired,
                                       flushed |-> FALSE]]
         /\ call' = [call EXCEPT ![c] =
                        Raising([@ EXCEPT !.log = l],
                                IF IsLate(call[c].employee, paired, call[c].at) THEN <<"late">> ELSE <<>>)]
  BY DEF ClockInInsert
<1>3. paired \in BOOLEAN
  BY DEF Pairings, Paired
<1>4. PICK p : p = [call[c] EXCEPT !.log = l]
  OBVIOUS
<1>5. p \in CallState /\ p.log = l
  BY <1>1, <1>4 DEF CallState
<1>6. PICK todo : todo = IF IsLate(call[c].employee, paired, call[c].at) THEN <<"late">> ELSE <<>>
  OBVIOUS
<1>7. todo \in Seq(AnomalyType)
  <2>1. <<"late">> \in Seq(AnomalyType) /\ <<>> \in Seq(AnomalyType)
    BY DEF AnomalyType
  <2>2. QED
    BY <2>1, <1>6
<1>8. log' \in [Logs -> LogRow] /\ log'[l].status = "open" /\ log'[l].clockOut = Null
  BY <1>1, <1>2, <1>3 DEF CallState, LogRow, LogStatus
<1>9. Raising(p, todo) \in CallState /\ PunchKnows(Raising(p, todo))'
  BY <1>5, <1>7, <1>8, RaisingTyped
<1>10. call' = [call EXCEPT ![c] = Raising(p, todo)]
  BY <1>2, <1>4, <1>6
<1>11. \A m \in Logs : m # l => log'[m] = log[m]
  BY <1>1, <1>2
<1>12. LogsLast /\ FlagsExplained' /\ ClosedAfterOpened'
  BY <1>1, <1>8, <1>11 DEF PunchSafe, LogsLast, Exists, NoLog, FlagsExplained, ClosedAfterOpened
<1>13. QED
  BY <1>1, <1>8, <1>9, <1>10, <1>12, PunchGlue DEF PunchSafe, TypeOK

LEMMA RaisePunches ==
    ASSUME PunchSafe, NEW c \in Calls, RaiseAnomaly(c)
    PROVE  PunchSafe'
<1>1. /\ call[c] \in CallState /\ call[c].pc = "raise" /\ call[c].log \in Logs
      /\ log[call[c].log].status # "none" /\ call[c].todo # <<>>
      /\ UNCHANGED <<now, log, break>> /\ break \in [Breaks -> BreakRow]
  BY DEF RaiseAnomaly, PunchSafe, TypeOK, PunchKnows
<1>2. CASE Exists(call[c].log)
  <2>1. PICK t : t = Head(call[c].todo)
    OBVIOUS
  <2>2. t \in AnomalyType
    BY <1>1, <2>1 DEF CallState
  <2>3. anomaly' = anomaly \cup {<<call[c].log, t>>} /\ Goto(c, "flag")
    BY <1>2, <2>1 DEF RaiseAnomaly
  <2>4. PICK q : q = [call[c] EXCEPT !.pc = "flag"]
    OBVIOUS
  <2>5. /\ q \in CallState /\ q.pc = "flag" /\ q.log = call[c].log /\ q.todo = call[c].todo
        /\ call' = [call EXCEPT ![c] = q]
    BY <1>1, <2>3, <2>4 DEF CallState, Pc, Goto
  <2>6. PunchKnows(q)'
    BY <1>1, <2>2, <2>3, <2>5 DEF PunchKnows, Exists
  <2>7. LogsLast /\ FlagsExplained' /\ ClosedAfterOpened'
    BY <1>1, <2>3 DEF PunchSafe, LogsLast, Exists, FlagsExplained, ClosedAfterOpened
  <2>8. anomaly' \subseteq (Logs \cup {Null}) \X AnomalyType
    BY <1>1, <2>2, <2>3 DEF PunchSafe, TypeOK
  <2>9. now' \in Time /\ log' \in [Logs -> LogRow] /\ break' \in [Breaks -> BreakRow]
    BY <1>1 DEF PunchSafe, TypeOK
  <2>10. QED
    BY <2>5, <2>6, <2>7, <2>8, <2>9, PunchGlue
<1>3. CASE ~Exists(call[c].log)
  BY <1>1, <1>3, EndPunches DEF RaiseAnomaly
<1>4. QED
  BY <1>2, <1>3

LEMMA FlagPunches ==
    ASSUME PunchSafe, NEW c \in Calls, FlagLog(c)
    PROVE  PunchSafe'
<1>1. PICK l : l = call[c].log
  OBVIOUS
<1>2. /\ call[c] \in CallState /\ call[c].pc = "flag" /\ l \in Logs
      /\ log[l].status # "none" /\ call[c].todo # <<>>
      /\ UNCHANGED <<now, break, anomaly>> /\ log \in [Logs -> LogRow]
      /\ Exists(l) => \E t \in AnomalyType : <<l, t>> \in anomaly
  BY <1>1 DEF FlagLog, PunchSafe, TypeOK, PunchKnows
<1>3. Tail(call[c].todo) \in Seq(AnomalyType)
  BY <1>2 DEF CallState
<1>4. /\ log' \in [Logs -> LogRow] /\ \A m \in Logs : m # l \/ ~Exists(l) => log'[m] = log[m]
      /\ Exists(l) => log'[l] = [log[l] EXCEPT !.status = "flagged"]
  BY <1>1, <1>2 DEF FlagLog, LogRow, LogStatus
<1>5. /\ Exists(l) => log'[l].status = "flagged" /\ log'[l].clockIn = log[l].clockIn
                      /\ log'[l].clockOut = log[l].clockOut
      /\ ~Exists(l) => log'[l] = log[l]
  BY <1>2, <1>4 DEF LogRow
<1>6. log'[l].status # "none"
  BY <1>2, <1>5
<1>7. LogsLast
  BY <1>2, <1>4, <1>5 DEF LogsLast, Exists
<1>8. FlagsExplained' /\ ClosedAfterOpened'
  BY <1>2, <1>4, <1>5 DEF PunchSafe, FlagsExplained, ClosedAfterOpened
<1>9. PICK p, todo : p = call[c] /\ todo = Tail(call[c].todo)
  OBVIOUS
<1>10. /\ call' = [call EXCEPT ![c] = Raising(p, todo)]
       /\ Raising(p, todo) \in CallState /\ PunchKnows(Raising(p, todo))'
  BY <1>1, <1>2, <1>3, <1>6, <1>9, RaisingTyped DEF FlagLog
<1>11. QED
  BY <1>2, <1>4, <1>7, <1>8, <1>10, PunchGlue DEF PunchSafe, TypeOK

LEMMA SourcePunches ==
    ASSUME PunchSafe, NEW c \in Calls, FindSource(c) \/ StampSource(c)
    PROVE  PunchSafe'
<1>1. UNCHANGED <<now, break, anomaly>> /\ call[c] \in CallState /\ log \in [Logs -> LogRow]
      /\ break \in [Breaks -> BreakRow]
  BY DEF FindSource, StampSource, PunchSafe, TypeOK
<1>2. CASE FindSource(c)
  <2>1. CASE Answer(c)
    BY <1>1, <1>2, <2>1, EndPunches DEF FindSource
  <2>2. ASSUME NEW l \in LatestLogs(OpenLogs(call[c].employee)),
               call' = [call EXCEPT ![c].pc = "stamp", ![c].log = l]
        PROVE  PunchSafe'
    <3>1. PICK q : q = [call[c] EXCEPT !.pc = "stamp", !.log = l]
      OBVIOUS
    <3>2. l \in Logs /\ log[l].status # "none"
      BY DEF LatestLogs, OpenLogs, Exists
    <3>3. q \in CallState /\ q.pc = "stamp" /\ q.log = l /\ call' = [call EXCEPT ![c] = q]
      BY <1>1, <2>2, <3>1, <3>2 DEF CallState, Pc, PunchSafe, TypeOK
    <3>4. PunchKnows(q)
      BY <3>2, <3>3 DEF PunchKnows
    <3>5. QED
      BY <1>1, <1>2, <3>3, <3>4, PunchLocal DEF FindSource
  <2>3. QED
    BY <1>2, <2>1, <2>2 DEF FindSource
<1>3. CASE StampSource(c)
  <2>1. PICK l : l = call[c].log
    OBVIOUS
  <2>2. l \in Logs
    BY <1>1, <1>3, <2>1 DEF StampSource, PunchSafe, PunchKnows
  <2>3. /\ log' \in [Logs -> LogRow]
        /\ \A m \in Logs : /\ log'[m].status = log[m].status /\ log'[m].clockIn = log[m].clockIn
                           /\ log'[m].clockOut = log[m].clockOut
    BY <1>1, <1>3, <2>1, <2>2 DEF StampSource, LogRow
  <2>4. LogsLast /\ FlagsExplained' /\ ClosedAfterOpened'
    BY <1>1, <2>3 DEF PunchSafe, LogsLast, Exists, FlagsExplained, ClosedAfterOpened
  <2>5. PICK p : p = call[c]
    OBVIOUS
  <2>6. /\ call' = [call EXCEPT ![c] = Ended(p, FALSE)]
        /\ Ended(p, FALSE) \in CallState /\ PunchKnows(Ended(p, FALSE))'
    BY <1>1, <1>3, <2>5, EndedTyped DEF StampSource, Answer
  <2>7. QED
    BY <1>1, <2>3, <2>4, <2>6, PunchGlue DEF PunchSafe, TypeOK
<1>4. QED
  BY <1>2, <1>3

LEMMA ResolvePunches ==
    ASSUME PunchSafe, NEW c \in Calls, ResolveLog(c)
    PROVE  PunchSafe'
<1>1. /\ call[c] \in CallState /\ break \in [Breaks -> BreakRow] /\ log \in [Logs -> LogRow]
      /\ UNCHANGED <<now, log, break, anomaly>>
      /\ call[c].op \in {"clock_out", "break_start", "break_end"}
  BY DEF ResolveLog, PunchSafe, TypeOK
<1>2. CASE Refuse(c)
  BY <1>1, <1>2, EndPunches
<1>3. ASSUME NEW l, Exists(l), l = call[c].target \/ l \in Logs,
             call[c].op = "clock_out" => ~TooEarly(call[c].at, l),
             call[c].target # Null => l = call[c].target, l # Null,
             call' = [call EXCEPT ![c].pc = "breaks", ![c].log = l]
      PROVE  PunchSafe'
  <2>1. l \in Logs
    BY <1>1, <1>3 DEF CallState
  <2>2. PICK q : q = [call[c] EXCEPT !.pc = "breaks", !.log = l]
    OBVIOUS
  <2>3. /\ q \in CallState /\ q.pc = "breaks" /\ q.log = l /\ q.op = call[c].op /\ q.at = call[c].at
        /\ call' = [call EXCEPT ![c] = q]
    BY <1>1, <1>3, <2>1, <2>2 DEF CallState, Pc, PunchSafe, TypeOK
  <2>4. log[l].clockIn \in Int /\ q.at \in Int
    BY <1>1, <2>1, <2>3, AttendanceAssumption DEF LogRow, CallState, Time
  <2>5. PunchKnows(q)
    BY <1>1, <1>3, <2>1, <2>3, <2>4 DEF PunchKnows, Exists, TooEarly
  <2>6. QED
    BY <1>1, <2>3, <2>5, PunchLocal
<1>4. CASE ~Refuse(c)
  <2>1. CASE call[c].target # Null
    <3>1. PICK l \in {m \in {call[c].target} : Exists(m)} :
             /\ ~(call[c].op = "clock_out" /\ TooEarly(call[c].at, l))
             /\ call' = [call EXCEPT ![c].pc = "breaks", ![c].log = l]
      BY <1>4, <2>1 DEF ResolveLog
    <3>2. QED
      BY <1>3, <2>1, <3>1
  <2>2. CASE call[c].target = Null
    <3>1. PICK l \in LatestLogs(OpenLogs(call[c].employee)) :
             /\ ~(call[c].op = "clock_out" /\ TooEarly(call[c].at, l))
             /\ call' = [call EXCEPT ![c].pc = "breaks", ![c].log = l]
      BY <1>4, <2>2 DEF ResolveLog
    <3>2. l \in Logs /\ Exists(l) /\ l # Null
      BY AttendanceAssumption DEF LatestLogs, OpenLogs
    <3>3. QED
      BY <1>3, <2>2, <3>1, <3>2
  <2>3. QED
    BY <2>1, <2>2
<1>5. QED
  BY <1>2, <1>4

LEMMA FindBreakPunches ==
    ASSUME PunchSafe, NEW c \in Calls, FindBreak(c)
    PROVE  PunchSafe'
<1>1. /\ call[c] \in CallState /\ call[c].pc = "breaks" /\ PunchKnows(call[c])
      /\ UNCHANGED <<now, log, break, anomaly>> /\ break \in [Breaks -> BreakRow]
  BY DEF FindBreak, PunchSafe, TypeOK
<1>2. CASE Refuse(c)
  BY <1>1, <1>2, EndPunches
<1>3. CASE Goto(c, "close") /\ call[c].op = "clock_out"
  <2>1. PICK q : q = [call[c] EXCEPT !.pc = "close"]
    OBVIOUS
  <2>2. q.pc = "close" /\ q.log = call[c].log /\ q.op = "clock_out" /\ q.at = call[c].at
    BY <1>1, <1>3, <2>1 DEF CallState
  <2>3. PunchKnows(q)
    BY <1>1, <1>3, <2>2 DEF PunchKnows
  <2>4. QED
    BY <1>1, <1>3, <2>1, <2>3, GotoPunches DEF Pc
<1>4. CASE Goto(c, "newbreak")
  <2>1. PICK q : q = [call[c] EXCEPT !.pc = "newbreak"]
    OBVIOUS
  <2>2. q.pc = "newbreak" /\ q.log = call[c].log
    BY <1>1, <2>1 DEF CallState
  <2>3. PunchKnows(q)
    BY <1>1, <2>2 DEF PunchKnows
  <2>4. QED
    BY <1>1, <1>4, <2>1, <2>3, GotoPunches DEF Pc
<1>5. ASSUME NEW b \in LatestBreaks(OpenBreaks(call[c].log)),
             call' = [call EXCEPT ![c].pc = "endbreak", ![c].brk = b]
      PROVE  PunchSafe'
  <2>1. PICK q : q = [call[c] EXCEPT !.pc = "endbreak", !.brk = b]
    OBVIOUS
  <2>2. b \in Breaks
    BY DEF LatestBreaks, OpenBreaks
  <2>3. /\ q \in CallState /\ q.pc = "endbreak" /\ q.brk = b /\ q.log = call[c].log
        /\ q.op = call[c].op /\ q.at = call[c].at /\ call' = [call EXCEPT ![c] = q]
    BY <1>1, <1>5, <2>1, <2>2 DEF CallState, Pc, PunchSafe, TypeOK
  <2>4. PunchKnows(q)
    BY <1>1, <2>2, <2>3 DEF PunchKnows
  <2>5. QED
    BY <1>1, <2>3, <2>4, PunchLocal
<1>6. CASE LatestBreaks(OpenBreaks(call[c].log)) = {} /\ ~Refuse(c)
  <2>1. call[c].op \in {"clock_out", "break_start", "break_end"}
    BY <1>1 DEF PunchKnows
  <2>2. QED
    BY <1>3, <1>4, <1>6, <2>1 DEF FindBreak
<1>7. QED
  BY <1>2, <1>5, <1>6 DEF FindBreak

LEMMA BreakPunches ==
    ASSUME PunchSafe, NEW c \in Calls, EndBreak(c) \/ \E b \in Breaks : StartBreak(c, b)
    PROVE  PunchSafe'
<1>1. /\ call[c] \in CallState /\ PunchKnows(call[c]) /\ UNCHANGED <<now, log, anomaly>>
      /\ break \in [Breaks -> BreakRow]
  BY DEF EndBreak, StartBreak, PunchSafe, TypeOK
<1>2. break' \in [Breaks -> BreakRow]
  <2>1. CASE EndBreak(c)
    <3>1. call[c].brk \in Breaks
      BY <1>1, <2>1 DEF EndBreak, PunchKnows
    <3>2. QED
      BY <1>1, <2>1, <3>1 DEF EndBreak, BreakRow, CallState
  <2>2. ASSUME NEW b \in Breaks, StartBreak(c, b) PROVE break' \in [Breaks -> BreakRow]
    BY <1>1, <2>2 DEF StartBreak, BreakRow, CallState
  <2>3. QED
    BY <2>1, <2>2
<1>3. CASE Refuse(c) \/ Answer(c)
  BY <1>1, <1>2, <1>3, EndPunches
<1>4. CASE EndBreak(c) /\ Goto(c, "close") /\ call[c].op = "clock_out"
  <2>1. PICK q : q = [call[c] EXCEPT !.pc = "close"]
    OBVIOUS
  <2>2. q.pc = "close" /\ q.log = call[c].log /\ q.op = "clock_out" /\ q.at = call[c].at
    BY <1>1, <1>4, <2>1 DEF CallState
  <2>3. PunchKnows(q)
    BY <1>1, <1>4, <2>2 DEF PunchKnows, EndBreak
  <2>4. QED
    BY <1>1, <1>2, <1>4, <2>1, <2>3, GotoPunches DEF Pc
<1>5. QED
  BY <1>3, <1>4 DEF EndBreak, StartBreak

LEMMA ClosePunches ==
    ASSUME PunchSafe, NEW c \in Calls, CloseLog(c)
    PROVE  PunchSafe'
<1>1. PICK p : p = call[c]
  OBVIOUS
<1>2. /\ p \in CallState /\ PunchKnows(p) /\ p.pc = "close" /\ p.log \in Logs
      /\ log[p.log].status # "none" /\ UNCHANGED <<now, break, anomaly>> /\ log \in [Logs -> LogRow]
  BY <1>1 DEF CloseLog, PunchSafe, TypeOK, PunchKnows
<1>3. CASE Exists(p.log)
  <2>1. PICK row : row = [log[p.log] EXCEPT !.clockOut = p.at, !.status = "closed",
                                                !.flushed = @ \/ p.sync]
    OBVIOUS
  <2>2. log' = [log EXCEPT ![p.log] = row] /\ call' = [call EXCEPT ![c] = Raising(p, OnClose(row))]
    BY <1>1, <1>3, <2>1 DEF CloseLog
  <2>3. /\ row \in LogRow /\ row.status = "closed" /\ row.clockIn = log[p.log].clockIn
        /\ row.clockOut = p.at
    <3>1. log[p.log] \in LogRow /\ p.at \in Time /\ p.sync \in BOOLEAN
      BY <1>2 DEF CallState
    <3>2. QED
      BY <2>1, <3>1 DEF LogRow, LogStatus
  <2>4. row.clockIn < row.clockOut
    BY <1>2, <1>3, <2>3 DEF PunchKnows
  <2>5. log' \in [Logs -> LogRow] /\ log'[p.log] = row /\ \A m \in Logs : m # p.log => log'[m] = log[m]
    BY <1>2, <2>2, <2>3
  <2>6. LogsLast /\ FlagsExplained'
    BY <1>2, <1>3, <2>3, <2>5 DEF PunchSafe, LogsLast, Exists, FlagsExplained
  <2>7. ClosedAfterOpened'
    BY <2>3, <2>4, <2>5, AttendanceAssumption DEF PunchSafe, ClosedAfterOpened, LogRow, Time
  <2>8. PICK todo : todo = OnClose(row)
    OBVIOUS
  <2>9. todo \in Seq(AnomalyType)
    <3>1. /\ <<"early_leave">> \in Seq(AnomalyType) /\ <<"over_hours">> \in Seq(AnomalyType)
          /\ <<>> \in Seq(AnomalyType)
      BY DEF AnomalyType
    <3>2. PICK s, t \in Seq(AnomalyType) : todo = s \o t
      BY <2>8, <3>1, Zenon DEF OnClose
    <3>3. QED
      BY <3>2
  <2>10. Raising(p, todo) \in CallState /\ PunchKnows(Raising(p, todo))'
    BY <1>2, <2>3, <2>5, <2>9, RaisingTyped
  <2>11. QED
    BY <1>2, <2>2, <2>5, <2>6, <2>7, <2>8, <2>10, PunchGlue DEF PunchSafe, TypeOK
<1>4. CASE ~Exists(p.log)
  BY <1>1, <1>2, <1>4, EndPunches DEF CloseLog, PunchSafe, TypeOK
<1>5. QED
  BY <1>3, <1>4

LEMMA DeletePunches ==
    ASSUME PunchSafe, NEW c \in Calls, DeleteLog(c)
    PROVE  PunchSafe'
<1>1. PICK p : p = call[c]
  OBVIOUS
<1>2. PICK l : l = p.target
  OBVIOUS
<1>3. /\ p \in CallState /\ PunchKnows(p) /\ p.pc = "delete" /\ l \in Logs /\ log[l].status # "none"
      /\ log \in [Logs -> LogRow] /\ break \in [Breaks -> BreakRow] /\ now' = now
  BY <1>1, <1>2 DEF DeleteLog, PunchSafe, TypeOK, PunchKnows
<1>4. log' = [log EXCEPT ![l] = [NoLog EXCEPT !.status = "gone"]]
  BY <1>1, <1>2 DEF DeleteLog
<1>5. [NoLog EXCEPT !.status = "gone"] \in LogRow
  BY NoRows DEF LogRow, LogStatus
<1>6. /\ log' \in [Logs -> LogRow] /\ log'[l].status = "gone" /\ log'[l].clockOut = Null
      /\ \A m \in Logs : m # l => log'[m] = log[m]
  BY <1>3, <1>4, <1>5 DEF NoLog
<1>7. /\ anomaly' \subseteq (Logs \cup {Null}) \X AnomalyType
      /\ \A m \in Logs : \A t \in AnomalyType : m # l /\ <<m, t>> \in anomaly => <<m, t>> \in anomaly'
  <2>1. anomaly' = {<<IF a[1] = l THEN Null ELSE a[1], a[2]>> : a \in anomaly}
    BY <1>1, <1>2 DEF DeleteLog
  <2>2. anomaly \subseteq (Logs \cup {Null}) \X AnomalyType
    BY DEF PunchSafe, TypeOK
  <2>3. ASSUME NEW a \in anomaly
        PROVE  <<IF a[1] = l THEN Null ELSE a[1], a[2]>> \in (Logs \cup {Null}) \X AnomalyType
    BY <2>2
  <2>4. ASSUME NEW m \in Logs, NEW t \in AnomalyType, m # l, <<m, t>> \in anomaly
        PROVE  <<m, t>> \in anomaly'
    BY <2>1, <2>4
  <2>5. QED
    BY <2>1, <2>3, <2>4
<1>8. break' \in [Breaks -> BreakRow]
  BY <1>1, <1>2, <1>3 DEF DeleteLog, BreakRow
<1>9. LogsLast /\ FlagsExplained' /\ ClosedAfterOpened'
  BY <1>3, <1>6, <1>7 DEF PunchSafe, LogsLast, Exists, FlagsExplained, ClosedAfterOpened
<1>10. /\ call' = [call EXCEPT ![c] = Ended(p, FALSE)]
       /\ Ended(p, FALSE) \in CallState /\ PunchKnows(Ended(p, FALSE))'
  BY <1>1, <1>3, EndedTyped DEF DeleteLog, Answer
<1>11. QED
  BY <1>3, <1>6, <1>7, <1>8, <1>9, <1>10, PunchGlue DEF PunchSafe, TypeOK

LEMMA TickPunches ==
    ASSUME PunchSafe, Tick \/ UNCHANGED vars
    PROVE  PunchSafe'
<1>1. UNCHANGED <<log, break, anomaly, call>> /\ now' \in Time
  BY AttendanceAssumption DEF Tick, vars, PunchSafe, TypeOK, Time
<1>2. QED
  BY <1>1 DEF PunchSafe, TypeOK, PunchKnows, Exists, FlagsExplained, ClosedAfterOpened

LEMMA PunchStep ==
    ASSUME PunchSafe, [Next]_vars
    PROVE  PunchSafe'
<1>1. CASE Tick \/ UNCHANGED vars
  BY <1>1, TickPunches
<1>2. ASSUME NEW c \in Calls, NEW e \in Employees,
             \/ \E op \in PunchKind \cup {"delete"}, target \in Logs \cup {Null}, at \in Time :
                   Punch(c, e, op, target, at)
             \/ \E batch \in Batches : Sync(c, e, batch)
      PROVE  PunchSafe'
  BY <1>2, BeginPunches
<1>3. ASSUME NEW c \in Calls, Proceed(c)
      PROVE  PunchSafe'
  BY <1>3, NextEventPunches, LookPunches, InsertPunches, RaisePunches, FlagPunches, SourcePunches,
     ResolvePunches, FindBreakPunches, BreakPunches, ClosePunches, DeletePunches DEF Proceed
<1>4. ASSUME NEW c \in Calls, Crash(c)
      PROVE  PunchSafe'
  <2>1. PICK q : q = [Fresh EXCEPT !.pc = "dead"]
    OBVIOUS
  <2>2. q \in CallState /\ q.pc = "dead"
    BY <2>1, FreshTyped DEF CallState, Pc
  <2>3. PunchKnows(q)
    BY <2>2 DEF PunchKnows
  <2>4. call' = [call EXCEPT ![c] = q] /\ UNCHANGED <<now, log, break, anomaly>>
    BY <1>4, <2>1 DEF Crash
  <2>5. QED
    BY <2>2, <2>3, <2>4, PunchLocal DEF PunchSafe, TypeOK
<1>5. QED
  BY <1>1, <1>2, <1>3, <1>4 DEF Next

LEMMA PunchInit == Init => PunchSafe
<1>1. SUFFICES ASSUME Init PROVE PunchSafe
  OBVIOUS
<1>2. TypeOK
  <2>1. 0 \in Time
    BY AttendanceAssumption DEF Time
  <2>2. QED
    BY <1>1, <2>1, NoRows, FreshTyped DEF Init, TypeOK
<1>3. (\A c \in Calls : PunchKnows(call[c])) /\ FlagsExplained /\ ClosedAfterOpened
  BY <1>1, FreshTyped DEF Init, NoLog, FlagsExplained, ClosedAfterOpened
<1>4. QED
  BY <1>2, <1>3 DEF PunchSafe

-----------------------------------------------------------------------------
(* Punches in turn: calls about an employee come one at a time, the clock of *)
(* the server stamps them, and clients do not name the log.                  *)

Alone ==
    \A c, d \in Calls : Active(c) /\ Active(d) /\ call[c].employee = call[d].employee => c = d

\* A call with the locals p holds the log its clock-in opened, or serves one it
\* has found open.
Holds(p) == p.pc \in {"raise", "flag", "source", "stamp"} /\ p.op = "clock_in"
Serves(p) == p.pc \in {"breaks", "endbreak", "newbreak", "close"}

Punctual(p) == p.sync \/ p.at <= now
Follows(p) ==
    ~p.sync => \A l \in Logs :
        Exists(l) /\ log[l].employee = p.employee /\ log[l].clockOut # Null /\ ~log[l].flushed =>
           log[l].clockOut <= p.at
OnOpenLog(p) == Exists(p.log) => log[p.log].employee = p.employee /\ log[p.log].clockOut = Null
OnlyItsLog(p) ==
    p.log \in Logs /\ log[p.log].status # "none" /\ OnOpenLog(p) /\ OpenLogs(p.employee) \subseteq {p.log}

\* What the call with the locals p found of its employee is still so.
TurnKnows(p) ==
    /\ p.op # "delete" => p.target = Null
    /\ Punctual(p)
    /\ Follows(p)
    /\ p.pc = "next" => p.sync /\ p.op = "none"
    /\ p.pc = "insert" => OpenLogs(p.employee) = {} /\ p.op = "clock_in"
    /\ Serves(p) => OnOpenLog(p)
    /\ Holds(p) => OnlyItsLog(p)
    /\ p.pc \in {"newbreak", "close"} => OpenBreaks(p.log) = {}
    /\ p.pc = "endbreak" => OpenBreaks(p.log) \subseteq {p.brk}
    /\ p.pc \in {"source", "stamp"} => p.op = "clock_in"

BreaksPlaced == \A b \in Breaks : break[b].state = "present" => break[b].log \in Logs
OneOpenBreak == \A l \in Logs : \A a, b \in OpenBreaks(l) : a = b
Past == \A l \in Logs :
           Exists(l) /\ log[l].clockOut # Null /\ ~log[l].flushed => log[l].clockOut <= now

\* While nothing has died, the spans worked online by an employee are apart, but
\* for a log that a batch has opened and not yet marked.
InHand(l) == \E c \in Calls : call[c].sync /\ Holds(call[c]) /\ call[c].log = l
Apart(l, m) == Ends(l) <= log[m].clockIn \/ Ends(m) <= log[l].clockIn
SpansApart ==
    (\A c \in Calls : call[c].pc # "dead") =>
        \A e \in Employees : \A l, m \in Online(e) :
            l # m /\ ~InHand(l) /\ ~InHand(m) => Apart(l, m)

RowsInTurn ==
    BreaksPlaced /\ OneOpenBreak /\ Past /\ OneOpenLog /\ NoDanglingBreak /\ SpansApart

TurnSafe ==
    PunchSafe /\ Alone /\ (\A c \in Calls : Active(c) => TurnKnows(call[c])) /\ RowsInTurn

\* What a call about e leaves as it was for the calls about others.
OthersKept(e) ==
    /\ now' = now
    /\ \A l \in Logs : log[l].status # "none" => log'[l].status # "none"
    /\ \A l \in Logs : Exists(l)' =>
          /\ log[l].status # "none" =>
                /\ Exists(l) /\ log'[l].employee = log[l].employee
                /\ log[l].employee # e => /\ log'[l].clockOut = log[l].clockOut
                                         /\ log'[l].flushed = log[l].flushed
          /\ log[l].status = "none" => log'[l].employee = e
    /\ \A l \in Logs : \A b \in Breaks :
          b \in OpenBreaks(l)' /\ b \notin OpenBreaks(l) => Exists(l) /\ log[l].employee = e

LEMMA TurnKept ==
    ASSUME NEW e \in Employees, NEW p \in CallState, p.employee # e, PunchKnows(p), TurnKnows(p),
           OthersKept(e)
    PROVE  TurnKnows(p)'
<1>1. \A l \in Logs : Exists(l)' /\ log'[l].employee = p.employee =>
         /\ Exists(l) /\ log[l].employee = p.employee /\ log'[l].clockOut = log[l].clockOut
         /\ log'[l].flushed = log[l].flushed
  BY DEF OthersKept, Exists
<1>2. Punctual(p)' /\ Follows(p)'
  BY <1>1 DEF OthersKept, TurnKnows, Punctual, Follows
<1>3. OpenLogs(p.employee)' \subseteq OpenLogs(p.employee)
  BY <1>1 DEF OpenLogs
<1>4. p.log \in Logs /\ log[p.log].status # "none" /\ OnOpenLog(p) => OnOpenLog(p)'
  BY DEF OthersKept, OnOpenLog
<1>5. Holds(p) => OnlyItsLog(p)'
  BY <1>3, <1>4 DEF OthersKept, TurnKnows, OnlyItsLog, Exists
<1>6. Serves(p) => p.log \in Logs /\ log[p.log].status # "none" /\ OnOpenLog(p) /\ OnOpenLog(p)'
  BY <1>4 DEF PunchKnows, TurnKnows, Serves
<1>7. Serves(p) => OpenBreaks(p.log)' \subseteq OpenBreaks(p.log)
  <2>1. SUFFICES ASSUME Serves(p), NEW b \in OpenBreaks(p.log)', b \notin OpenBreaks(p.log) PROVE FALSE
    OBVIOUS
  <2>2. b \in Breaks
    BY DEF OpenBreaks
  <2>3. QED
    BY <1>6, <2>1, <2>2 DEF OthersKept, OnOpenLog
<1>8. /\ p.pc = "insert" => OpenLogs(p.employee)' = {}
      /\ p.pc \in {"newbreak", "close"} => OpenBreaks(p.log)' = {}
      /\ p.pc = "endbreak" => OpenBreaks(p.log)' \subseteq {p.brk}
  BY <1>3, <1>7 DEF TurnKnows, Serves
<1>9. QED
  BY <1>2, <1>5, <1>6, <1>8 DEF TurnKnows

\* Spans stay apart while no log comes online, none leaves the hand of a batch,
\* and none moves but by being closed.
LEMMA ApartKept ==
    ASSUME PunchSafe, PunchSafe', SpansApart,
           (\A c \in Calls : call'[c].pc # "dead") => (\A c \in Calls : call[c].pc # "dead"),
           \A l \in Logs : Exists(l)' /\ log'[l].source = "online" /\ ~log'[l].flushed /\ ~InHand(l)' =>
              /\ Exists(l) /\ log[l].source = "online" /\ ~log[l].flushed /\ ~InHand(l)
              /\ log'[l].employee = log[l].employee /\ log'[l].clockIn = log[l].clockIn
              /\ log'[l].clockOut = log[l].clockOut \/ log[l].clockOut = Null
    PROVE  SpansApart'
<1>1. SUFFICES ASSUME \A c \in Calls : call'[c].pc # "dead", NEW e \in Employees,
                      NEW l \in Logs, NEW m \in Logs, l \in Online(e)', m \in Online(e)', l # m,
                      ~InHand(l)', ~InHand(m)'
               PROVE  Apart(l, m)'
  BY DEF SpansApart, Online
<1>2. l \in Online(e) /\ m \in Online(e) /\ ~InHand(l) /\ ~InHand(m)
  BY <1>1 DEF Online
<1>3. Apart(l, m)
  BY <1>1, <1>2 DEF SpansApart
<1>4. /\ log'[l].clockIn = log[l].clockIn /\ log'[m].clockIn = log[m].clockIn
      /\ log'[l].clockOut = log[l].clockOut \/ log[l].clockOut = Null
      /\ log'[m].clockOut = log[m].clockOut \/ log[m].clockOut = Null
  BY <1>1 DEF Online
<1>5. log[l].clockIn \in Time /\ log[m].clockIn \in Time
  BY DEF PunchSafe, TypeOK, LogRow
<1>6. /\ Ends(l)' = Ends(l) \/ Ends(l) = MaxTime + 1
      /\ Ends(m)' = Ends(m) \/ Ends(m) = MaxTime + 1
  BY <1>4 DEF Ends
<1>7. /\ ~(MaxTime + 1 <= log[m].clockIn)
      /\ ~(MaxTime + 1 <= log[l].clockIn)
  BY <1>5, AttendanceAssumption DEF Time
<1>8. QED
  BY <1>3, <1>4, <1>6, <1>7 DEF Apart

\* What a batch has in hand, after a step of c that leaves it with the locals q.
LEMMA InHandAfter ==
    ASSUME PunchSafe, NEW c \in Calls, NEW q \in CallState, call' = [call EXCEPT ![c] = q], NEW l
    PROVE  /\ q.sync /\ Holds(q) /\ q.log = l => InHand(l)'
           /\ InHand(l) => InHand(l)' \/ (call[c].sync /\ Holds(call[c]) /\ call[c].log = l)
<1>1. \A d \in Calls : call'[d] = IF d = c THEN q ELSE call[d]
  BY DEF PunchSafe, TypeOK
<1>2. QED
  BY <1>1 DEF InHand, Holds

LEMMA TurnGlue ==
    ASSUME TurnSafe, PunchSafe', NEW c \in Calls, NEW e \in Employees, NEW q \in CallState,
           call' = [call EXCEPT ![c] = q],
           \A d \in Calls : d # c /\ Active(d) => call[d].employee # e,
           q.pc \notin {"idle", "done", "dead"} => q.employee = e /\ TurnKnows(q)',
           OthersKept(e), RowsInTurn'
    PROVE  TurnSafe'
<1>1. \A d \in Calls : call'[d] = IF d = c THEN q ELSE call[d]
  BY DEF TurnSafe, PunchSafe, TypeOK
<1>2. Alone'
  BY <1>1 DEF TurnSafe, Alone, Active
<1>3. ASSUME NEW d \in Calls, Active(d)' PROVE TurnKnows(call[d])'
  <2>1. CASE d = c
    BY <1>1, <1>3, <2>1 DEF Active
  <2>2. CASE d # c
    <3>1. PICK p : p = call[d]
      OBVIOUS
    <3>2. /\ call'[d] = p /\ p \in CallState /\ PunchKnows(p) /\ TurnKnows(p) /\ p.employee # e
      BY <1>1, <1>3, <2>2, <3>1 DEF TurnSafe, PunchSafe, TypeOK, Active
    <3>3. TurnKnows(p)'
      BY <3>2, TurnKept
    <3>4. QED
      BY <3>2, <3>3
  <2>3. QED
    BY <2>1, <2>2
<1>4. QED
  BY <1>2, <1>3 DEF TurnSafe

\* A step that writes no row.
LEMMA TurnLocal ==
    ASSUME TurnSafe, PunchSafe', NEW c \in Calls, NEW e \in Employees, NEW q \in CallState,
           call' = [call EXCEPT ![c] = q],
           \A d \in Calls : d # c /\ Active(d) => call[d].employee # e,
           q.pc \notin {"idle", "done", "dead"} => q.employee = e /\ TurnKnows(q),
           UNCHANGED <<now, log, break>>,
           q.pc # "dead" => call[c].pc # "dead",
           q.pc # "dead" /\ call[c].sync /\ Holds(call[c]) /\ Exists(call[c].log) =>
              q.sync /\ Holds(q) /\ q.log = call[c].log
    PROVE  TurnSafe'
<1>1. OthersKept(e) /\ (BreaksPlaced /\ OneOpenBreak /\ Past /\ OneOpenLog /\ NoDanglingBreak)'
  BY DEF TurnSafe, RowsInTurn, OthersKept, Exists, OpenBreaks, BreaksPlaced, OneOpenBreak, Past,
         OneOpenLog, NoDanglingBreak
<1>2. SpansApart'
  <2>1. \A d \in Calls : call'[d] = IF d = c THEN q ELSE call[d]
    BY DEF TurnSafe, PunchSafe, TypeOK
  <2>2. CASE q.pc = "dead"
    BY <2>1, <2>2 DEF SpansApart
  <2>3. CASE q.pc # "dead"
    <3>1. (\A d \in Calls : call'[d].pc # "dead") => (\A d \in Calls : call[d].pc # "dead")
      BY <2>1, <2>3
    <3>2. ASSUME NEW l \in Logs, Exists(l)', ~InHand(l)' PROVE ~InHand(l)
      BY <2>3, <3>2, InHandAfter DEF TurnSafe, Exists
    <3>3. QED
      BY <3>1, <3>2, ApartKept DEF TurnSafe, RowsInTurn, Exists
  <2>4. QED
    BY <2>2, <2>3
<1>3. q.pc \notin {"idle", "done", "dead"} => TurnKnows(q)'
  BY DEF TurnKnows, Punctual, Follows, Serves, Holds, OnOpenLog, OnlyItsLog, OpenLogs, OpenBreaks, Exists
<1>4. QED
  BY <1>1, <1>2, <1>3, TurnGlue DEF RowsInTurn

LEMMA BeginInTurn ==
    ASSUME Exclusive, ~ByName, ~BackDated, TurnSafe, PunchSafe',
           NEW c \in Calls, NEW e \in Employees, Begin(c, e),
           \/ \E op \in PunchKind \cup {"delete"}, target \in Logs \cup {Null}, at \in Time :
                 Punch(c, e, op, target, at)
           \/ \E batch \in Batches : Sync(c, e, batch)
    PROVE  TurnSafe'
<1>1. /\ \A d \in Calls : d # c /\ Active(d) => call[d].employee # e
      /\ call[c].pc = "idle" /\ ~Holds(call[c]) /\ now \in Int /\ 0 <= now
  BY AttendanceAssumption DEF Begin, Holds, TurnSafe, PunchSafe, TypeOK, Time
<1>2. ASSUME NEW op \in PunchKind \cup {"delete"}, NEW target \in Logs \cup {Null}, NEW at \in Time,
             Punch(c, e, op, target, at)
      PROVE  TurnSafe'
  <2>1. PICK q : q = [Fresh EXCEPT !.pc = "start", !.op = op, !.employee = e, !.target = target, !.at = at]
    OBVIOUS
  <2>2. /\ q \in CallState /\ q.pc = "start" /\ q.op = op /\ q.employee = e /\ q.target = target
        /\ q.at = at /\ q.batch = {} /\ ~q.sync
    BY <2>1, FreshTyped DEF CallState, Pc, Fresh
  <2>3. /\ call' = [call EXCEPT ![c] = q] /\ UNCHANGED <<now, log, break>> /\ at = now
        /\ op # "delete" => target = Null
    BY <1>2, <2>1 DEF Punch
  <2>4. TurnKnows(q)
    BY <1>1, <2>2, <2>3 DEF TurnSafe, RowsInTurn, Past, TurnKnows, Punctual, Follows, Serves, Holds
  <2>5. QED
    BY <1>1, <2>2, <2>3, <2>4, TurnLocal
<1>3. ASSUME NEW batch \in Batches, Sync(c, e, batch)
      PROVE  TurnSafe'
  <2>1. PICK b \in BOOLEAN : b = (OpenLogs(e) = {} /\ Orderly(batch))
    OBVIOUS
  <2>2. PICK q : q = [Fresh EXCEPT !.pc = "next", !.sync = TRUE, !.employee = e,
                                   !.batch = batch, !.clean = b]
    OBVIOUS
  <2>3. /\ q \in CallState /\ q.pc = "next" /\ q.op = "none" /\ q.employee = e /\ q.target = Null
        /\ q.at = 0 /\ q.batch = batch /\ q.sync
    <3>1. batch \in SUBSET Event
      BY AttendanceAssumption
    <3>2. q \in CallState /\ q.pc = "next" /\ q.employee = e /\ q.batch = batch /\ q.sync
      BY <2>2, <3>1, FreshTyped DEF CallState, Pc
    <3>3. q.op = "none" /\ q.target = Null /\ q.at = 0
      BY <2>2 DEF Fresh
    <3>4. QED
      BY <3>2, <3>3
  <2>4. call' = [call EXCEPT ![c] = q] /\ UNCHANGED <<now, log, break>>
    BY <1>3, <2>1, <2>2, Zenon DEF Sync
  <2>6. TurnKnows(q)
    BY <1>1, <2>3 DEF TurnKnows, Punctual, Follows, Serves, Holds
  <2>7. QED
    BY <1>1, <2>3, <2>4, <2>6, TurnLocal
<1>4. QED
  BY <1>2, <1>3

\* What is known of the call at work.
LEMMA AtWork ==
    ASSUME TurnSafe, NEW c \in Calls, call[c].pc \notin {"idle", "done", "dead"}
    PROVE  /\ call[c] \in CallState /\ PunchKnows(call[c]) /\ TurnKnows(call[c])
           /\ call[c].employee \in Employees
           /\ \A d \in Calls : d # c /\ Active(d) => call[d].employee # call[c].employee
           /\ now \in Int /\ 0 <= now /\ call[c].at \in Int
           /\ log \in [Logs -> LogRow] /\ break \in [Breaks -> BreakRow]
<1>1. call[c] \in CallState /\ call[c].at \in Time /\ now \in Time
  BY DEF TurnSafe, PunchSafe, TypeOK, CallState
<1>2. QED
  BY <1>1, AttendanceAssumption DEF TurnSafe, PunchSafe, TypeOK, CallState, Alone, Active, Time

LEMMA EndedInTurn ==
    ASSUME NEW p \in CallState, NEW failed \in BOOLEAN, Punctual(p), now' = now, now \in Int, 0 <= now
    PROVE  LET q == Ended(p, failed)
           IN  /\ q \in CallState
               /\ \/ q.pc = "done"
                  \/ q.pc = "next" /\ q.employee = p.employee /\ TurnKnows(q) /\ TurnKnows(q)'
<1>1. PICK e \in BOOLEAN : e = (p.errors \/ failed)
  BY DEF CallState
<1>2. PICK q : q = Ended(p, failed)
  OBVIOUS
<1>3. q \in CallState
  BY <1>2, EndedTyped
<1>4. CASE p.sync
  <2>1. q = [Fresh EXCEPT !.pc = "next", !.sync = TRUE, !.employee = p.employee,
                          !.batch = p.batch, !.clean = p.clean, !.errors = e]
    BY <1>1, <1>2, <1>4, Zenon DEF Ended
  <2>2. /\ q.pc = "next" /\ q.op = "none" /\ q.target = Null /\ q.at = 0 /\ q.sync /\ q.batch = p.batch
        /\ q.employee = p.employee
    BY <2>1 DEF Fresh
  <2>3. TurnKnows(q) /\ TurnKnows(q)'
    BY <2>2 DEF TurnKnows, Punctual, Follows, Serves, Holds
  <2>4. QED
    BY <1>2, <1>3, <2>2, <2>3
<1>5. CASE ~p.sync
  <2>1. q.pc = "done"
    BY <1>2, <1>5, FreshTyped DEF Ended, Fresh
  <2>2. QED
    BY <1>2, <1>3, <2>1
<1>6. QED
  BY <1>4, <1>5

\* A step that writes no row and moves the call on to locals q.
LEMMA MoveInTurn ==
    ASSUME TurnSafe, PunchSafe', NEW c \in Calls, call[c].pc \notin {"idle", "done", "dead"},
           NEW q \in CallState, call' = [call EXCEPT ![c] = q], UNCHANGED <<now, log, break>>,
           q.pc \notin {"idle", "done", "dead"} => q.employee = call[c].employee /\ TurnKnows(q),
           q.pc # "dead" /\ Holds(call[c]) /\ Exists(call[c].log) =>
              Holds(q) /\ q.log = call[c].log /\ q.sync = call[c].sync
    PROVE  TurnSafe'
<1>1. PICK e \in Employees :
         e = call[c].employee /\ \A d \in Calls : d # c /\ Active(d) => call[d].employee # e
  BY AtWork, Zenon
<1>2. /\ q.pc \notin {"idle", "done", "dead"} => q.employee = e /\ TurnKnows(q)
      /\ q.pc # "dead" => call[c].pc # "dead"
      /\ q.pc # "dead" /\ call[c].sync /\ Holds(call[c]) /\ Exists(call[c].log) =>
            q.sync /\ Holds(q) /\ q.log = call[c].log
  BY <1>1
<1>3. QED
  BY <1>1, <1>2, TurnLocal, Zenon

LEMMA EndInTurn ==
    ASSUME TurnSafe, PunchSafe', NEW c \in Calls, call[c].pc \notin {"idle", "done", "dead"},
           Refuse(c) \/ Answer(c), UNCHANGED <<now, log, break>>,
           ~(Holds(call[c]) /\ Exists(call[c].log))
    PROVE  TurnSafe'
<1>1. PICK p : p = call[c]
  OBVIOUS
<1>2. PICK failed \in BOOLEAN : call' = [call EXCEPT ![c] = Ended(p, failed)]
  BY <1>1 DEF Refuse, Answer
<1>3. p \in CallState /\ Punctual(p) /\ now \in Int /\ 0 <= now
  BY <1>1, AtWork DEF TurnKnows
<1>4. PICK q : q = Ended(p, failed)
  OBVIOUS
<1>5. q \in CallState /\ (q.pc = "done" \/ (q.pc = "next" /\ q.employee = p.employee /\ TurnKnows(q)))
  BY <1>3, <1>4, EndedInTurn
<1>6. q.pc \notin {"idle", "done", "dead"} => q.employee = call[c].employee /\ TurnKnows(q)
  BY <1>1, <1>5
<1>7. QED
  BY <1>2, <1>4, <1>5, <1>6, MoveInTurn

LEMMA NextEventInTurn ==
    ASSUME TurnSafe, PunchSafe', NEW c \in Calls, NextEvent(c)
    PROVE  TurnSafe'
<1>1. /\ call[c].pc = "next" /\ UNCHANGED <<now, log, break>> /\ ~Holds(call[c])
      /\ call[c] \in CallState /\ TurnKnows(call[c])
  BY AtWork DEF NextEvent, Holds
<1>2. CASE call' = [call EXCEPT ![c] = [Fresh EXCEPT !.pc = "done", !.sync = TRUE,
                                                     !.clean = call[c].clean,
                                                     !.errors = call[c].errors]]
  <2>1. PICK q : q = [Fresh EXCEPT !.pc = "done", !.sync = TRUE, !.clean = call[c].clean,
                                   !.errors = call[c].errors]
    OBVIOUS
  <2>2. q \in CallState /\ q.pc = "done"
    BY <1>1, <2>1, FreshTyped DEF CallState, Pc
  <2>3. QED
    BY <1>1, <1>2, <2>1, <2>2, MoveInTurn
<1>3. ASSUME NEW ev \in Earliest(call[c].batch),
             call' = [call EXCEPT ![c].pc = "start", ![c].op = ev.kind, ![c].at = ev.at,
                                  ![c].batch = @ \ {ev}]
      PROVE  TurnSafe'
  <2>1. PICK q : q = [call[c] EXCEPT !.pc = "start", !.op = ev.kind, !.at = ev.at, !.batch = @ \ {ev}]
    OBVIOUS
  <2>2. ev \in Event /\ ev \in call[c].batch
    BY <1>1 DEF Earliest, CallState
  <2>3. /\ q \in CallState /\ q.pc = "start" /\ q.op # "delete" /\ q.employee = call[c].employee
        /\ q.at = ev.at /\ q.batch = call[c].batch \ {ev} /\ q.sync = call[c].sync
        /\ q.target = call[c].target
    BY <1>1, <2>1, <2>2 DEF CallState, Pc, Event, PunchKind
  <2>4. call' = [call EXCEPT ![c] = q]
    BY <1>3, <2>1 DEF TurnSafe, PunchSafe, TypeOK
  <2>5. call[c].sync /\ call[c].target = Null
    BY <1>1 DEF TurnKnows
  <2>6. Punctual(q)
    BY <1>1, <2>2, <2>3 DEF TurnKnows, Punctual
  <2>7. TurnKnows(q)
    BY <2>3, <2>5, <2>6 DEF TurnKnows, Follows, Serves, Holds
  <2>8. QED
    BY <1>1, <2>3, <2>4, <2>7, MoveInTurn
<1>4. QED
  BY <1>2, <1>3 DEF NextEvent

LEMMA LookInTurn ==
    ASSUME TurnSafe, PunchSafe', NEW c \in Calls, ClockInFind(c) \/ DeleteFind(c)
    PROVE  TurnSafe'
<1>1. /\ call[c].pc = "start" /\ UNCHANGED <<now, log, break>> /\ ~Holds(call[c])
      /\ call[c] \in CallState /\ TurnKnows(call[c])
  BY AtWork DEF ClockInFind, DeleteFind, Holds
<1>2. CASE Refuse(c)
  BY <1>1, <1>2, EndInTurn
<1>3. ASSUME NEW at \in {"insert", "delete"}, Goto(c, at),
             at = "insert" => OpenLogs(call[c].employee) = {} /\ call[c].op = "clock_in"
      PROVE  TurnSafe'
  <2>1. PICK q : q = [call[c] EXCEPT !.pc = at]
    OBVIOUS
  <2>2. /\ q \in CallState /\ q.pc = at /\ q.op = call[c].op /\ q.employee = call[c].employee
        /\ q.at = call[c].at /\ q.batch = call[c].batch /\ q.sync = call[c].sync
        /\ q.target = call[c].target /\ call' = [call EXCEPT ![c] = q]
    BY <1>1, <1>3, <2>1 DEF CallState, Pc, Goto
  <2>3. Punctual(q) /\ Follows(q)
    BY <1>1, <2>2 DEF TurnKnows, Punctual, Follows
  <2>4. TurnKnows(q)
    BY <1>1, <1>3, <2>2, <2>3 DEF TurnKnows, Serves, Holds
  <2>5. QED
    BY <1>1, <2>2, <2>4, MoveInTurn
<1>4. QED
  BY <1>2, <1>3 DEF ClockInFind, DeleteFind

LEMMA RaiseInTurn ==
    ASSUME TurnSafe, PunchSafe', NEW c \in Calls, RaiseAnomaly(c)
    PROVE  TurnSafe'
<1>1. /\ call[c].pc = "raise" /\ UNCHANGED <<now, log, break>>
      /\ call[c] \in CallState /\ TurnKnows(call[c])
  BY AtWork DEF RaiseAnomaly
<1>2. CASE Exists(call[c].log)
  <2>1. PICK q : q = [call[c] EXCEPT !.pc = "flag"]
    OBVIOUS
  <2>2. /\ q \in CallState /\ q.pc = "flag" /\ q.op = call[c].op /\ q.employee = call[c].employee
        /\ q.at = call[c].at /\ q.batch = call[c].batch /\ q.sync = call[c].sync
        /\ q.target = call[c].target /\ q.log = call[c].log
        /\ call' = [call EXCEPT ![c] = q]
    BY <1>1, <1>2, <2>1 DEF CallState, Pc, Goto, RaiseAnomaly
  <2>3. Punctual(q) /\ Follows(q) /\ (OnlyItsLog(call[c]) => OnlyItsLog(q)) /\ Holds(q) = Holds(call[c])
    BY <1>1, <2>2 DEF TurnKnows, Punctual, Follows, OnlyItsLog, OnOpenLog, Holds
  <2>4. TurnKnows(q)
    BY <1>1, <2>2, <2>3 DEF TurnKnows, Serves
  <2>5. QED
    BY <1>1, <2>2, <2>3, <2>4, MoveInTurn
<1>3. CASE ~Exists(call[c].log)
  BY <1>1, <1>3, EndInTurn DEF RaiseAnomaly
<1>4. QED
  BY <1>2, <1>3

LEMMA FindSourceInTurn ==
    ASSUME TurnSafe, PunchSafe', NEW c \in Calls, FindSource(c)
    PROVE  TurnSafe'
<1>1. /\ call[c].pc = "source" /\ UNCHANGED <<now, log, break>>
      /\ call[c] \in CallState /\ TurnKnows(call[c]) /\ Holds(call[c]) /\ OnlyItsLog(call[c])
  BY AtWork DEF FindSource, TurnKnows, Holds
<1>2. CASE OpenLogs(call[c].employee) = {} /\ Answer(c)
  <2>1. ~Exists(call[c].log)
    BY <1>1, <1>2 DEF OnlyItsLog, OnOpenLog, OpenLogs
  <2>2. QED
    BY <1>1, <1>2, <2>1, EndInTurn
<1>3. ASSUME NEW l \in LatestLogs(OpenLogs(call[c].employee)),
             call' = [call EXCEPT ![c].pc = "stamp", ![c].log = l]
      PROVE  TurnSafe'
  <2>1. l \in Logs /\ l = call[c].log
    BY <1>1 DEF LatestLogs, OnlyItsLog
  <2>2. PICK q : q = [call[c] EXCEPT !.pc = "stamp", !.log = l]
    OBVIOUS
  <2>3. /\ q \in CallState /\ q.pc = "stamp" /\ q.op = call[c].op /\ q.employee = call[c].employee
        /\ q.at = call[c].at /\ q.batch = call[c].batch /\ q.sync = call[c].sync
        /\ q.target = call[c].target /\ q.log = call[c].log
        /\ call' = [call EXCEPT ![c] = q]
    <3>1. /\ q \in CallState /\ q.pc = "stamp" /\ q.op = call[c].op /\ q.employee = call[c].employee
          /\ q.at = call[c].at /\ q.batch = call[c].batch /\ q.sync = call[c].sync
          /\ q.target = call[c].target /\ q.log = call[c].log
      BY <1>1, <2>1, <2>2 DEF CallState, Pc
    <3>2. call' = [call EXCEPT ![c] = q]
      BY <1>3, <2>2 DEF TurnSafe, PunchSafe, TypeOK
    <3>3. QED
      BY <3>1, <3>2
  <2>4. Punctual(q) /\ Follows(q) /\ OnlyItsLog(q) /\ Holds(q)
    BY <1>1, <2>3 DEF TurnKnows, Punctual, Follows, OnlyItsLog, OnOpenLog, Holds
  <2>5. TurnKnows(q)
    BY <1>1, <2>3, <2>4 DEF TurnKnows, Serves
  <2>6. QED
    BY <1>1, <2>3, <2>4, <2>5, MoveInTurn
<1>4. QED
  BY <1>1, <1>2, <1>3 DEF FindSource

LEMMA ResolveInTurn ==
    ASSUME TurnSafe, PunchSafe', NEW c \in Calls, ResolveLog(c)
    PROVE  TurnSafe'
<1>1. /\ call[c].pc = "start" /\ UNCHANGED <<now, log, break>> /\ ~Holds(call[c])
      /\ call[c] \in CallState /\ TurnKnows(call[c]) /\ call[c].target = Null
      /\ call[c].op \in {"clock_out", "break_start", "break_end"}
  BY AtWork DEF ResolveLog, Holds, TurnKnows
<1>2. CASE Refuse(c)
  BY <1>1, <1>2, EndInTurn
<1>3. ASSUME NEW l \in LatestLogs(OpenLogs(call[c].employee)),
             call' = [call EXCEPT ![c].pc = "breaks", ![c].log = l]
      PROVE  TurnSafe'
  <2>1. l \in Logs /\ log[l].employee = call[c].employee /\ log[l].clockOut = Null
    BY DEF LatestLogs, OpenLogs
  <2>2. PICK q : q = [call[c] EXCEPT !.pc = "breaks", !.log = l]
    OBVIOUS
  <2>3. /\ q \in CallState /\ q.pc = "breaks" /\ q.op = call[c].op /\ q.employee = call[c].employee
        /\ q.at = call[c].at /\ q.batch = call[c].batch /\ q.sync = call[c].sync
        /\ q.target = call[c].target /\ q.log = l
        /\ call' = [call EXCEPT ![c] = q]
    <3>1. /\ q \in CallState /\ q.pc = "breaks" /\ q.op = call[c].op /\ q.employee = call[c].employee
          /\ q.at = call[c].at /\ q.batch = call[c].batch /\ q.sync = call[c].sync
          /\ q.target = call[c].target /\ q.log = l
      BY <1>1, <2>1, <2>2 DEF CallState, Pc
    <3>2. call' = [call EXCEPT ![c] = q]
      BY <1>3, <2>2 DEF TurnSafe, PunchSafe, TypeOK
    <3>3. QED
      BY <3>1, <3>2
  <2>4. Punctual(q) /\ Follows(q) /\ OnOpenLog(q)
    BY <1>1, <2>1, <2>3 DEF TurnKnows, Punctual, Follows, OnOpenLog
  <2>5. TurnKnows(q)
    BY <1>1, <2>3, <2>4 DEF TurnKnows, Holds
  <2>6. QED
    BY <1>1, <2>3, <2>5, MoveInTurn
<1>4. QED
  BY <1>1, <1>2, <1>3 DEF ResolveLog

LEMMA FindBreakInTurn ==
    ASSUME TurnSafe, PunchSafe', NEW c \in Calls, FindBreak(c)
    PROVE  TurnSafe'
<1>1. /\ call[c].pc = "breaks" /\ UNCHANGED <<now, log, break>> /\ ~Holds(call[c])
      /\ call[c] \in CallState /\ TurnKnows(call[c]) /\ OnOpenLog(call[c])
      /\ call[c].op \in {"clock_out", "break_start", "break_end"} /\ call[c].log \in Logs
      /\ break \in [Breaks -> BreakRow]
  BY AtWork DEF FindBreak, Holds, TurnKnows, Serves, PunchKnows
<1>2. CASE Refuse(c)
  BY <1>1, <1>2, EndInTurn
<1>3. ASSUME NEW at \in {"newbreak", "close"},
             OpenBreaks(call[c].log) = {}, call' = [call EXCEPT ![c].pc = at]
      PROVE  TurnSafe'
  <2>1. PICK q : q = [call[c] EXCEPT !.pc = at]
    OBVIOUS
  <2>2. /\ q \in CallState /\ q.pc = at /\ q.op = call[c].op /\ q.employee = call[c].employee
        /\ q.at = call[c].at /\ q.batch = call[c].batch /\ q.sync = call[c].sync
        /\ q.target = call[c].target /\ q.log = call[c].log
        /\ call' = [call EXCEPT ![c] = q]
    BY <1>1, <1>3, <2>1 DEF CallState, Pc
  <2>3. Punctual(q) /\ Follows(q) /\ OnOpenLog(q)
    BY <1>1, <2>2 DEF TurnKnows, Punctual, Follows, OnOpenLog
  <2>4. TurnKnows(q)
    BY <1>1, <1>3, <2>2, <2>3 DEF TurnKnows, Holds
  <2>5. QED
    BY <1>1, <2>2, <2>4, MoveInTurn
<1>4. ASSUME NEW b \in LatestBreaks(OpenBreaks(call[c].log)),
             call' = [call EXCEPT ![c].pc = "endbreak", ![c].brk = b]
      PROVE  TurnSafe'
  <2>1. b \in Breaks /\ b \in OpenBreaks(call[c].log) /\ OpenBreaks(call[c].log) \subseteq {b}
    BY <1>1 DEF LatestBreaks, OpenBreaks, TurnSafe, RowsInTurn, OneOpenBreak
  <2>2. PICK q : q = [call[c] EXCEPT !.pc = "endbreak", !.brk = b]
    OBVIOUS
  <2>3. /\ q \in CallState /\ q.pc = "endbreak" /\ q.op = call[c].op /\ q.employee = call[c].employee
        /\ q.at = call[c].at /\ q.batch = call[c].batch /\ q.sync = call[c].sync
        /\ q.target = call[c].target /\ q.log = call[c].log /\ q.brk = b
        /\ call' = [call EXCEPT ![c] = q]
    <3>1. /\ q \in CallState /\ q.pc = "endbreak" /\ q.op = call[c].op /\ q.employee = call[c].employee
          /\ q.at = call[c].at /\ q.batch = call[c].batch /\ q.sync = call[c].sync
          /\ q.target = call[c].target /\ q.log = call[c].log /\ q.brk = b
      BY <1>1, <2>1, <2>2 DEF CallState, Pc
    <3>2. call' = [call EXCEPT ![c] = q]
      BY <1>4, <2>2 DEF TurnSafe, PunchSafe, TypeOK
    <3>3. QED
      BY <3>1, <3>2
  <2>4. Punctual(q) /\ Follows(q) /\ OnOpenLog(q)
    BY <1>1, <2>3 DEF TurnKnows, Punctual, Follows, OnOpenLog
  <2>5. TurnKnows(q)
    BY <1>1, <2>1, <2>3, <2>4 DEF TurnKnows, Holds
  <2>6. QED
    BY <1>1, <2>3, <2>5, MoveInTurn
<1>5. CASE LatestBreaks(OpenBreaks(call[c].log)) = {} /\ ~Refuse(c)
  <2>1. OpenBreaks(call[c].log) = {}
    <3>1. \A a \in OpenBreaks(call[c].log) : a \in LatestBreaks(OpenBreaks(call[c].log))
      <4>1. \A a \in OpenBreaks(call[c].log) : a \in Breaks /\ break[a].start \in Int
        BY <1>1, AttendanceAssumption DEF OpenBreaks, BreakRow, Time
      <4>2. QED
        BY <1>1, <4>1 DEF LatestBreaks, TurnSafe, RowsInTurn, OneOpenBreak
    <3>2. QED
      BY <1>5, <3>1
  <2>2. QED
    BY <1>1, <1>3, <1>5, <2>1 DEF FindBreak, Goto
<1>6. QED
  BY <1>2, <1>4, <1>5 DEF FindBreak

LEMMA RaisingInTurn ==
    ASSUME NEW p \in CallState, NEW todo \in Seq(AnomalyType), p.op # "delete" => p.target = Null,
           Punctual(p), now' = now, now \in Int, 0 <= now, p.log \in Logs, log'[p.log].status # "none",
           Follows(p)', p.op = "clock_in" => OnlyItsLog(p)'
    PROVE  LET q == Raising(p, todo)
           IN  /\ q \in CallState /\ q.pc # "dead"
               /\ q.pc \notin {"idle", "done", "dead"} => q.employee = p.employee /\ TurnKnows(q)'
               /\ p.sync /\ p.op = "clock_in" => q.sync /\ Holds(q) /\ q.log = p.log
<1>1. PICK q : q = Raising(p, todo)
  OBVIOUS
<1>2. q \in CallState
  BY <1>1, RaisingTyped
<1>3. ASSUME NEW pc \in {"raise", "source"}, NEW left, q = [p EXCEPT !.pc = pc, !.todo = left],
             pc = "source" => p.op = "clock_in"
      PROVE  /\ q.pc = pc /\ q.employee = p.employee /\ TurnKnows(q)'
             /\ p.sync /\ p.op = "clock_in" => q.sync /\ Holds(q) /\ q.log = p.log
  <2>1. /\ q.pc = pc /\ q.op = p.op /\ q.employee = p.employee /\ q.at = p.at /\ q.batch = p.batch
        /\ q.sync = p.sync /\ q.target = p.target /\ q.log = p.log
    BY <1>3 DEF CallState
  <2>2. Punctual(q)' /\ Follows(q)' /\ (OnlyItsLog(p)' => OnlyItsLog(q)')
    BY <2>1 DEF Punctual, Follows, OnlyItsLog, OnOpenLog
  <2>3. TurnKnows(q)'
    BY <1>3, <2>1, <2>2 DEF TurnKnows, Serves, Holds
  <2>4. QED
    BY <2>1, <2>3 DEF Holds
<1>4. CASE todo # <<>>
  <2>1. q = [p EXCEPT !.pc = "raise", !.todo = todo]
    BY <1>1, <1>4 DEF Raising
  <2>2. QED
    BY <1>1, <1>2, <1>3, <2>1
<1>5. CASE todo = <<>> /\ p.sync /\ p.op = "clock_in"
  <2>1. q = [p EXCEPT !.pc = "source"]
    BY <1>1, <1>5 DEF Raising, AfterAnomalies
  <2>2. q = [p EXCEPT !.pc = "source", !.todo = p.todo]
    BY <2>1 DEF CallState
  <2>3. QED
    BY <1>1, <1>2, <1>3, <1>5, <2>2
<1>6. CASE todo = <<>> /\ ~(p.sync /\ p.op = "clock_in")
  <2>1. q = Ended(p, FALSE)
    BY <1>1, <1>6 DEF Raising, AfterAnomalies
  <2>2. q.pc = "done" \/ (q.pc = "next" /\ q.employee = p.employee /\ TurnKnows(q)')
    BY <2>1, EndedInTurn
  <2>3. QED
    BY <1>1, <1>2, <1>6, <2>2
<1>7. QED
  BY <1>4, <1>5, <1>6

\* A step about e that writes rows.
LEMMA WriteInTurn ==
    ASSUME TurnSafe, PunchSafe', NEW c \in Calls, call[c].pc \notin {"idle", "done", "dead"},
           NEW q \in CallState, call' = [call EXCEPT ![c] = q],
           q.pc \notin {"idle", "done", "dead"} => q.employee = call[c].employee /\ TurnKnows(q)',
           OthersKept(call[c].employee), RowsInTurn'
    PROVE  TurnSafe'
<1>1. PICK e \in Employees :
         e = call[c].employee /\ \A d \in Calls : d # c /\ Active(d) => call[d].employee # e
  BY AtWork, Zenon
<1>2. q.pc \notin {"idle", "done", "dead"} => q.employee = e /\ TurnKnows(q)'
  BY <1>1
<1>3. OthersKept(e)
  BY <1>1
<1>4. \A d \in Calls : d # c /\ Active(d) => call[d].employee # e
  BY <1>1
<1>5. QED
  BY <1>2, <1>3, <1>4, TurnGlue, Zenon

\* Nobody dies in a step that leaves c with locals that have not.
LEMMA NobodyDies ==
    ASSUME PunchSafe, NEW c \in Calls, NEW q \in CallState, call' = [call EXCEPT ![c] = q],
           call[c].pc # "dead"
    PROVE  (\A d \in Calls : call'[d].pc # "dead") => (\A d \in Calls : call[d].pc # "dead")
<1>1. \A d \in Calls : call'[d] = IF d = c THEN q ELSE call[d]
  BY DEF PunchSafe, TypeOK
<1>2. QED
  BY <1>1

\* The step that leaves times and breaks as they are.
LEMMA RowsAsTheyWere ==
    ASSUME TurnSafe, NEW e, now' = now, break' = break,
           \A l \in Logs : /\ log'[l].employee = log[l].employee /\ log'[l].clockIn = log[l].clockIn
                           /\ log'[l].clockOut = log[l].clockOut /\ Exists(l)' = Exists(l)
                           /\ log'[l].flushed = log[l].flushed
                           /\ log[l].status # "none" => log'[l].status # "none"
    PROVE  /\ OthersKept(e) /\ BreaksPlaced' /\ OneOpenBreak' /\ Past' /\ OneOpenLog' /\ NoDanglingBreak'
           /\ \A d \in Employees : OpenLogs(d)' = OpenLogs(d)
<1>1. OthersKept(e) /\ \A d \in Employees : OpenLogs(d)' = OpenLogs(d)
  BY DEF OthersKept, OpenBreaks, OpenLogs, Exists
<1>2. BreaksPlaced' /\ OneOpenBreak' /\ Past' /\ OneOpenLog' /\ NoDanglingBreak'
  BY DEF TurnSafe, RowsInTurn, BreaksPlaced, OneOpenBreak, OpenBreaks, Past, OneOpenLog, NoDanglingBreak
<1>3. QED
  BY <1>1, <1>2

LEMMA FlagInTurn ==
    ASSUME TurnSafe, PunchSafe', NEW c \in Calls, FlagLog(c)
    PROVE  TurnSafe'
<1>1. PICK p : p = call[c]
  OBVIOUS
<1>2. /\ p \in CallState /\ p.pc = "flag" /\ TurnKnows(p) /\ p.log \in Logs /\ log[p.log].status # "none"
      /\ p.todo # <<>> /\ p.employee \in Employees /\ UNCHANGED <<now, break>>
      /\ now \in Int /\ 0 <= now /\ log \in [Logs -> LogRow] /\ PunchSafe
  BY <1>1, AtWork DEF FlagLog, PunchKnows, TurnSafe
<1>3. PICK todo \in Seq(AnomalyType) : todo = Tail(p.todo)
  <2>1. Tail(p.todo) \in Seq(AnomalyType)
    BY <1>2 DEF CallState
  <2>2. QED
    BY <2>1
<1>4. PICK q : q = Raising(p, todo)
  OBVIOUS
<1>5. call' = [call EXCEPT ![c] = q]
  BY <1>1, <1>3, <1>4 DEF FlagLog
<1>6. \A l \in Logs : /\ log'[l].employee = log[l].employee /\ log'[l].clockIn = log[l].clockIn
                      /\ log'[l].clockOut = log[l].clockOut /\ Exists(l)' = Exists(l)
                      /\ log'[l].flushed = log[l].flushed
                      /\ log'[l].source = log[l].source
                      /\ log[l].status # "none" => log'[l].status # "none"
  <2>1. CASE Exists(p.log)
    BY <1>1, <1>2, <2>1 DEF FlagLog, LogRow, Exists
  <2>2. CASE ~Exists(p.log)
    BY <1>1, <2>2 DEF FlagLog, Exists
  <2>3. QED
    BY <2>1, <2>2
<1>7. /\ OthersKept(p.employee) /\ BreaksPlaced' /\ OneOpenBreak' /\ Past' /\ OneOpenLog'
      /\ NoDanglingBreak' /\ OpenLogs(p.employee)' = OpenLogs(p.employee)
  BY <1>2, <1>6, RowsAsTheyWere
<1>8. Punctual(p) /\ Follows(p)' /\ (p.op # "delete" => p.target = Null)
  BY <1>2, <1>6 DEF TurnKnows, Follows
<1>9. p.op = "clock_in" => OnlyItsLog(p)'
  BY <1>2, <1>6, <1>7 DEF TurnKnows, Holds, OnlyItsLog, OnOpenLog
<1>10. /\ q \in CallState /\ q.pc # "dead"
       /\ q.pc \notin {"idle", "done", "dead"} => q.employee = p.employee /\ TurnKnows(q)'
       /\ p.sync /\ p.op = "clock_in" => q.sync /\ Holds(q) /\ q.log = p.log
  BY <1>2, <1>4, <1>6, <1>8, <1>9, RaisingInTurn
<1>11. SpansApart'
  <2>1. \A l \in Logs : InHand(l) => InHand(l)'
    BY <1>1, <1>2, <1>5, <1>10, InHandAfter DEF Holds
  <2>2. (\A d \in Calls : call'[d].pc # "dead") => (\A d \in Calls : call[d].pc # "dead")
    BY <1>1, <1>2, <1>5, <1>10, NobodyDies
  <2>3. QED
    BY <1>2, <1>6, <2>1, <2>2, ApartKept DEF TurnSafe, RowsInTurn
<1>12. QED
  BY <1>1, <1>2, <1>5, <1>7, <1>10, <1>11, WriteInTurn DEF RowsInTurn

LEMMA StampInTurn ==
    ASSUME TurnSafe, PunchSafe', NEW c \in Calls, StampSource(c)
    PROVE  TurnSafe'
<1>1. PICK p : p = call[c]
  OBVIOUS
<1>2. /\ p \in CallState /\ p.pc = "stamp" /\ TurnKnows(p) /\ p.log \in Logs /\ log[p.log].status # "none"
      /\ p.employee \in Employees /\ UNCHANGED <<now, break>>
      /\ now \in Int /\ 0 <= now /\ log \in [Logs -> LogRow] /\ PunchSafe
  BY <1>1, AtWork DEF StampSource, PunchKnows, TurnSafe
<1>3. PICK q : q = Ended(p, FALSE)
  OBVIOUS
<1>4. call' = [call EXCEPT ![c] = q]
  BY <1>1, <1>3 DEF StampSource, Answer
<1>5. /\ q \in CallState /\ q.pc \in {"done", "next"}
      /\ q.pc = "next" => q.employee = p.employee /\ TurnKnows(q)'
  BY <1>2, <1>3, EndedInTurn DEF TurnKnows
<1>6. \A l \in Logs : /\ log'[l].employee = log[l].employee /\ log'[l].clockIn = log[l].clockIn
                      /\ log'[l].clockOut = log[l].clockOut /\ Exists(l)' = Exists(l)
                      /\ log'[l].flushed = log[l].flushed
                      /\ log[l].status # "none" => log'[l].status # "none"
                      /\ l # p.log => log'[l].source = log[l].source
                      /\ l = p.log /\ Exists(l) => log'[l].source = "offline_sync"
  <2>1. CASE Exists(p.log)
    BY <1>1, <1>2, <2>1 DEF StampSource, LogRow, Exists
  <2>2. CASE ~Exists(p.log)
    BY <1>1, <2>2 DEF StampSource, Exists
  <2>3. QED
    BY <2>1, <2>2
<1>7. /\ OthersKept(p.employee) /\ BreaksPlaced' /\ OneOpenBreak' /\ Past' /\ OneOpenLog'
      /\ NoDanglingBreak'
  BY <1>2, <1>6, RowsAsTheyWere
<1>8. SpansApart'
  <2>1. \A l \in Logs : InHand(l) => InHand(l)' \/ l = p.log
    BY <1>1, <1>2, <1>4, <1>5, InHandAfter
  <2>2. (\A d \in Calls : call'[d].pc # "dead") => (\A d \in Calls : call[d].pc # "dead")
    BY <1>1, <1>2, <1>4, <1>5, NobodyDies
  <2>3. QED
    BY <1>2, <1>6, <2>1, <2>2, ApartKept DEF TurnSafe, RowsInTurn
<1>9. QED
  BY <1>1, <1>2, <1>4, <1>5, <1>7, <1>8, WriteInTurn DEF RowsInTurn

LEMMA InsertInTurn ==
    ASSUME TurnSafe, PunchSafe', NEW c \in Calls, NEW l \in Logs, ClockInInsert(c, l)
    PROVE  TurnSafe'
<1>1. /\ call[c].pc = "insert" /\ log[l] = NoLog /\ UNCHANGED <<now, break>> /\ PunchSafe
      /\ log \in [Logs -> LogRow] /\ call[c] \in CallState
      /\ TurnKnows(call[c]) /\ call[c].employee \in Employees /\ now \in Int /\ 0 <= now
  BY AtWork DEF ClockInInsert, TurnSafe
<1>2. PICK e, at : e = call[c].employee /\ at = call[c].at
  OBVIOUS
<1>3. PICK paired \in BOOLEAN, todo \in Seq(AnomalyType) :
         /\ log' = [log EXCEPT ![l] = [status |-> "open", employee |-> e, clockIn |-> at,
                                       clockOut |-> Null, source |-> "online", paired |-> paired,
                                       flushed |-> FALSE]]
         /\ call' = [call EXCEPT ![c] = Raising([@ EXCEPT !.log = l], todo)]
  <2>1. PICK paired \in Pairings(e, at) :
           /\ log' = [log EXCEPT ![l] = [status |-> "open", employee |-> e, clockIn |-> at,
                                         clockOut |-> Null, source |-> "online", paired |-> paired,
                                         flushed |-> FALSE]]
           /\ call' = [call EXCEPT ![c] = Raising([@ EXCEPT !.log = l],
                                                  IF IsLate(e, paired, at) THEN <<"late">> ELSE <<>>)]
    BY <1>2 DEF ClockInInsert
  <2>2. paired \in BOOLEAN
    BY DEF Pairings, Paired
  <2>3. <<"late">> \in Seq(AnomalyType) /\ <<>> \in Seq(AnomalyType)
    BY DEF AnomalyType
  <2>4. (IF IsLate(e, paired, at) THEN <<"late">> ELSE <<>>) \in Seq(AnomalyType)
    BY <2>3
  <2>5. QED
    BY <2>1, <2>2, <2>4
<1>4. PICK p : p = [call[c] EXCEPT !.log = l]
  OBVIOUS
<1>5. /\ p \in CallState /\ p.log = l /\ p.op = "clock_in" /\ p.employee = e /\ p.at = at
      /\ p.batch = call[c].batch /\ p.sync = call[c].sync /\ p.target = Null
  BY <1>1, <1>2, <1>4 DEF CallState, TurnKnows
<1>6. PICK q : q = Raising(p, todo)
  OBVIOUS
<1>7. call' = [call EXCEPT ![c] = q]
  BY <1>3, <1>4, <1>6
<1>8. /\ log'[l].status = "open" /\ log'[l].employee = e /\ log'[l].clockIn = at
      /\ log'[l].clockOut = Null
      /\ \A m \in Logs : m # l => log'[m] = log[m]
      /\ log[l].status = "none"
  BY <1>1, <1>3 DEF NoLog
<1>9. OpenLogs(e) = {} /\ OpenLogs(e)' \subseteq {l}
  BY <1>1, <1>2, <1>8 DEF TurnKnows, OpenLogs, Exists
<1>10. Punctual(p) /\ Follows(p)' /\ OnlyItsLog(p)'
  BY <1>1, <1>2, <1>5, <1>8, <1>9 DEF TurnKnows, Punctual, Follows, OnlyItsLog, OnOpenLog, Exists
<1>11. /\ q \in CallState /\ q.pc # "dead"
       /\ q.pc \notin {"idle", "done", "dead"} => q.employee = p.employee /\ TurnKnows(q)'
       /\ p.sync => q.sync /\ Holds(q) /\ q.log = l
  BY <1>1, <1>5, <1>6, <1>8, <1>10, RaisingInTurn
<1>12. OthersKept(e)
  BY <1>1, <1>8 DEF OthersKept, Exists, OpenBreaks
<1>13. BreaksPlaced' /\ OneOpenBreak' /\ Past' /\ OneOpenLog' /\ NoDanglingBreak'
  <2>1. BreaksPlaced' /\ OneOpenBreak' /\ Past' /\ NoDanglingBreak'
    BY <1>1, <1>8 DEF TurnSafe, RowsInTurn, BreaksPlaced, OneOpenBreak, OpenBreaks, Past, Exists,
                      NoDanglingBreak
  <2>2. OneOpenLog'
    BY <1>8, <1>9 DEF TurnSafe, RowsInTurn, OneOpenLog, OpenLogs, Exists
  <2>3. QED
    BY <2>1, <2>2
<1>14. SpansApart'
  <2>1. (\A d \in Calls : call'[d].pc # "dead") => (\A d \in Calls : call[d].pc # "dead")
    BY <1>1, <1>7, <1>11, NobodyDies
  <2>2. \A m : InHand(m) => InHand(m)'
    BY <1>1, <1>7, <1>11, InHandAfter DEF Holds
  <2>3. CASE p.sync
    <3>1. InHand(l)'
      BY <1>1, <1>7, <1>11, <2>3, InHandAfter
    <3>2. QED
      BY <1>1, <1>8, <2>1, <2>2, <3>1, ApartKept DEF TurnSafe, RowsInTurn, Exists
  <2>4. CASE ~p.sync
    <3>1. ASSUME NEW m \in Logs, m # l, Exists(m)', log'[m].employee = e, ~log'[m].flushed
          PROVE  Ends(m)' <= at
      <4>1. Exists(m) /\ log[m].employee = e /\ log[m].clockOut # Null /\ ~log[m].flushed
        BY <1>8, <1>9, <3>1 DEF Exists, OpenLogs
      <4>2. log[m].clockOut <= at
        BY <1>1, <1>2, <1>5, <2>4, <4>1 DEF TurnKnows, Follows
      <4>3. QED
        BY <1>8, <3>1, <4>1, <4>2 DEF Ends
    <3>2. SUFFICES ASSUME \A d \in Calls : call'[d].pc # "dead", NEW d \in Employees,
                          NEW x \in Logs, NEW y \in Logs, x \in Online(d)', y \in Online(d)', x # y,
                          ~InHand(x)', ~InHand(y)'
                   PROVE  Apart(x, y)'
      BY DEF SpansApart, Online
    <3>3. CASE x = l
      BY <1>8, <3>1, <3>2, <3>3 DEF Online, Apart
    <3>4. CASE y = l
      BY <1>8, <3>1, <3>2, <3>4 DEF Online, Apart
    <3>5. CASE x # l /\ y # l
      <4>1. /\ log'[x] = log[x] /\ log'[y] = log[y] /\ x \in Online(d) /\ y \in Online(d)
            /\ ~InHand(x) /\ ~InHand(y)
        BY <1>8, <2>2, <3>2, <3>5 DEF Online, Exists
      <4>2. Apart(x, y)
        BY <2>1, <3>2, <4>1 DEF TurnSafe, RowsInTurn, SpansApart
      <4>3. QED
        BY <4>1, <4>2 DEF Apart, Ends
    <3>6. QED
      BY <3>3, <3>4, <3>5
  <2>5. QED
    BY <2>3, <2>4
<1>15. QED
  BY <1>1, <1>2, <1>5, <1>7, <1>11, <1>12, <1>13, <1>14, WriteInTurn DEF RowsInTurn

LEMMA BreakInTurn ==
    ASSUME TurnSafe, PunchSafe', NEW c \in Calls, EndBreak(c)
    PROVE  TurnSafe'
<1>1. PICK p, b, at : p = call[c] /\ b = call[c].brk /\ at = call[c].at
  OBVIOUS
<1>2. /\ p \in CallState /\ p.pc = "endbreak" /\ TurnKnows(p) /\ p.log \in Logs /\ ~Holds(p)
      /\ p.employee \in Employees /\ b \in Breaks /\ UNCHANGED <<now, log>> /\ at \in Int
      /\ now \in Int /\ 0 <= now /\ break \in [Breaks -> BreakRow] /\ PunchSafe
      /\ OpenBreaks(p.log) \subseteq {b} /\ Punctual(p) /\ Follows(p) /\ OnOpenLog(p)
      /\ p.op # "delete" => p.target = Null
  BY <1>1, AtWork DEF EndBreak, PunchKnows, TurnKnows, TurnSafe, Holds, Serves
<1>3. CASE ~WholeMinutes(break[b].start, at)
  BY <1>1, <1>2, <1>3, EndInTurn DEF EndBreak
<1>4. CASE WholeMinutes(break[b].start, at)
  <2>1. break' = IF break[b].state = "present" THEN [break EXCEPT ![b].end = at] ELSE break
    BY <1>1, <1>4 DEF EndBreak
  <2>2. /\ \A d \in Breaks : d # b => break'[d] = break[d]
        /\ break'[b].state = break[b].state /\ break'[b].log = break[b].log
        /\ break[b].state = "present" => break'[b].end = at
        /\ break[b].state # "present" => break'[b] = break[b]
    BY <1>2, <2>1 DEF BreakRow
  <2>3. at # Null
    BY <1>2, AttendanceAssumption
  <2>4. \A l \in Logs : OpenBreaks(l)' \subseteq OpenBreaks(l) /\ b \notin OpenBreaks(l)'
    BY <2>2, <2>3 DEF OpenBreaks
  <2>5. OpenBreaks(p.log)' = {}
    BY <1>2, <2>4
  <2>6. OthersKept(p.employee)
    BY <1>2, <2>4 DEF OthersKept, Exists
  <2>7. BreaksPlaced' /\ OneOpenBreak' /\ Past' /\ OneOpenLog'
    BY <1>2, <2>2, <2>4 DEF TurnSafe, RowsInTurn, BreaksPlaced, OneOpenBreak, Past, Exists, OneOpenLog
  <2>8. NoDanglingBreak'
    BY <1>2, <2>2, <2>3 DEF TurnSafe, RowsInTurn, NoDanglingBreak
  <2>9. PICK q \in CallState : /\ call' = [call EXCEPT ![c] = q] /\ q.pc # "dead"
                               /\ q.pc # "done" => q.employee = p.employee /\ TurnKnows(q)'
    <3>1. CASE p.op = "clock_out"
      <4>1. PICK q : q = [p EXCEPT !.pc = "close"]
        OBVIOUS
      <4>2. /\ q \in CallState /\ q.pc = "close" /\ q.op = p.op /\ q.employee = p.employee /\ q.at = p.at
            /\ q.batch = p.batch /\ q.sync = p.sync /\ q.target = p.target /\ q.log = p.log
        BY <1>2, <4>1 DEF CallState, Pc
      <4>3. Punctual(q)' /\ Follows(q)' /\ OnOpenLog(q)'
        BY <1>2, <4>2 DEF Punctual, Follows, OnOpenLog, Exists
      <4>4. TurnKnows(q)'
        BY <1>2, <2>5, <4>2, <4>3 DEF TurnKnows, Holds
      <4>5. call' = [call EXCEPT ![c] = q]
        BY <1>1, <1>2, <1>4, <3>1, <4>1 DEF EndBreak, Goto, TurnSafe, PunchSafe, TypeOK
      <4>6. QED
        BY <4>2, <4>4, <4>5
    <3>2. CASE p.op # "clock_out"
      <4>1. PICK q : q = Ended(p, FALSE)
        OBVIOUS
      <4>2. call' = [call EXCEPT ![c] = q]
        BY <1>1, <1>4, <3>2, <4>1 DEF EndBreak, Answer
      <4>3. q \in CallState /\ (q.pc = "done" \/ (q.pc = "next" /\ q.employee = p.employee /\ TurnKnows(q)'))
        BY <1>2, <4>1, EndedInTurn
      <4>4. QED
        BY <4>2, <4>3
    <3>3. QED
      BY <3>1, <3>2
  <2>10. SpansApart'
    <3>1. \A l \in Logs : InHand(l) => InHand(l)'
      BY <1>1, <1>2, <2>9, InHandAfter
    <3>2. (\A d \in Calls : call'[d].pc # "dead") => (\A d \in Calls : call[d].pc # "dead")
      BY <1>1, <1>2, <2>9, NobodyDies
    <3>3. QED
      BY <1>2, <3>1, <3>2, ApartKept DEF TurnSafe, RowsInTurn, Exists
  <2>11. QED
    BY <1>1, <1>2, <2>6, <2>7, <2>8, <2>9, <2>10, WriteInTurn DEF RowsInTurn
<1>5. QED
  BY <1>3, <1>4

LEMMA StartBreakInTurn ==
    ASSUME TurnSafe, PunchSafe', NEW c \in Calls, NEW b \in Breaks, StartBreak(c, b)
    PROVE  TurnSafe'
<1>1. PICK p : p = call[c]
  OBVIOUS
<1>2. /\ p \in CallState /\ p.pc = "newbreak" /\ TurnKnows(p) /\ p.log \in Logs /\ ~Holds(p)
      /\ p.employee \in Employees /\ UNCHANGED <<now, log>> /\ break[b] = NoBreak
      /\ now \in Int /\ 0 <= now /\ break \in [Breaks -> BreakRow] /\ PunchSafe
      /\ OpenBreaks(p.log) = {} /\ Punctual(p) /\ OnOpenLog(p)
  BY <1>1, AtWork DEF StartBreak, PunchKnows, TurnKnows, TurnSafe, Holds, Serves
<1>3. CASE ~Exists(p.log)
  BY <1>1, <1>2, <1>3, EndInTurn DEF StartBreak
<1>4. CASE Exists(p.log)
  <2>1. break' = [break EXCEPT ![b] = [state |-> "present", log |-> p.log, start |-> p.at, end |-> Null]]
    BY <1>1, <1>4 DEF StartBreak
  <2>2. /\ \A d \in Breaks : d # b => break'[d] = break[d]
        /\ break'[b].state = "present" /\ break'[b].log = p.log
    BY <1>2, <2>1
  <2>3. /\ log[p.log].employee = p.employee /\ log[p.log].clockOut = Null
    BY <1>2, <1>4 DEF OnOpenLog
  <2>4. \A l \in Logs : OpenBreaks(l)' \subseteq IF l = p.log THEN {b} ELSE OpenBreaks(l)
    BY <1>2, <2>2 DEF OpenBreaks
  <2>5. OthersKept(p.employee)
    BY <1>2, <1>4, <2>3, <2>4 DEF OthersKept, Exists
  <2>6. BreaksPlaced' /\ OneOpenBreak' /\ Past' /\ OneOpenLog'
    BY <1>2, <2>2, <2>4 DEF TurnSafe, RowsInTurn, BreaksPlaced, OneOpenBreak, Past, Exists, OneOpenLog
  <2>7. NoDanglingBreak'
    BY <1>2, <2>2, <2>3 DEF TurnSafe, RowsInTurn, NoDanglingBreak
  <2>8. PICK q : q = Ended(p, FALSE)
    OBVIOUS
  <2>9. call' = [call EXCEPT ![c] = q]
    BY <1>1, <1>4, <2>8 DEF StartBreak, Answer
  <2>10. q \in CallState /\ (q.pc = "done" \/ (q.pc = "next" /\ q.employee = p.employee /\ TurnKnows(q)'))
    BY <1>2, <2>8, EndedInTurn
  <2>11. SpansApart'
    <3>1. \A l \in Logs : InHand(l) => InHand(l)'
      BY <1>1, <1>2, <2>9, <2>10, InHandAfter
    <3>2. (\A d \in Calls : call'[d].pc # "dead") => (\A d \in Calls : call[d].pc # "dead")
      BY <1>1, <1>2, <2>9, <2>10, NobodyDies
    <3>3. QED
      BY <1>2, <3>1, <3>2, ApartKept DEF TurnSafe, RowsInTurn, Exists
  <2>12. QED
    BY <1>1, <1>2, <2>5, <2>6, <2>7, <2>9, <2>10, <2>11, WriteInTurn DEF RowsInTurn
<1>5. QED
  BY <1>3, <1>4

LEMMA CloseInTurn ==
    ASSUME TurnSafe, PunchSafe', NEW c \in Calls, CloseLog(c)
    PROVE  TurnSafe'
<1>1. PICK p : p = call[c]
  OBVIOUS
<1>2. /\ p \in CallState /\ p.pc = "close" /\ p.op = "clock_out" /\ TurnKnows(p) /\ p.log \in Logs
      /\ ~Holds(p) /\ p.employee \in Employees /\ UNCHANGED <<now, break>>
      /\ now \in Int /\ 0 <= now /\ log \in [Logs -> LogRow] /\ PunchSafe /\ p.at \in Int
      /\ OpenBreaks(p.log) = {} /\ Punctual(p) /\ Follows(p) /\ OnOpenLog(p) /\ p.target = Null
  BY <1>1, AtWork DEF CloseLog, PunchKnows, TurnKnows, TurnSafe, Holds, Serves
<1>3. CASE ~Exists(p.log)
  BY <1>1, <1>2, <1>3, EndInTurn DEF CloseLog
<1>4. CASE Exists(p.log)
  <2>1. PICK row, todo : /\ row = [log[p.log] EXCEPT !.clockOut = p.at, !.status = "closed",
                                                !.flushed = @ \/ p.sync]
                         /\ todo = OnClose(row)
    OBVIOUS
  <2>2. log' = [log EXCEPT ![p.log] = row] /\ call' = [call EXCEPT ![c] = Raising(p, todo)]
    BY <1>1, <1>4, <2>1 DEF CloseLog
  <2>3. todo \in Seq(AnomalyType)
    <3>1. /\ <<"early_leave">> \in Seq(AnomalyType) /\ <<"over_hours">> \in Seq(AnomalyType)
          /\ <<>> \in Seq(AnomalyType)
      BY DEF AnomalyType
    <3>2. PICK s, t \in Seq(AnomalyType) : todo = s \o t
      BY <2>1, <3>1, Zenon DEF OnClose
    <3>3. QED
      BY <3>2
  <2>4. /\ log[p.log] \in LogRow /\ log[p.log].employee = p.employee /\ log[p.log].clockOut = Null
    BY <1>2, <1>4 DEF OnOpenLog
  <2>5. /\ row.status = "closed" /\ row.clockIn = log[p.log].clockIn /\ row.clockOut = p.at
        /\ row.employee = p.employee /\ row.source = log[p.log].source /\ row.flushed = (log[p.log].flushed \/ p.sync)
    BY <2>1, <2>4 DEF LogRow
  <2>6. log'[p.log] = row /\ \A m \in Logs : m # p.log => log'[m] = log[m]
    BY <1>2, <2>2
  <2>7. PICK q : q = Raising(p, todo)
    OBVIOUS
  <2>8. Follows(p)'
    BY <1>2, <2>5, <2>6 DEF Follows, Exists
  <2>9. /\ q \in CallState /\ q.pc # "dead"
        /\ q.pc \notin {"idle", "done", "dead"} => q.employee = p.employee /\ TurnKnows(q)'
    BY <1>2, <2>3, <2>5, <2>6, <2>7, <2>8, RaisingInTurn
  <2>10. OthersKept(p.employee)
    BY <1>2, <1>4, <2>4, <2>5, <2>6 DEF OthersKept, Exists, OpenBreaks
  <2>11. BreaksPlaced' /\ OneOpenBreak' /\ Past' /\ OneOpenLog'
    <3>1. BreaksPlaced' /\ OneOpenBreak'
      BY <1>2 DEF TurnSafe, RowsInTurn, BreaksPlaced, OneOpenBreak, OpenBreaks
    <3>2. row.flushed \/ p.at <= now
      BY <1>2, <2>5 DEF Punctual
    <3>3. Past'
      BY <1>2, <2>5, <2>6, <3>2 DEF TurnSafe, RowsInTurn, Past, Exists
    <3>4. p.at # Null
      BY <1>2, AttendanceAssumption
    <3>5. OneOpenLog'
      BY <2>5, <2>6, <3>4 DEF TurnSafe, RowsInTurn, OneOpenLog, Exists
    <3>6. QED
      BY <3>1, <3>3, <3>5
  <2>12. NoDanglingBreak'
    <3>1. SUFFICES ASSUME NEW b \in Breaks, break[b].state = "present",
                          log'[break[b].log].clockOut # Null
                   PROVE  break[b].end # Null
      BY <1>2 DEF NoDanglingBreak
    <3>2. CASE break[b].log = p.log
      BY <1>2, <3>1, <3>2 DEF OpenBreaks
    <3>3. CASE break[b].log # p.log
      <4>1. break[b].log \in Logs
        BY <3>1 DEF TurnSafe, RowsInTurn, BreaksPlaced
      <4>2. log'[break[b].log] = log[break[b].log]
        BY <2>6, <3>3, <4>1
      <4>3. QED
        BY <3>1, <4>2 DEF TurnSafe, RowsInTurn, NoDanglingBreak
    <3>4. QED
      BY <3>2, <3>3
  <2>13. SpansApart'
    <3>1. \A l \in Logs : InHand(l) => InHand(l)'
      BY <1>1, <1>2, <2>2, <2>7, <2>9, InHandAfter
    <3>2. (\A d \in Calls : call'[d].pc # "dead") => (\A d \in Calls : call[d].pc # "dead")
      BY <1>1, <1>2, <2>2, <2>7, <2>9, NobodyDies
    <3>3. ASSUME NEW l \in Logs, Exists(l)', log'[l].source = "online", ~log'[l].flushed, ~InHand(l)'
          PROVE  /\ Exists(l) /\ log[l].source = "online" /\ ~log[l].flushed /\ ~InHand(l)
                 /\ log'[l].employee = log[l].employee /\ log'[l].clockIn = log[l].clockIn
                 /\ log'[l].clockOut = log[l].clockOut \/ log[l].clockOut = Null
      <4>1. ~InHand(l)
        BY <3>1, <3>3
      <4>2. CASE l = p.log
        BY <1>4, <2>4, <2>5, <2>6, <3>3, <4>1, <4>2
      <4>3. CASE l # p.log
        BY <2>6, <3>3, <4>1, <4>3 DEF Exists
      <4>4. QED
        BY <4>2, <4>3
    <3>4. QED
      BY <3>2, <3>3, ApartKept DEF TurnSafe, RowsInTurn
  <2>14. QED
    BY <1>1, <1>2, <2>2, <2>7, <2>9, <2>10, <2>11, <2>12, <2>13, WriteInTurn DEF RowsInTurn
<1>5. QED
  BY <1>3, <1>4

LEMMA DeleteInTurn ==
    ASSUME TurnSafe, PunchSafe', NEW c \in Calls, DeleteLog(c)
    PROVE  TurnSafe'
<1>1. PICK p, l : p = call[c] /\ l = call[c].target
  OBVIOUS
<1>2. /\ p \in CallState /\ p.pc = "delete" /\ TurnKnows(p) /\ l \in Logs /\ log[l].status # "none"
      /\ ~Holds(p) /\ p.employee \in Employees /\ now' = now
      /\ now \in Int /\ 0 <= now /\ log \in [Logs -> LogRow] /\ PunchSafe /\ Punctual(p)
      /\ break \in [Breaks -> BreakRow]
  BY <1>1, AtWork DEF DeleteLog, PunchKnows, TurnKnows, TurnSafe, Holds
<1>3. /\ log' = [log EXCEPT ![l] = [NoLog EXCEPT !.status = "gone"]]
      /\ break' = [b \in Breaks |-> IF break[b].state = "present" /\ break[b].log = l
                                     THEN [break[b] EXCEPT !.state = "gone"] ELSE break[b]]
  BY <1>1 DEF DeleteLog
<1>4. /\ log'[l].status = "gone" /\ log'[l].clockOut = Null
      /\ \A m \in Logs : m # l => log'[m] = log[m]
  BY <1>2, <1>3 DEF NoLog
<1>5. \A b \in Breaks : break'[b].state = "present" => break'[b] = break[b] /\ break[b].log # l
  <2>1. SUFFICES ASSUME NEW b \in Breaks, break'[b].state = "present"
                 PROVE  break'[b] = break[b] /\ break[b].log # l
    OBVIOUS
  <2>2. CASE break[b].state = "present" /\ break[b].log = l
    <3>1. break'[b].state = "gone"
      BY <1>2, <1>3, <2>2 DEF BreakRow
    <3>2. QED
      BY <2>1, <3>1
  <2>3. CASE ~(break[b].state = "present" /\ break[b].log = l)
    BY <1>3, <2>1, <2>3
  <2>4. QED
    BY <2>2, <2>3
<1>6. \A m \in Logs : OpenBreaks(m)' \subseteq OpenBreaks(m)
  BY <1>5 DEF OpenBreaks
<1>7. OthersKept(p.employee)
  BY <1>2, <1>4, <1>6 DEF OthersKept, Exists
<1>8. BreaksPlaced' /\ OneOpenBreak' /\ Past' /\ OneOpenLog' /\ NoDanglingBreak'
  <2>1. BreaksPlaced' /\ OneOpenBreak'
    BY <1>5, <1>6 DEF TurnSafe, RowsInTurn, BreaksPlaced, OneOpenBreak
  <2>2. Past' /\ OneOpenLog'
    BY <1>2, <1>4 DEF TurnSafe, RowsInTurn, Past, OneOpenLog, Exists
  <2>3. NoDanglingBreak'
    BY <1>4, <1>5, <2>1 DEF TurnSafe, RowsInTurn, NoDanglingBreak, BreaksPlaced
  <2>4. QED
    BY <2>1, <2>2, <2>3
<1>9. PICK q : q = Ended(p, FALSE)
  OBVIOUS
<1>10. call' = [call EXCEPT ![c] = q]
  BY <1>1, <1>9 DEF DeleteLog, Answer
<1>11. q \in CallState /\ (q.pc = "done" \/ (q.pc = "next" /\ q.employee = p.employee /\ TurnKnows(q)'))
  BY <1>2, <1>9, EndedInTurn
<1>12. SpansApart'
  <2>1. \A m : InHand(m) => InHand(m)'
    BY <1>1, <1>2, <1>10, <1>11, InHandAfter
  <2>2. (\A d \in Calls : call'[d].pc # "dead") => (\A d \in Calls : call[d].pc # "dead")
    BY <1>1, <1>2, <1>10, <1>11, NobodyDies
  <2>3. QED
    BY <1>2, <1>4, <2>1, <2>2, ApartKept DEF TurnSafe, RowsInTurn, Exists
<1>13. QED
  BY <1>1, <1>2, <1>7, <1>8, <1>10, <1>11, <1>12, WriteInTurn DEF RowsInTurn

LEMMA CrashInTurn ==
    ASSUME TurnSafe, PunchSafe', NEW c \in Calls, Crash(c)
    PROVE  TurnSafe'
<1>1. PICK q : q = [Fresh EXCEPT !.pc = "dead"]
  OBVIOUS
<1>2. q \in CallState /\ q.pc = "dead"
  BY <1>1, FreshTyped DEF CallState, Pc
<1>3. /\ call[c].pc \notin {"idle", "done", "dead"} /\ call' = [call EXCEPT ![c] = q]
      /\ UNCHANGED <<now, log, break>>
  BY <1>1 DEF Crash, Active
<1>4. QED
  BY <1>2, <1>3, MoveInTurn

LEMMA TickInTurn ==
    ASSUME TurnSafe, PunchSafe', Tick \/ UNCHANGED vars
    PROVE  TurnSafe'
<1>1. UNCHANGED <<log, break, call>> /\ now' \in Int /\ now \in Int /\ now <= now'
  BY AttendanceAssumption DEF Tick, vars, TurnSafe, PunchSafe, TypeOK, Time
<1>2. Alone'
  BY <1>1 DEF TurnSafe, Alone, Active
<1>3. ASSUME NEW c \in Calls, Active(c)' PROVE TurnKnows(call[c])'
  <2>1. PICK p : p = call[c]
    OBVIOUS
  <2>2. call'[c] = p /\ TurnKnows(p) /\ p \in CallState
    BY <1>1, <1>3, <2>1 DEF TurnSafe, PunchSafe, TypeOK, Active
  <2>3. p.at \in Int /\ \A ev \in p.batch : ev.at \in Int
    BY <2>2, AttendanceAssumption DEF CallState, Event, Time
  <2>4. Punctual(p)'
    BY <1>1, <2>2, <2>3 DEF TurnKnows, Punctual
  <2>5. TurnKnows(p)'
    BY <1>1, <2>2, <2>4 DEF TurnKnows, Follows, OnOpenLog, OnlyItsLog, OpenLogs, OpenBreaks, Exists
  <2>6. QED
    BY <2>2, <2>5
<1>4. Past'
  <2>1. SUFFICES ASSUME NEW l \in Logs, Exists(l), log[l].clockOut # Null, ~log[l].flushed
                 PROVE  log[l].clockOut <= now'
    BY <1>1 DEF Past, Exists
  <2>2. log[l].clockOut <= now /\ log[l].clockOut \in Int
    BY <2>1, AttendanceAssumption DEF TurnSafe, RowsInTurn, Past, PunchSafe, TypeOK, LogRow, Time
  <2>3. QED
    BY <1>1, <2>2
<1>5. BreaksPlaced' /\ OneOpenBreak' /\ OneOpenLog' /\ NoDanglingBreak' /\ SpansApart'
  BY <1>1 DEF TurnSafe, RowsInTurn, BreaksPlaced, OneOpenBreak, OpenBreaks, OneOpenLog, NoDanglingBreak,
              SpansApart, Online, InHand, Apart, Ends, Exists
<1>6. QED
  BY <1>2, <1>3, <1>4, <1>5 DEF TurnSafe, RowsInTurn

LEMMA TurnStep ==
    ASSUME Exclusive, ~ByName, ~BackDated, TurnSafe, [Next]_vars
    PROVE  TurnSafe'
<1>1. PunchSafe'
  BY PunchStep DEF TurnSafe
<1>2. CASE Tick \/ UNCHANGED vars
  BY <1>1, <1>2, TickInTurn
<1>3. ASSUME NEW c \in Calls, NEW e \in Employees, Begin(c, e),
             \/ \E op \in PunchKind \cup {"delete"}, target \in Logs \cup {Null}, at \in Time :
                   Punch(c, e, op, target, at)
             \/ \E batch \in Batches : Sync(c, e, batch)
      PROVE  TurnSafe'
  BY <1>1, <1>3, BeginInTurn
<1>4. ASSUME NEW c \in Calls, Proceed(c)
      PROVE  TurnSafe'
  BY <1>1, <1>4, NextEventInTurn, LookInTurn, InsertInTurn, RaiseInTurn, FlagInTurn, FindSourceInTurn,
     StampInTurn, ResolveInTurn, FindBreakInTurn, BreakInTurn, StartBreakInTurn, CloseInTurn,
     DeleteInTurn DEF Proceed
<1>5. ASSUME NEW c \in Calls, Crash(c)
      PROVE  TurnSafe'
  BY <1>1, <1>5, CrashInTurn
<1>6. QED
  BY <1>2, <1>3, <1>4, <1>5 DEF Next

LEMMA TurnInit == Init => TurnSafe
<1>1. SUFFICES ASSUME Init PROVE TurnSafe
  OBVIOUS
<1>2. PunchSafe
  BY <1>1, PunchInit
<1>3. /\ \A c \in Calls : ~Active(c)
      /\ \A l \in Logs : ~Exists(l) /\ log[l].clockOut = Null
      /\ \A b \in Breaks : break[b].state = "none"
  BY <1>1 DEF Init, Active, Fresh, Exists, NoLog, NoBreak
<1>4. RowsInTurn
  BY <1>3 DEF RowsInTurn, BreaksPlaced, OneOpenBreak, OpenBreaks, Past, OneOpenLog, NoDanglingBreak,
              SpansApart, Online
<1>5. QED
  BY <1>2, <1>3, <1>4 DEF TurnSafe, Alone

-----------------------------------------------------------------------------
(* Batches, in turn: what sync needs of the rows for its next event. *)

\* A punch of that kind, at that time, would not be refused.
Fits(e, kind, at) ==
    IF kind = "clock_in" THEN OpenLogs(e) = {}
    ELSE \E l \in Logs :
            /\ OpenLogs(e) = {l} /\ log[l].clockIn < at
            /\ kind = "break_start" => OpenBreaks(l) = {}
            /\ kind = "break_end" => OpenBreaks(l) # {}
            /\ \A b \in OpenBreaks(l) : WholeMinutes(break[b].start, at)

\* The events left may follow the one that is being applied, in their order.
InOrder(p) ==
    /\ p.op \in PunchKind /\ Steady(p.batch)
    /\ \A next \in Earliest(p.batch) : p.at < next.at /\ MayFollow([kind |-> p.op, at |-> p.at], next)

\* An orderly batch, applied by a call with the locals p, so far.
BatchKnows(p) ==
    /\ p.pc = "next" => /\ Steady(p.batch)
                        /\ \A next \in Earliest(p.batch) : Fits(p.employee, next.kind, next.at)
    /\ p.pc # "next" => InOrder(p)
    /\ p.pc = "start" \/ Serves(p) => Fits(p.employee, p.op, p.at)
    /\ Serves(p) => OpenLogs(p.employee) = {p.log}
    /\ Holds(p) => /\ OpenLogs(p.employee) = {p.log} /\ log[p.log].clockIn = p.at
                   /\ OpenBreaks(p.log) = {}
    /\ p.pc \in {"raise", "flag"} =>
          /\ Exists(p.log) /\ log[p.log].employee = p.employee /\ p.op \in {"clock_in", "clock_out"}
          /\ p.op = "clock_out" => OpenLogs(p.employee) = {}
    /\ p.pc = "endbreak" => p.op \in {"clock_out", "break_end"} /\ p.brk \in OpenBreaks(p.log)
    /\ p.pc = "newbreak" => p.op = "break_start"

\* What any call is sure of: whose the log is that it deletes, and whose the
\* break that it ends.
Sure(p) ==
    /\ p.pc = "endbreak" => break[p.brk].state # "none" /\ break[p.brk].log = p.log
    /\ p.pc = "delete" => p.op = "delete"
    /\ p.pc \in {"start", "delete"} /\ p.op = "delete" =>
          /\ p.target \in Logs /\ log[p.target].status # "none"
          /\ Exists(p.target) => log[p.target].employee = p.employee

BreaksOnLogs == \A b \in Breaks : break[b].state = "present" => Exists(break[b].log)

BatchSafe ==
    /\ TurnSafe /\ BreaksOnLogs
    /\ \A c \in Calls : Active(c) => Sure(call[c])
    /\ \A c \in Calls : call[c].clean =>
          /\ call[c].sync /\ ~call[c].errors
          /\ Active(c) => BatchKnows(call[c])

\* What a step about e leaves as it was: whose each row is, and all rows of others.
RowsLast ==
    /\ \A l \in Logs : log[l].status # "none" =>
          /\ log'[l].status # "none"
          /\ Exists(l)' => Exists(l) /\ log'[l].employee = log[l].employee
    /\ \A b \in Breaks : break[b].state # "none" =>
          break'[b].state # "none" /\ break'[b].log = break[b].log
EmployeeKept(e) ==
    /\ OpenLogs(e)' = OpenLogs(e)
    /\ \A l \in Logs : Exists(l) /\ log[l].employee = e =>
          /\ Exists(l)' /\ log'[l].employee = e /\ log'[l].clockIn = log[l].clockIn
          /\ OpenBreaks(l)' = OpenBreaks(l)
          /\ \A b \in OpenBreaks(l) : break'[b].start = break[b].start
Keeps(e) == RowsLast /\ BreaksOnLogs' /\ \A d \in Employees \ {e} : EmployeeKept(d)

LEMMA FitsKept ==
    ASSUME NEW e, EmployeeKept(e), NEW kind, NEW at, Fits(e, kind, at)
    PROVE  Fits(e, kind, at)'
<1>1. CASE kind = "clock_in"
  BY <1>1 DEF Fits, EmployeeKept
<1>2. CASE kind # "clock_in"
  <2>1. PICK l \in Logs :
           /\ OpenLogs(e) = {l} /\ log[l].clockIn < at
           /\ kind = "break_start" => OpenBreaks(l) = {}
           /\ kind = "break_end" => OpenBreaks(l) # {}
           /\ \A b \in OpenBreaks(l) : WholeMinutes(break[b].start, at)
    BY <1>2 DEF Fits
  <2>2. Exists(l) /\ log[l].employee = e
    BY <2>1 DEF OpenLogs
  <2>3. /\ OpenLogs(e)' = {l} /\ log'[l].clockIn = log[l].clockIn /\ OpenBreaks(l)' = OpenBreaks(l)
        /\ \A b \in OpenBreaks(l) : break'[b].start = break[b].start
    BY <2>1, <2>2 DEF EmployeeKept
  <2>4. \A b \in OpenBreaks(l)' : WholeMinutes(break'[b].start, at)
    BY <2>1, <2>3
  <2>5. QED
    BY <1>2, <2>1, <2>3, <2>4 DEF Fits
<1>3. QED
  BY <1>1, <1>2

LEMMA SureKept ==
    ASSUME NEW p \in CallState, PunchKnows(p), Sure(p), RowsLast
    PROVE  Sure(p)'
  BY DEF PunchKnows, Sure, RowsLast

LEMMA BatchKept ==
    ASSUME NEW p \in CallState, PunchKnows(p), BatchKnows(p), EmployeeKept(p.employee)
    PROVE  BatchKnows(p)'
<1>1. \A kind, at : Fits(p.employee, kind, at) => Fits(p.employee, kind, at)'
  BY FitsKept
<1>2. OpenLogs(p.employee)' = OpenLogs(p.employee)
  BY DEF EmployeeKept
<1>3. OpenLogs(p.employee) = {p.log} =>
         log'[p.log].clockIn = log[p.log].clockIn /\ OpenBreaks(p.log)' = OpenBreaks(p.log)
  <2>1. SUFFICES ASSUME OpenLogs(p.employee) = {p.log}
                 PROVE  log'[p.log].clockIn = log[p.log].clockIn /\ OpenBreaks(p.log)' = OpenBreaks(p.log)
    OBVIOUS
  <2>2. p.log \in Logs /\ Exists(p.log) /\ log[p.log].employee = p.employee
    BY <2>1 DEF OpenLogs
  <2>3. QED
    BY <2>2 DEF EmployeeKept
<1>4. /\ p.pc = "next" => /\ Steady(p.batch)
                          /\ \A next \in Earliest(p.batch) : Fits(p.employee, next.kind, next.at)'
      /\ p.pc = "start" \/ Serves(p) => Fits(p.employee, p.op, p.at)'
  BY <1>1 DEF BatchKnows
<1>5. p.pc \in {"raise", "flag"} =>
         /\ Exists(p.log)' /\ log'[p.log].employee = p.employee /\ p.op \in {"clock_in", "clock_out"}
         /\ p.op = "clock_out" => OpenLogs(p.employee)' = {}
  <2>1. SUFFICES ASSUME p.pc \in {"raise", "flag"}
                 PROVE  /\ Exists(p.log)' /\ log'[p.log].employee = p.employee /\ p.op \in {"clock_in", "clock_out"}
                        /\ p.op = "clock_out" => OpenLogs(p.employee)' = {}
    OBVIOUS
  <2>2. /\ Exists(p.log) /\ log[p.log].employee = p.employee /\ p.op \in {"clock_in", "clock_out"}
        /\ p.op = "clock_out" => OpenLogs(p.employee) = {}
        /\ p.log \in Logs
    BY <2>1 DEF BatchKnows, PunchKnows
  <2>3. QED
    BY <1>2, <2>2 DEF EmployeeKept
<1>6. /\ Serves(p) => OpenLogs(p.employee)' = {p.log}
      /\ Holds(p) => /\ OpenLogs(p.employee)' = {p.log} /\ log'[p.log].clockIn = p.at
                     /\ OpenBreaks(p.log)' = {}
      /\ p.pc = "endbreak" => p.op \in {"clock_out", "break_end"} /\ p.brk \in OpenBreaks(p.log)'
      /\ p.pc = "newbreak" => p.op = "break_start"
  BY <1>2, <1>3 DEF BatchKnows, Serves
<1>7. p.pc # "next" => InOrder(p)
  BY DEF BatchKnows
<1>8. QED
  BY <1>4, <1>5, <1>6, <1>7 DEF BatchKnows, Serves, Holds, InOrder

\* A step of c about e that leaves c with the locals q.
LEMMA BatchGlue ==
    ASSUME BatchSafe, TurnSafe', NEW c \in Calls, NEW e \in Employees, NEW q \in CallState,
           call' = [call EXCEPT ![c] = q], Keeps(e),
           \A d \in Calls : d # c /\ Active(d) => call[d].employee # e,
           q.pc \notin {"idle", "done", "dead"} => Sure(q)',
           q.clean => q.sync /\ ~q.errors,
           q.clean /\ q.pc \notin {"idle", "done", "dead"} => BatchKnows(q)'
    PROVE  BatchSafe'
<1>1. \A d \in Calls : call'[d] = IF d = c THEN q ELSE call[d]
  BY DEF BatchSafe, TurnSafe, PunchSafe, TypeOK
<1>2. ASSUME NEW d \in Calls
      PROVE  /\ Active(d)' => Sure(call[d])'
             /\ call'[d].clean => call'[d].sync /\ ~call'[d].errors /\ (Active(d)' => BatchKnows(call[d])')
  <2>1. CASE d = c
    BY <1>1, <2>1 DEF Active
  <2>2. CASE d # c
    <3>1. PICK p : p = call[d]
      OBVIOUS
    <3>2. /\ call'[d] = p /\ p \in CallState /\ PunchKnows(p)
          /\ p.clean => p.sync /\ ~p.errors
      BY <1>1, <2>2, <3>1 DEF BatchSafe, TurnSafe, PunchSafe, TypeOK
    <3>3. Active(d)' => /\ Sure(p) /\ p.employee \in Employees \ {e}
                        /\ p.clean => BatchKnows(p)
      BY <2>2, <3>1, <3>2 DEF BatchSafe, Active, CallState
    <3>4. Active(d)' => Sure(p)'
      BY <3>2, <3>3, SureKept DEF Keeps
    <3>5. Active(d)' /\ p.clean => BatchKnows(p)'
      BY <3>2, <3>3, BatchKept DEF Keeps
    <3>6. QED
      BY <3>2, <3>4, <3>5
  <2>3. QED
    BY <2>1, <2>2
<1>3. QED
  BY <1>2 DEF BatchSafe, Keeps

LEMMA RowsKept ==
    ASSUME BatchSafe, NEW e, UNCHANGED <<log, break>>
    PROVE  Keeps(e)
  BY DEF BatchSafe, Keeps, RowsLast, EmployeeKept, BreaksOnLogs, OpenLogs, OpenBreaks, Exists

LEMMA SameRows ==
    ASSUME NEW p, UNCHANGED <<log, break>>
    PROVE  Sure(p)' = Sure(p) /\ BatchKnows(p)' = BatchKnows(p)
<1>1. \A e, kind, at : Fits(e, kind, at)' = Fits(e, kind, at)
  BY DEF Fits, OpenLogs, OpenBreaks, Exists
<1>2. \A e, l : OpenLogs(e)' = OpenLogs(e) /\ OpenBreaks(l)' = OpenBreaks(l) /\ Exists(l)' = Exists(l)
  BY DEF OpenLogs, OpenBreaks, Exists
<1>3. BatchKnows(p)' = BatchKnows(p)
  BY <1>1, <1>2 DEF BatchKnows, Serves, Holds, InOrder
<1>4. QED
  BY <1>2, <1>3 DEF Sure

\* What is known of the call at work.
LEMMA AtBatch ==
    ASSUME BatchSafe, NEW c \in Calls, call[c].pc \notin {"idle", "done", "dead"}
    PROVE  /\ call[c] \in CallState /\ call[c].employee \in Employees
           /\ \A d \in Calls : d # c /\ Active(d) => call[d].employee # call[c].employee
           /\ PunchKnows(call[c]) /\ TurnKnows(call[c]) /\ Sure(call[c])
           /\ call[c].clean => call[c].sync /\ ~call[c].errors /\ BatchKnows(call[c])
           /\ log \in [Logs -> LogRow] /\ break \in [Breaks -> BreakRow] /\ call \in [Calls -> CallState]
  BY AtWork DEF BatchSafe, Active, TurnSafe, PunchSafe, TypeOK

\* A step of c that writes rows, or not.
LEMMA BatchWrite ==
    ASSUME BatchSafe, TurnSafe', NEW c \in Calls, call[c].pc \notin {"idle", "done", "dead"},
           NEW q \in CallState, call' = [call EXCEPT ![c] = q], Keeps(call[c].employee),
           q.pc \notin {"idle", "done", "dead"} => Sure(q)',
           q.clean => q.sync /\ ~q.errors,
           q.clean /\ q.pc \notin {"idle", "done", "dead"} => BatchKnows(q)'
    PROVE  BatchSafe'
<1>1. PICK e \in Employees :
         e = call[c].employee /\ \A d \in Calls : d # c /\ Active(d) => call[d].employee # e
  BY AtBatch, Zenon
<1>2. Keeps(e)
  BY <1>1
<1>3. \A d \in Calls : d # c /\ Active(d) => call[d].employee # e
  BY <1>1
<1>4. QED
  BY <1>2, <1>3, BatchGlue

LEMMA BatchMove ==
    ASSUME BatchSafe, TurnSafe', NEW c \in Calls, call[c].pc \notin {"idle", "done", "dead"},
           NEW q \in CallState, call' = [call EXCEPT ![c] = q], UNCHANGED <<log, break>>,
           q.pc \notin {"idle", "done", "dead"} => Sure(q),
           q.clean => q.sync /\ ~q.errors,
           q.clean /\ q.pc \notin {"idle", "done", "dead"} => BatchKnows(q)
    PROVE  BatchSafe'
<1>1. Keeps(call[c].employee)
  BY RowsKept
<1>2. /\ q.pc \notin {"idle", "done", "dead"} => Sure(q)'
      /\ q.clean /\ q.pc \notin {"idle", "done", "dead"} => BatchKnows(q)'
  BY SameRows
<1>3. QED
  BY <1>1, <1>2, BatchWrite

\* The answer to an operation, with what the next event needs.
LEMMA EndedBatch ==
    ASSUME NEW p \in CallState, NEW failed \in BOOLEAN,
           p.clean => /\ p.sync /\ ~p.errors /\ ~failed /\ Steady(p.batch)
                      /\ \A next \in Earliest(p.batch) : Fits(p.employee, next.kind, next.at)',
           NEW q, q = Ended(p, failed)
    PROVE  /\ q \in CallState /\ Sure(q)'
           /\ q.clean => q.sync /\ ~q.errors
           /\ q.clean /\ q.pc \notin {"idle", "done", "dead"} => BatchKnows(q)'
<1>1. q \in CallState
  BY EndedTyped
<1>2. CASE p.sync
  <2>1. PICK e \in BOOLEAN : e = (p.errors \/ failed)
    BY DEF CallState
  <2>2. q = [Fresh EXCEPT !.pc = "next", !.sync = TRUE, !.employee = p.employee,
                          !.batch = p.batch, !.clean = p.clean, !.errors = e]
    BY <1>2, <2>1, Zenon DEF Ended
  <2>3. /\ q.pc = "next" /\ q.op = "none" /\ q.sync /\ q.batch = p.batch /\ q.clean = p.clean
        /\ q.errors = e /\ q.employee = p.employee
    BY <2>2 DEF Fresh
  <2>4. Sure(q)'
    BY <2>3 DEF Sure
  <2>5. q.clean => q.sync /\ ~q.errors
    BY <2>1, <2>3
  <2>6. q.clean => BatchKnows(q)'
    BY <2>3 DEF BatchKnows, Serves, Holds
  <2>7. QED
    BY <1>1, <2>4, <2>5, <2>6
<1>3. CASE ~p.sync
  <2>1. q = [Fresh EXCEPT !.pc = "done"]
    BY <1>3 DEF Ended
  <2>2. q.pc = "done" /\ q.clean = FALSE
    BY <2>1 DEF Fresh
  <2>3. QED
    BY <1>1, <2>2 DEF Sure
<1>4. QED
  BY <1>2, <1>3

\* A refusal ends no orderly batch's operation.
LEMMA BatchRefused ==
    ASSUME BatchSafe, TurnSafe', NEW c \in Calls, call[c].pc \notin {"idle", "done", "dead"},
           Refuse(c), ~call[c].clean, UNCHANGED <<log, break>>
    PROVE  BatchSafe'
<1>1. PICK p : p = call[c]
  OBVIOUS
<1>2. PICK q : q = Ended(p, TRUE)
  OBVIOUS
<1>3. p \in CallState /\ call' = [call EXCEPT ![c] = q] /\ ~p.clean
  BY <1>1, <1>2, AtBatch DEF Refuse
<1>4. /\ q \in CallState /\ Sure(q)'
      /\ q.clean => q.sync /\ ~q.errors
      /\ q.clean /\ q.pc \notin {"idle", "done", "dead"} => BatchKnows(q)'
  BY <1>2, <1>3, EndedBatch
<1>5. Keeps(call[c].employee)
  BY RowsKept
<1>6. QED
  BY <1>3, <1>4, <1>5, BatchWrite

\* The first event of an orderly batch leaves an orderly rest, and what follows it may.
LEMMA SteadyRest ==
    ASSUME NEW batch \in SUBSET Event, Steady(batch), NEW ev \in Earliest(batch)
    PROVE  /\ Steady(batch \ {ev})
           /\ \A next \in Earliest(batch \ {ev}) : ev.at < next.at /\ MayFollow(ev, next)
<1>1. \A x \in batch : x.at \in Int
  BY AttendanceAssumption DEF Event, Time
<1>2. ev \in batch /\ \A x \in batch : ev.at <= x.at
  BY DEF Earliest
<1>3. \A x, other \in batch : x.at = other.at => x = other
  BY DEF Steady
<1>4. \A x \in batch : x # ev => ev.at < x.at
  BY <1>1, <1>2, <1>3
<1>5. \A x, next \in batch : x.at < next.at /\ (\A other \in batch : other.at <= x.at \/ next.at <= other.at)
         => MayFollow(x, next)
  BY DEF Steady
<1>6. ASSUME NEW x \in batch \ {ev}, NEW next \in batch \ {ev}, x.at < next.at,
             \A other \in batch \ {ev} : other.at <= x.at \/ next.at <= other.at
      PROVE  MayFollow(x, next)
  <2>1. ev.at <= x.at
    BY <1>2
  <2>2. \A other \in batch : other.at <= x.at \/ next.at <= other.at
    BY <1>6, <2>1
  <2>3. QED
    BY <1>5, <1>6, <2>2
<1>7. Steady(batch \ {ev})
  BY <1>3, <1>6 DEF Steady
<1>8. ASSUME NEW next \in Earliest(batch \ {ev})
      PROVE  ev.at < next.at /\ MayFollow(ev, next)
  <2>1. next \in batch /\ next # ev /\ \A x \in batch \ {ev} : next.at <= x.at
    BY DEF Earliest
  <2>2. ev.at < next.at
    BY <1>4, <2>1
  <2>3. \A other \in batch : other.at <= ev.at \/ next.at <= other.at
    BY <1>1, <1>2, <2>1
  <2>4. QED
    BY <1>2, <1>5, <2>1, <2>2, <2>3
<1>9. QED
  BY <1>7, <1>8

LEMMA BeginBatch ==
    ASSUME Exclusive, BatchSafe, TurnSafe', NEW c \in Calls, NEW e \in Employees, Begin(c, e),
           \/ \E op \in PunchKind \cup {"delete"}, target \in Logs \cup {Null}, at \in Time :
                 Punch(c, e, op, target, at)
           \/ \E batch \in Batches : Sync(c, e, batch)
    PROVE  BatchSafe'
<1>1. \A d \in Calls : d # c /\ Active(d) => call[d].employee # e
  BY DEF Begin
<1>2. ASSUME NEW op \in PunchKind \cup {"delete"}, NEW target \in Logs \cup {Null}, NEW at \in Time,
             Punch(c, e, op, target, at)
      PROVE  BatchSafe'
  <2>1. PICK q : q = [Fresh EXCEPT !.pc = "start", !.op = op, !.employee = e, !.target = target, !.at = at]
    OBVIOUS
  <2>2. /\ q \in CallState /\ q.pc = "start" /\ q.op = op /\ q.employee = e /\ q.target = target
        /\ q.clean = FALSE
    BY <2>1, FreshTyped DEF CallState, Pc, Fresh
  <2>3. call' = [call EXCEPT ![c] = q] /\ UNCHANGED <<log, break>>
    BY <1>2, <2>1 DEF Punch
  <2>4. op = "delete" => target \in Logs /\ log[target].status # "none" /\ log[target].employee = e
    BY <1>2 DEF Punch
  <2>5. Sure(q)'
    BY <2>2, <2>4, SameRows, <2>3 DEF Sure
  <2>6. Keeps(e)
    BY <2>3, RowsKept
  <2>7. QED
    BY <1>1, <2>2, <2>3, <2>5, <2>6, BatchGlue
<1>3. ASSUME NEW batch \in Batches, Sync(c, e, batch)
      PROVE  BatchSafe'
  <2>1. PICK b \in BOOLEAN : b = (OpenLogs(e) = {} /\ Orderly(batch))
    OBVIOUS
  <2>2. PICK q : q = [Fresh EXCEPT !.pc = "next", !.sync = TRUE, !.employee = e,
                                   !.batch = batch, !.clean = b]
    OBVIOUS
  <2>3. /\ q \in CallState /\ q.pc = "next" /\ q.op = "none" /\ q.employee = e
        /\ q.batch = batch /\ q.sync /\ q.clean = b /\ q.errors = FALSE
    <3>1. batch \in SUBSET Event
      BY AttendanceAssumption
    <3>2. q \in CallState /\ q.pc = "next" /\ q.employee = e /\ q.batch = batch /\ q.sync /\ q.clean = b
      BY <2>2, <3>1, FreshTyped DEF CallState, Pc
    <3>3. q.op = "none" /\ q.errors = FALSE
      BY <2>2 DEF Fresh
    <3>4. QED
      BY <3>2, <3>3
  <2>4. call' = [call EXCEPT ![c] = q] /\ UNCHANGED <<log, break>>
    BY <1>3, <2>1, <2>2, Zenon DEF Sync
  <2>5. Sure(q)
    BY <2>3 DEF Sure
  <2>6. b => BatchKnows(q)
    <3>1. b => Steady(batch) /\ \A next \in Earliest(batch) : Fits(e, next.kind, next.at)
      BY <2>1 DEF Orderly, Fits
    <3>2. QED
      BY <2>3, <3>1 DEF BatchKnows, Serves, Holds
  <2>7. Sure(q)' /\ (b => BatchKnows(q)') /\ Keeps(e)
    BY <2>4, <2>5, <2>6, SameRows, RowsKept
  <2>8. QED
    BY <1>1, <2>3, <2>4, <2>7, BatchGlue
<1>4. QED
  BY <1>2, <1>3

LEMMA NextEventBatch ==
    ASSUME BatchSafe, TurnSafe', NEW c \in Calls, NextEvent(c)
    PROVE  BatchSafe'
<1>1. PICK p : p = call[c]
  OBVIOUS
<1>2. /\ call[c].pc = "next" /\ p.pc = "next" /\ UNCHANGED <<log, break>> /\ p \in CallState
      /\ p.clean => p.sync /\ ~p.errors /\ BatchKnows(p)
      /\ call \in [Calls -> CallState]
  BY <1>1, AtBatch DEF NextEvent
<1>3. CASE call' = [call EXCEPT ![c] = [Fresh EXCEPT !.pc = "done", !.sync = TRUE,
                                                     !.clean = call[c].clean,
                                                     !.errors = call[c].errors]]
  <2>1. PICK q : q = [Fresh EXCEPT !.pc = "done", !.sync = TRUE, !.clean = p.clean, !.errors = p.errors]
    OBVIOUS
  <2>2. q \in CallState /\ q.pc = "done" /\ q.clean = p.clean /\ q.errors = p.errors /\ q.sync
    BY <1>2, <2>1, FreshTyped DEF CallState, Pc
  <2>3. call' = [call EXCEPT ![c] = q]
    BY <1>1, <1>3, <2>1
  <2>4. QED
    BY <1>2, <2>2, <2>3, BatchMove
<1>4. ASSUME NEW ev \in Earliest(call[c].batch),
             call' = [call EXCEPT ![c].pc = "start", ![c].op = ev.kind, ![c].at = ev.at,
                                  ![c].batch = @ \ {ev}]
      PROVE  BatchSafe'
  <2>1. PICK q : q = [p EXCEPT !.pc = "start", !.op = ev.kind, !.at = ev.at, !.batch = @ \ {ev}]
    OBVIOUS
  <2>2. ev \in Event /\ ev \in Earliest(p.batch) /\ p.batch \in SUBSET Event
    BY <1>1, <1>2, <1>4 DEF Earliest, CallState
  <2>3. /\ q \in CallState /\ q.pc = "start" /\ q.op = ev.kind /\ q.employee = p.employee
        /\ q.at = ev.at /\ q.batch = p.batch \ {ev} /\ q.sync = p.sync
        /\ q.clean = p.clean /\ q.errors = p.errors /\ ev.kind \in PunchKind
    BY <1>2, <2>1, <2>2 DEF CallState, Pc, Event
  <2>4. call' = [call EXCEPT ![c] = q]
    BY <1>1, <1>2, <1>4, <2>1
  <2>5. Sure(q)
    BY <2>3 DEF Sure, PunchKind
  <2>6. ASSUME p.clean PROVE BatchKnows(q)
    <3>1. Steady(p.batch) /\ Fits(p.employee, ev.kind, ev.at)
      BY <1>2, <2>2, <2>6 DEF BatchKnows
    <3>2. /\ Steady(p.batch \ {ev})
          /\ \A next \in Earliest(p.batch \ {ev}) : ev.at < next.at /\ MayFollow(ev, next)
      BY <2>2, <3>1, SteadyRest
    <3>3. \A next : MayFollow(ev, next) => MayFollow([kind |-> ev.kind, at |-> ev.at], next)
      BY <2>2 DEF Event
    <3>4. InOrder(q)
      BY <2>3, <3>2, <3>3 DEF InOrder
    <3>5. QED
      BY <2>3, <3>1, <3>4 DEF BatchKnows, Serves, Holds
  <2>7. QED
    BY <1>2, <2>3, <2>4, <2>5, <2>6, BatchMove
<1>5. QED
  BY <1>3, <1>4 DEF NextEvent

LEMMA LookBatch ==
    ASSUME BatchSafe, TurnSafe', NEW c \in Calls, ClockInFind(c) \/ DeleteFind(c)
    PROVE  BatchSafe'
<1>1. PICK p : p = call[c]
  OBVIOUS
<1>2. /\ call[c].pc = "start" /\ p.pc = "start" /\ UNCHANGED <<log, break>> /\ p \in CallState
      /\ p.clean => p.sync /\ ~p.errors /\ BatchKnows(p)
      /\ call \in [Calls -> CallState] /\ Sure(p)
  BY <1>1, AtBatch DEF ClockInFind, DeleteFind
<1>3. ~p.clean \/ (p.op = "clock_in" /\ OpenLogs(p.employee) = {})
  BY <1>1, <1>2 DEF ClockInFind, DeleteFind, BatchKnows, InOrder, PunchKind, Fits
<1>4. CASE Refuse(c)
  <2>1. ~p.clean
    <3>1. SUFFICES ASSUME p.clean, p.op = "clock_in", OpenLogs(p.employee) = {} PROVE FALSE
      BY <1>3
    <3>2. call' = [call EXCEPT ![c].pc = "insert"]
      BY <1>1, <3>1 DEF ClockInFind, DeleteFind, Goto
    <3>3. call'[c].pc = "insert"
      BY <1>2, <3>2 DEF CallState
    <3>4. call'[c] = Ended(p, TRUE)
      BY <1>1, <1>2, <1>4 DEF Refuse
    <3>5. QED
      BY <1>2, <3>3, <3>4, EndedTyped
  <2>2. QED
    BY <1>1, <1>2, <1>4, <2>1, BatchRefused
<1>5. ASSUME NEW at \in {"insert", "delete"}, Goto(c, at), at = "delete" => p.op = "delete"
      PROVE  BatchSafe'
  <2>1. PICK q : q = [p EXCEPT !.pc = at]
    OBVIOUS
  <2>2. /\ q \in CallState /\ q.pc = at /\ q.op = p.op /\ q.employee = p.employee
        /\ q.at = p.at /\ q.batch = p.batch /\ q.sync = p.sync /\ q.target = p.target
        /\ q.clean = p.clean /\ q.errors = p.errors
    BY <1>2, <1>5, <2>1 DEF CallState, Pc
  <2>3. call' = [call EXCEPT ![c] = q]
    BY <1>1, <1>2, <1>5, <2>1 DEF Goto
  <2>4. Sure(q)
    BY <1>2, <1>5, <2>2 DEF Sure
  <2>5. p.clean => BatchKnows(q)
    BY <1>2, <1>5, <2>2 DEF BatchKnows, Serves, Holds, InOrder
  <2>6. QED
    BY <1>2, <2>2, <2>3, <2>4, <2>5, BatchMove
<1>6. QED
  BY <1>1, <1>4, <1>5 DEF ClockInFind, DeleteFind

LEMMA RaiseBatch ==
    ASSUME BatchSafe, TurnSafe', NEW c \in Calls, RaiseAnomaly(c)
    PROVE  BatchSafe'
<1>1. PICK p : p = call[c]
  OBVIOUS
<1>2. /\ call[c].pc = "raise" /\ p.pc = "raise" /\ UNCHANGED <<log, break>> /\ p \in CallState
      /\ p.clean => p.sync /\ ~p.errors /\ BatchKnows(p)
      /\ call \in [Calls -> CallState] /\ Sure(p)
  BY <1>1, AtBatch DEF RaiseAnomaly
<1>3. CASE Exists(p.log)
  <2>1. PICK q : q = [p EXCEPT !.pc = "flag"]
    OBVIOUS
  <2>2. /\ q \in CallState /\ q.pc = "flag" /\ q.op = p.op /\ q.employee = p.employee
        /\ q.at = p.at /\ q.batch = p.batch /\ q.sync = p.sync /\ q.log = p.log
        /\ q.clean = p.clean /\ q.errors = p.errors
    BY <1>2, <2>1 DEF CallState, Pc
  <2>3. call' = [call EXCEPT ![c] = q]
    BY <1>1, <1>2, <1>3, <2>1 DEF RaiseAnomaly, Goto
  <2>4. Sure(q)
    BY <2>2 DEF Sure
  <2>5. p.clean => BatchKnows(q)
    BY <1>2, <2>2 DEF BatchKnows, Serves, Holds, InOrder
  <2>6. QED
    BY <1>2, <2>2, <2>3, <2>4, <2>5, BatchMove
<1>4. CASE ~Exists(p.log)
  <2>1. ~p.clean /\ Refuse(c)
    BY <1>1, <1>2, <1>4 DEF RaiseAnomaly, BatchKnows
  <2>2. QED
    BY <1>1, <1>2, <2>1, BatchRefused
<1>5. QED
  BY <1>3, <1>4

LEMMA FindSourceBatch ==
    ASSUME BatchSafe, TurnSafe', NEW c \in Calls, FindSource(c)
    PROVE  BatchSafe'
<1>1. PICK p : p = call[c]
  OBVIOUS
<1>2. /\ call[c].pc = "source" /\ p.pc = "source" /\ UNCHANGED <<log, break>> /\ p \in CallState
      /\ p.clean => p.sync /\ ~p.errors /\ BatchKnows(p)
      /\ call \in [Calls -> CallState] /\ TurnKnows(p) /\ p.op = "clock_in"
  BY <1>1, AtBatch DEF FindSource, TurnKnows
<1>3. p.clean => OpenLogs(p.employee) = {p.log}
  BY <1>2 DEF BatchKnows, Holds
<1>4. CASE OpenLogs(p.employee) = {} /\ Answer(c)
  <2>1. PICK q : q = Ended(p, FALSE)
    OBVIOUS
  <2>2. call' = [call EXCEPT ![c] = q] /\ ~p.clean
    BY <1>1, <1>3, <1>4, <2>1 DEF Answer
  <2>3. /\ q \in CallState /\ Sure(q)'
        /\ q.clean => q.sync /\ ~q.errors
        /\ q.clean /\ q.pc \notin {"idle", "done", "dead"} => BatchKnows(q)'
    BY <1>2, <2>1, <2>2, EndedBatch
  <2>4. QED
    BY <1>2, <2>2, <2>3, RowsKept, BatchWrite
<1>5. ASSUME NEW l \in LatestLogs(OpenLogs(p.employee)),
             call' = [call EXCEPT ![c].pc = "stamp", ![c].log = l]
      PROVE  BatchSafe'
  <2>1. l \in Logs /\ (p.clean => l = p.log)
    BY <1>3 DEF LatestLogs, OpenLogs
  <2>2. PICK q : q = [p EXCEPT !.pc = "stamp", !.log = l]
    OBVIOUS
  <2>3. /\ q \in CallState /\ q.pc = "stamp" /\ q.op = p.op /\ q.employee = p.employee
        /\ q.at = p.at /\ q.batch = p.batch /\ q.sync = p.sync /\ q.log = l
        /\ q.clean = p.clean /\ q.errors = p.errors
    BY <1>2, <2>1, <2>2 DEF CallState, Pc
  <2>4. call' = [call EXCEPT ![c] = q]
    BY <1>1, <1>2, <1>5, <2>2
  <2>5. Sure(q)
    BY <2>3 DEF Sure
  <2>6. p.clean => BatchKnows(q)
    BY <1>2, <2>1, <2>3 DEF BatchKnows, Serves, Holds, InOrder
  <2>7. QED
    BY <1>2, <2>3, <2>4, <2>5, <2>6, BatchMove
<1>6. QED
  BY <1>1, <1>4, <1>5 DEF FindSource

LEMMA ResolveBatch ==
    ASSUME BatchSafe, TurnSafe', NEW c \in Calls, ResolveLog(c)
    PROVE  BatchSafe'
<1>1. PICK p : p = call[c]
  OBVIOUS
<1>2. /\ call[c].pc = "start" /\ p.pc = "start" /\ UNCHANGED <<log, break>> /\ p \in CallState
      /\ p.clean => p.sync /\ ~p.errors /\ BatchKnows(p)
      /\ call \in [Calls -> CallState] /\ p.target = Null
      /\ p.op \in {"clock_out", "break_start", "break_end"}
  BY <1>1, AtBatch DEF ResolveLog, TurnKnows
<1>3. p.clean => \E l \in Logs : OpenLogs(p.employee) = {l} /\ ~TooEarly(p.at, l)
  <2>1. SUFFICES ASSUME p.clean PROVE \E l \in Logs : OpenLogs(p.employee) = {l} /\ ~TooEarly(p.at, l)
    OBVIOUS
  <2>2. PICK l \in Logs : OpenLogs(p.employee) = {l} /\ log[l].clockIn < p.at
    BY <1>2, <2>1 DEF BatchKnows, Fits
  <2>3. log[l].clockIn \in Int /\ p.at \in Int
    BY <1>2, AttendanceAssumption DEF BatchSafe, TurnSafe, PunchSafe, TypeOK, LogRow, CallState, Time
  <2>4. QED
    BY <2>2, <2>3 DEF TooEarly
<1>4. ASSUME NEW l \in LatestLogs(OpenLogs(p.employee)),
             call' = [call EXCEPT ![c].pc = "breaks", ![c].log = l]
      PROVE  BatchSafe'
  <2>1. l \in Logs /\ (p.clean => OpenLogs(p.employee) = {l})
    BY <1>3 DEF LatestLogs, OpenLogs
  <2>2. PICK q : q = [p EXCEPT !.pc = "breaks", !.log = l]
    OBVIOUS
  <2>3. /\ q \in CallState /\ q.pc = "breaks" /\ q.op = p.op /\ q.employee = p.employee
        /\ q.at = p.at /\ q.batch = p.batch /\ q.sync = p.sync /\ q.log = l
        /\ q.clean = p.clean /\ q.errors = p.errors
    <3>1. "breaks" \in Pc /\ l \in Logs \cup {Null}
      BY <2>1 DEF Pc
    <3>2. q \in CallState
      BY <1>2, <2>2, <3>1 DEF CallState
    <3>3. QED
      BY <1>2, <2>2, <3>2 DEF CallState
  <2>4. call' = [call EXCEPT ![c] = q]
    BY <1>1, <1>2, <1>4, <2>2
  <2>5. Sure(q)
    BY <2>3 DEF Sure
  <2>6. p.clean => BatchKnows(q)
    BY <1>2, <2>1, <2>3 DEF BatchKnows, Serves, Holds, InOrder
  <2>7. QED
    BY <1>2, <2>3, <2>4, <2>5, <2>6, BatchMove
<1>5. CASE Refuse(c)
  <2>1. ASSUME NEW l \in LatestLogs(OpenLogs(p.employee)),
               call' = [call EXCEPT ![c].pc = "breaks", ![c].log = l]
        PROVE  FALSE
    <3>1. call'[c].pc = "breaks"
      BY <1>2, <2>1 DEF CallState
    <3>2. call'[c] = Ended(p, TRUE)
      BY <1>1, <1>2, <1>5 DEF Refuse
    <3>3. QED
      BY <1>2, <3>1, <3>2, EndedTyped
  <2>2. ASSUME p.clean PROVE FALSE
    <3>1. PICK l \in Logs : OpenLogs(p.employee) = {l} /\ ~TooEarly(p.at, l)
      BY <1>3, <2>2
    <3>2. log[l].clockIn \in Int
      BY AttendanceAssumption DEF BatchSafe, TurnSafe, PunchSafe, TypeOK, LogRow, Time
    <3>3. LatestLogs(OpenLogs(p.employee)) = {l}
      BY <3>1, <3>2 DEF LatestLogs
    <3>4. \E m \in LatestLogs(OpenLogs(p.employee)) :
             call' = [call EXCEPT ![c].pc = "breaks", ![c].log = m]
      BY <1>1, <1>2, <3>1, <3>3 DEF ResolveLog
    <3>5. QED
      BY <2>1, <3>4
  <2>3. QED
    BY <1>1, <1>2, <1>5, <2>2, BatchRefused
<1>6. QED
  BY <1>1, <1>2, <1>4, <1>5 DEF ResolveLog

LEMMA FindBreakBatch ==
    ASSUME BatchSafe, TurnSafe', NEW c \in Calls, FindBreak(c)
    PROVE  BatchSafe'
<1>1. PICK p : p = call[c]
  OBVIOUS
<1>2. /\ call[c].pc = "breaks" /\ p.pc = "breaks" /\ UNCHANGED <<log, break>> /\ p \in CallState
      /\ p.clean => p.sync /\ ~p.errors /\ BatchKnows(p)
      /\ call \in [Calls -> CallState] /\ p.log \in Logs
      /\ p.op \in {"clock_out", "break_start", "break_end"}
      /\ break \in [Breaks -> BreakRow]
  BY <1>1, AtBatch DEF FindBreak, PunchKnows
<1>3. p.clean => /\ OpenLogs(p.employee) = {p.log} /\ Fits(p.employee, p.op, p.at)
                 /\ p.op = "break_start" => OpenBreaks(p.log) = {}
                 /\ p.op = "break_end" => OpenBreaks(p.log) # {}
  <2>1. SUFFICES ASSUME p.clean
                 PROVE  /\ OpenLogs(p.employee) = {p.log} /\ Fits(p.employee, p.op, p.at)
                        /\ p.op = "break_start" => OpenBreaks(p.log) = {}
                        /\ p.op = "break_end" => OpenBreaks(p.log) # {}
    OBVIOUS
  <2>2. OpenLogs(p.employee) = {p.log} /\ Fits(p.employee, p.op, p.at)
    BY <1>2, <2>1 DEF BatchKnows, Serves
  <2>3. PICK l \in Logs : /\ OpenLogs(p.employee) = {l}
                          /\ p.op = "break_start" => OpenBreaks(l) = {}
                          /\ p.op = "break_end" => OpenBreaks(l) # {}
    BY <1>2, <2>2 DEF Fits
  <2>4. l = p.log
    BY <2>2, <2>3
  <2>5. QED
    BY <2>2, <2>3, <2>4
<1>4. LatestBreaks(OpenBreaks(p.log)) = {} <=> OpenBreaks(p.log) = {}
  <2>1. \A a \in OpenBreaks(p.log) : a \in LatestBreaks(OpenBreaks(p.log))
    <3>1. \A a \in OpenBreaks(p.log) : a \in Breaks /\ break[a].start \in Int
      BY <1>2, AttendanceAssumption DEF OpenBreaks, BreakRow, Time
    <3>2. QED
      BY <1>2, <3>1 DEF LatestBreaks, BatchSafe, TurnSafe, RowsInTurn, OneOpenBreak
  <2>2. QED
    BY <2>1 DEF LatestBreaks
<1>5. ASSUME NEW at \in {"close", "newbreak"}, Goto(c, at), at = "newbreak" => p.op = "break_start"
      PROVE  BatchSafe'
  <2>1. PICK q : q = [p EXCEPT !.pc = at]
    OBVIOUS
  <2>2. /\ q \in CallState /\ q.pc = at /\ q.op = p.op /\ q.employee = p.employee
        /\ q.at = p.at /\ q.batch = p.batch /\ q.sync = p.sync /\ q.log = p.log
        /\ q.clean = p.clean /\ q.errors = p.errors
    BY <1>2, <1>5, <2>1 DEF CallState, Pc
  <2>3. call' = [call EXCEPT ![c] = q]
    BY <1>1, <1>2, <1>5, <2>1 DEF Goto
  <2>4. Sure(q)
    BY <1>5, <2>2 DEF Sure
  <2>5. p.clean => BatchKnows(q)
    BY <1>2, <1>3, <1>5, <2>2 DEF BatchKnows, Serves, Holds, InOrder
  <2>6. QED
    BY <1>2, <2>2, <2>3, <2>4, <2>5, BatchMove
<1>6. ASSUME NEW b \in LatestBreaks(OpenBreaks(p.log)), p.op # "break_start",
             call' = [call EXCEPT ![c].pc = "endbreak", ![c].brk = b]
      PROVE  BatchSafe'
  <2>1. b \in Breaks /\ b \in OpenBreaks(p.log) /\ break[b].state # "none" /\ break[b].log = p.log
    BY DEF LatestBreaks, OpenBreaks
  <2>2. PICK q : q = [p EXCEPT !.pc = "endbreak", !.brk = b]
    OBVIOUS
  <2>3. /\ q \in CallState /\ q.pc = "endbreak" /\ q.op = p.op /\ q.employee = p.employee
        /\ q.at = p.at /\ q.batch = p.batch /\ q.sync = p.sync /\ q.log = p.log /\ q.brk = b
        /\ q.clean = p.clean /\ q.errors = p.errors
    BY <1>2, <2>1, <2>2 DEF CallState, Pc
  <2>4. call' = [call EXCEPT ![c] = q]
    BY <1>1, <1>2, <1>6, <2>2
  <2>5. Sure(q)
    BY <2>1, <2>3 DEF Sure
  <2>6. p.clean => BatchKnows(q)
    BY <1>2, <1>3, <1>6, <2>1, <2>3 DEF BatchKnows, Serves, Holds, InOrder
  <2>7. QED
    BY <1>2, <2>3, <2>4, <2>5, <2>6, BatchMove
<1>7. CASE Refuse(c) /\ ~p.clean
  BY <1>1, <1>2, <1>7, BatchRefused
<1>8. CASE LatestBreaks(OpenBreaks(p.log)) = {} /\ p.clean
  BY <1>1, <1>2, <1>3, <1>4, <1>5, <1>8 DEF FindBreak, LatestBreaks
<1>9. CASE LatestBreaks(OpenBreaks(p.log)) # {} /\ p.clean
  BY <1>1, <1>2, <1>3, <1>4, <1>6, <1>9 DEF FindBreak
<1>10. CASE ~p.clean
  BY <1>1, <1>2, <1>5, <1>6, <1>7, <1>10 DEF FindBreak
<1>11. QED
  BY <1>8, <1>9, <1>10

LEMMA FieldsKept ==
    ASSUME BatchSafe, NEW e, break' = break,
           \A l \in Logs : /\ log'[l].employee = log[l].employee /\ log'[l].clockIn = log[l].clockIn
                           /\ log'[l].clockOut = log[l].clockOut /\ Exists(l)' = Exists(l)
                           /\ log[l].status # "none" => log'[l].status # "none"
    PROVE  Keeps(e) /\ EmployeeKept(e)
<1>1. \A d : OpenLogs(d)' = OpenLogs(d)
  BY DEF OpenLogs
<1>2. \A l : OpenBreaks(l)' = OpenBreaks(l)
  BY DEF OpenBreaks
<1>3. \A d : EmployeeKept(d)
  BY <1>1, <1>2 DEF EmployeeKept
<1>4. RowsLast
  BY DEF RowsLast
<1>5. BreaksOnLogs'
  BY DEF BatchSafe, TurnSafe, RowsInTurn, BreaksPlaced, BreaksOnLogs
<1>6. QED
  BY <1>3, <1>4, <1>5 DEF Keeps

\* What follows the punch of an orderly batch that wrote the log p.log.
LEMMA RaisingBatch ==
    ASSUME NEW p \in CallState, NEW todo \in Seq(AnomalyType), p.log \in Logs,
           log'[p.log].status # "none",
           p.clean =>
              /\ p.sync /\ ~p.errors /\ InOrder(p) /\ Exists(p.log)' /\ log'[p.log].employee = p.employee
              /\ p.op \in {"clock_in", "clock_out"}
              /\ p.op = "clock_out" => OpenLogs(p.employee)' = {}
              /\ p.op = "clock_in" => /\ OpenLogs(p.employee)' = {p.log} /\ log'[p.log].clockIn = p.at
                                      /\ OpenBreaks(p.log)' = {},
           NEW q, q = Raising(p, todo)
    PROVE  /\ q \in CallState /\ Sure(q)'
           /\ q.clean => q.sync /\ ~q.errors
           /\ q.clean /\ q.pc \notin {"idle", "done", "dead"} => BatchKnows(q)'
<1>1. q \in CallState
  BY RaisingTyped
<1>2. ASSUME NEW pc \in {"raise", "source"}, NEW left, q = [p EXCEPT !.pc = pc, !.todo = left],
             pc = "source" => p.op = "clock_in"
      PROVE  /\ Sure(q)'
             /\ q.clean => q.sync /\ ~q.errors /\ BatchKnows(q)'
  <2>1. /\ q.pc = pc /\ q.op = p.op /\ q.employee = p.employee /\ q.at = p.at /\ q.batch = p.batch
        /\ q.sync = p.sync /\ q.log = p.log /\ q.clean = p.clean /\ q.errors = p.errors
    BY <1>2 DEF CallState
  <2>2. Sure(q)'
    BY <1>2, <2>1 DEF Sure
  <2>3. p.clean => InOrder(q)
    BY <2>1 DEF InOrder
  <2>4. p.clean => BatchKnows(q)'
    BY <1>2, <2>1, <2>3 DEF BatchKnows, Serves, Holds, InOrder
  <2>5. QED
    BY <2>1, <2>2, <2>4
<1>3. CASE todo # <<>>
  <2>1. q = [p EXCEPT !.pc = "raise", !.todo = todo]
    BY <1>3 DEF Raising
  <2>2. QED
    BY <1>1, <1>2, <2>1
<1>4. CASE todo = <<>> /\ p.sync /\ p.op = "clock_in"
  <2>1. q = [p EXCEPT !.pc = "source"]
    BY <1>4 DEF Raising, AfterAnomalies
  <2>2. q = [p EXCEPT !.pc = "source", !.todo = p.todo]
    BY <2>1 DEF CallState
  <2>3. QED
    BY <1>1, <1>2, <1>4, <2>2
<1>5. CASE todo = <<>> /\ ~(p.sync /\ p.op = "clock_in")
  <2>1. q = Ended(p, FALSE)
    BY <1>5 DEF Raising, AfterAnomalies
  <2>2. p.clean => /\ p.sync /\ ~p.errors /\ Steady(p.batch)
                   /\ \A next \in Earliest(p.batch) : Fits(p.employee, next.kind, next.at)'
    <3>1. SUFFICES ASSUME p.clean
                   PROVE  /\ p.sync /\ ~p.errors /\ Steady(p.batch)
                          /\ \A next \in Earliest(p.batch) : Fits(p.employee, next.kind, next.at)'
      OBVIOUS
    <3>2. p.op = "clock_out" /\ OpenLogs(p.employee)' = {} /\ InOrder(p) /\ p.sync /\ ~p.errors
      BY <1>5, <3>1
    <3>3. \A next \in Earliest(p.batch) : next.kind = "clock_in"
      BY <3>2 DEF InOrder, MayFollow
    <3>4. QED
      BY <3>2, <3>3 DEF InOrder, Fits
  <2>3. QED
    BY <2>1, <2>2, EndedBatch
<1>6. QED
  BY <1>3, <1>4, <1>5

LEMMA FlagBatch ==
    ASSUME BatchSafe, TurnSafe', NEW c \in Calls, FlagLog(c)
    PROVE  BatchSafe'
<1>1. PICK p : p = call[c]
  OBVIOUS
<1>2. /\ call[c].pc = "flag" /\ p.pc = "flag" /\ break' = break /\ p \in CallState
      /\ p.clean => p.sync /\ ~p.errors /\ BatchKnows(p)
      /\ p.log \in Logs /\ log[p.log].status # "none" /\ p.todo # <<>>
      /\ log \in [Logs -> LogRow]
  BY <1>1, AtBatch DEF FlagLog, PunchKnows
<1>3. PICK todo \in Seq(AnomalyType) : todo = Tail(p.todo)
  <2>1. Tail(p.todo) \in Seq(AnomalyType)
    BY <1>2 DEF CallState
  <2>2. QED
    BY <2>1
<1>4. PICK q : q = Raising(p, todo)
  OBVIOUS
<1>5. call' = [call EXCEPT ![c] = q]
  BY <1>1, <1>3, <1>4 DEF FlagLog
<1>6. \A l \in Logs : /\ log'[l].employee = log[l].employee /\ log'[l].clockIn = log[l].clockIn
                      /\ log'[l].clockOut = log[l].clockOut /\ Exists(l)' = Exists(l)
                      /\ log'[l].flushed = log[l].flushed
                      /\ log[l].status # "none" => log'[l].status # "none"
  <2>1. CASE Exists(p.log)
    BY <1>1, <1>2, <2>1 DEF FlagLog, LogRow, Exists
  <2>2. CASE ~Exists(p.log)
    BY <1>1, <2>2 DEF FlagLog, Exists
  <2>3. QED
    BY <2>1, <2>2
<1>7. Keeps(p.employee) /\ EmployeeKept(p.employee)
  BY <1>2, <1>6, FieldsKept
<1>8. p.clean => BatchKnows(p)'
  BY <1>1, <1>2, <1>7, AtBatch, BatchKept
<1>9. p.clean =>
         /\ p.sync /\ ~p.errors /\ InOrder(p) /\ Exists(p.log)' /\ log'[p.log].employee = p.employee
         /\ p.op \in {"clock_in", "clock_out"}
         /\ p.op = "clock_out" => OpenLogs(p.employee)' = {}
         /\ p.op = "clock_in" => /\ OpenLogs(p.employee)' = {p.log} /\ log'[p.log].clockIn = p.at
                                 /\ OpenBreaks(p.log)' = {}
  BY <1>2, <1>8 DEF BatchKnows, Holds, InOrder
<1>10. log'[p.log].status # "none"
  BY <1>2, <1>6
<1>11. /\ q \in CallState /\ Sure(q)'
       /\ q.clean => q.sync /\ ~q.errors
       /\ q.clean /\ q.pc \notin {"idle", "done", "dead"} => BatchKnows(q)'
  BY <1>2, <1>4, <1>9, <1>10, RaisingBatch
<1>12. QED
  BY <1>1, <1>2, <1>5, <1>7, <1>11, BatchWrite

\* What the next event of an orderly batch can be, by the punch before it.
LEMMA NextInOrder ==
    ASSUME NEW p \in CallState, InOrder(p), NEW next \in Earliest(p.batch), NEW in \in Int, in <= p.at
    PROVE  /\ in < next.at
           /\ p.op \in {"clock_in", "break_end"} => next.kind \in {"break_start", "clock_out"}
           /\ p.op = "break_start" => /\ next.kind \in {"break_end", "clock_out"}
                                      /\ WholeMinutes(p.at, next.at)
<1>1. p.at < next.at /\ MayFollow([kind |-> p.op, at |-> p.at], next)
  BY DEF InOrder
<1>2. next.at \in Int /\ p.at \in Int
  BY AttendanceAssumption DEF Earliest, CallState, Event, Time
<1>3. in < next.at
  BY <1>1, <1>2
<1>4. p.op \in {"clock_in", "break_end"} => next.kind \in {"break_start", "clock_out"}
  BY <1>1 DEF MayFollow
<1>5. p.op = "break_start" => next.kind \in {"break_end", "clock_out"} /\ WholeMinutes(p.at, next.at)
  BY <1>1 DEF MayFollow
<1>6. QED
  BY <1>3, <1>4, <1>5

LEMMA StampBatch ==
    ASSUME BatchSafe, TurnSafe', NEW c \in Calls, StampSource(c)
    PROVE  BatchSafe'
<1>1. PICK p : p = call[c]
  OBVIOUS
<1>2. /\ call[c].pc = "stamp" /\ p.pc = "stamp" /\ break' = break /\ p \in CallState
      /\ p.clean => p.sync /\ ~p.errors /\ BatchKnows(p)
      /\ p.log \in Logs /\ log[p.log].status # "none" /\ p.op = "clock_in"
      /\ log \in [Logs -> LogRow] /\ p.at \in Int /\ log[p.log].clockIn \in Int
  <2>1. p \in CallState /\ log \in [Logs -> LogRow] /\ p.log \in Logs
    BY <1>1, AtBatch DEF StampSource, PunchKnows
  <2>2. p.at \in Int /\ log[p.log].clockIn \in Int
    BY <2>1, AttendanceAssumption DEF CallState, LogRow, Time
  <2>3. QED
    BY <1>1, <2>1, <2>2, AtBatch DEF StampSource, PunchKnows, TurnKnows
<1>3. PICK q : q = Ended(p, FALSE)
  OBVIOUS
<1>4. call' = [call EXCEPT ![c] = q]
  BY <1>1, <1>3 DEF StampSource, Answer
<1>5. \A l \in Logs : /\ log'[l].employee = log[l].employee /\ log'[l].clockIn = log[l].clockIn
                      /\ log'[l].clockOut = log[l].clockOut /\ Exists(l)' = Exists(l)
                      /\ log'[l].flushed = log[l].flushed
                      /\ log[l].status # "none" => log'[l].status # "none"
  <2>1. CASE Exists(p.log)
    BY <1>1, <1>2, <2>1 DEF StampSource, LogRow, Exists
  <2>2. CASE ~Exists(p.log)
    BY <1>1, <2>2 DEF StampSource, Exists
  <2>3. QED
    BY <2>1, <2>2
<1>6. Keeps(p.employee) /\ EmployeeKept(p.employee)
  BY <1>2, <1>5, FieldsKept
<1>7. p.clean => /\ Steady(p.batch)
                 /\ \A next \in Earliest(p.batch) : Fits(p.employee, next.kind, next.at)
  <2>1. p.clean => /\ InOrder(p) /\ OpenLogs(p.employee) = {p.log} /\ log[p.log].clockIn = p.at
                   /\ OpenBreaks(p.log) = {}
    BY <1>2 DEF BatchKnows, Holds
  <2>2. p.clean => \A next \in Earliest(p.batch) :
           log[p.log].clockIn < next.at /\ next.kind \in {"break_start", "clock_out"}
    BY <1>2, <2>1, NextInOrder
  <2>3. QED
    BY <1>2, <2>1, <2>2 DEF InOrder, Fits
<1>8. p.clean => \A next \in Earliest(p.batch) : Fits(p.employee, next.kind, next.at)'
  BY <1>6, <1>7, FitsKept
<1>9. /\ q \in CallState /\ Sure(q)'
      /\ q.clean => q.sync /\ ~q.errors
      /\ q.clean /\ q.pc \notin {"idle", "done", "dead"} => BatchKnows(q)'
  BY <1>2, <1>3, <1>7, <1>8, EndedBatch
<1>10. QED
  BY <1>1, <1>2, <1>4, <1>6, <1>9, BatchWrite

LEMMA InsertBatch ==
    ASSUME BatchSafe, TurnSafe', NEW c \in Calls, NEW l \in Logs, ClockInInsert(c, l)
    PROVE  BatchSafe'
<1>1. PICK p : p = [call[c] EXCEPT !.log = l]
  OBVIOUS
<1>2. /\ call[c].pc = "insert" /\ log[l] = NoLog /\ break' = break /\ call[c] \in CallState
      /\ call[c].op = "clock_in" /\ OpenLogs(call[c].employee) = {}
      /\ call[c].clean => call[c].sync /\ ~call[c].errors /\ BatchKnows(call[c])
      /\ log \in [Logs -> LogRow]
  BY AtBatch DEF ClockInInsert, TurnKnows
<1>3. /\ p \in CallState /\ p.log = l /\ p.op = "clock_in" /\ p.employee = call[c].employee
      /\ p.at = call[c].at /\ p.batch = call[c].batch /\ p.sync = call[c].sync
      /\ p.clean = call[c].clean /\ p.errors = call[c].errors
  BY <1>1, <1>2 DEF CallState
<1>4. PICK paired \in BOOLEAN, todo \in Seq(AnomalyType) :
         /\ log' = [log EXCEPT ![l] = [status |-> "open", employee |-> p.employee, clockIn |-> p.at,
                                       clockOut |-> Null, source |-> "online", paired |-> paired,
                                       flushed |-> FALSE]]
         /\ call' = [call EXCEPT ![c] = Raising([@ EXCEPT !.log = l], todo)]
  <2>1. PICK e, at : e = call[c].employee /\ at = call[c].at
    OBVIOUS
  <2>2. PICK paired \in Pairings(e, at) :
           /\ log' = [log EXCEPT ![l] = [status |-> "open", employee |-> e, clockIn |-> at,
                                         clockOut |-> Null, source |-> "online", paired |-> paired,
                                         flushed |-> FALSE]]
           /\ call' = [call EXCEPT ![c] = Raising([@ EXCEPT !.log = l],
                                                  IF IsLate(e, paired, at) THEN <<"late">> ELSE <<>>)]
    BY <2>1 DEF ClockInInsert
  <2>3. paired \in BOOLEAN
    BY DEF Pairings, Paired
  <2>4. <<"late">> \in Seq(AnomalyType) /\ <<>> \in Seq(AnomalyType)
    BY DEF AnomalyType
  <2>5. (IF IsLate(e, paired, at) THEN <<"late">> ELSE <<>>) \in Seq(AnomalyType)
    BY <2>4
  <2>6. QED
    BY <1>3, <2>1, <2>2, <2>3, <2>5
<1>5. PICK q : q = Raising(p, todo)
  OBVIOUS
<1>6. call' = [call EXCEPT ![c] = q]
  BY <1>1, <1>4, <1>5
<1>7. /\ log'[l].status = "open" /\ log'[l].employee = p.employee /\ log'[l].clockIn = p.at
      /\ log'[l].clockOut = Null
      /\ \A m \in Logs : m # l => log'[m] = log[m]
      /\ log[l].status = "none"
  BY <1>2, <1>4 DEF NoLog
<1>8. OpenLogs(p.employee)' = {l} /\ Exists(l)' /\ ~Exists(l)
  BY <1>2, <1>3, <1>7 DEF OpenLogs, Exists
<1>9. \A m \in Logs : OpenBreaks(m)' = OpenBreaks(m)
  BY <1>2 DEF OpenBreaks
<1>10. OpenBreaks(l)' = {}
  BY <1>8, <1>9 DEF BatchSafe, BreaksOnLogs, OpenBreaks
<1>11. Keeps(p.employee)
  <2>1. RowsLast
    BY <1>2, <1>7 DEF RowsLast, Exists
  <2>2. BreaksOnLogs'
    BY <1>2, <1>7, <1>8 DEF BatchSafe, TurnSafe, RowsInTurn, BreaksPlaced, BreaksOnLogs, Exists
  <2>3. ASSUME NEW d \in Employees \ {p.employee} PROVE EmployeeKept(d)
    <3>1. OpenLogs(d)' = OpenLogs(d)
      BY <1>7, <2>3 DEF OpenLogs, Exists
    <3>2. \A m \in Logs : Exists(m) => m # l /\ log'[m] = log[m] /\ Exists(m)'
      BY <1>7, <1>8 DEF Exists
    <3>3. QED
      BY <1>2, <1>9, <3>1, <3>2 DEF EmployeeKept
  <2>4. QED
    BY <2>1, <2>2, <2>3 DEF Keeps
<1>12. p.clean =>
          /\ p.sync /\ ~p.errors /\ InOrder(p) /\ Exists(p.log)' /\ log'[p.log].employee = p.employee
          /\ p.op \in {"clock_in", "clock_out"}
          /\ p.op = "clock_out" => OpenLogs(p.employee)' = {}
          /\ p.op = "clock_in" => /\ OpenLogs(p.employee)' = {p.log} /\ log'[p.log].clockIn = p.at
                                  /\ OpenBreaks(p.log)' = {}
  BY <1>2, <1>3, <1>7, <1>8, <1>10 DEF BatchKnows, InOrder
<1>13. p.log \in Logs /\ log'[p.log].status # "none"
  BY <1>3, <1>7
<1>14. /\ q \in CallState /\ Sure(q)'
       /\ q.clean => q.sync /\ ~q.errors
       /\ q.clean /\ q.pc \notin {"idle", "done", "dead"} => BatchKnows(q)'
  BY <1>3, <1>5, <1>12, <1>13, RaisingBatch
<1>15. Keeps(call[c].employee)
  BY <1>3, <1>11
<1>16. QED
  BY <1>2, <1>6, <1>14, <1>15, BatchWrite

LEMMA EndBreakBatch ==
    ASSUME BatchSafe, TurnSafe', NEW c \in Calls, EndBreak(c)
    PROVE  BatchSafe'
<1>1. PICK p, b : p = call[c] /\ b = call[c].brk
  OBVIOUS
<1>2. /\ call[c].pc = "endbreak" /\ p.pc = "endbreak" /\ log' = log /\ p \in CallState
      /\ p.clean => p.sync /\ ~p.errors /\ BatchKnows(p)
      /\ call \in [Calls -> CallState] /\ break \in [Breaks -> BreakRow] /\ p.log \in Logs /\ b \in Breaks
      /\ break[b].state # "none" /\ break[b].log = p.log /\ OnOpenLog(p) /\ p.employee \in Employees
      /\ b = p.brk
  BY <1>1, AtBatch DEF EndBreak, PunchKnows, TurnKnows, Sure, Serves
<1>3. p.at \in Int /\ p.at # Null /\ p.at \in Time /\ \A l \in Logs : log[l].clockIn \in Int
  BY <1>2, AtBatch, AttendanceAssumption DEF CallState, LogRow, Time, BatchSafe, TurnSafe, PunchSafe, TypeOK
<1>4. CASE ~WholeMinutes(break[b].start, p.at)
  <2>1. Refuse(c) /\ break' = break
    BY <1>1, <1>4 DEF EndBreak
  <2>2. ~p.clean
    <3>1. SUFFICES ASSUME p.clean PROVE FALSE
      OBVIOUS
    <3>2. /\ OpenLogs(p.employee) = {p.log} /\ Fits(p.employee, p.op, p.at) /\ p.op # "clock_in"
          /\ b \in OpenBreaks(p.log)
      BY <1>2, <3>1 DEF BatchKnows, Serves
    <3>3. \A x \in OpenBreaks(p.log) : WholeMinutes(break[x].start, p.at)
      BY <3>2 DEF Fits
    <3>4. QED
      BY <1>4, <3>2, <3>3
  <2>3. QED
    BY <1>1, <1>2, <2>1, <2>2, BatchRefused
<1>5. CASE WholeMinutes(break[b].start, p.at)
  <2>1. break' = IF break[b].state = "present" THEN [break EXCEPT ![b].end = p.at] ELSE break
    BY <1>1, <1>5 DEF EndBreak
  <2>2. /\ \A x \in Breaks : /\ x # b => break'[x] = break[x]
                             /\ break'[x].state = break[x].state /\ break'[x].log = break[x].log
                             /\ break'[x].start = break[x].start
        /\ break[b].state = "present" => break'[b].end = p.at
    BY <1>2, <2>1 DEF BreakRow
  <2>3. \A l \in Logs : OpenBreaks(l)' = OpenBreaks(l) \ {b}
    BY <1>2, <1>3, <2>2 DEF OpenBreaks
  <2>4. \A l : (Exists(l)' <=> Exists(l)) /\ OpenLogs(l)' = OpenLogs(l)
    BY <1>2 DEF Exists, OpenLogs
  <2>5. Keeps(p.employee)
    <3>1. RowsLast
      BY <1>2, <2>2 DEF RowsLast, Exists
    <3>2. BreaksOnLogs'
      BY <2>2, <2>4 DEF BatchSafe, BreaksOnLogs
    <3>3. ASSUME NEW d \in Employees \ {p.employee} PROVE EmployeeKept(d)
      <4>1. ASSUME NEW l \in Logs, Exists(l), log[l].employee = d PROVE b \notin OpenBreaks(l)
        BY <1>2, <3>3, <4>1 DEF OpenBreaks, OnOpenLog
      <4>2. \A l \in Logs : Exists(l) /\ log[l].employee = d => OpenBreaks(l)' = OpenBreaks(l)
        BY <2>3, <4>1
      <4>3. \A l \in Logs : \A x \in OpenBreaks(l) : break'[x].start = break[x].start
        BY <2>2 DEF OpenBreaks
      <4>4. QED
        BY <1>2, <2>4, <4>2, <4>3 DEF EmployeeKept
    <3>4. QED
      BY <3>1, <3>2, <3>3 DEF Keeps
  <2>6. p.clean => /\ InOrder(p) /\ OpenLogs(p.employee)' = {p.log} /\ OpenBreaks(p.log)' = {}
                   /\ log'[p.log].clockIn \in Int /\ log'[p.log].clockIn < p.at
    <3>1. SUFFICES ASSUME p.clean
                   PROVE  /\ InOrder(p) /\ OpenLogs(p.employee)' = {p.log} /\ OpenBreaks(p.log)' = {}
                          /\ log'[p.log].clockIn \in Int /\ log'[p.log].clockIn < p.at
      OBVIOUS
    <3>2. /\ InOrder(p) /\ OpenLogs(p.employee) = {p.log} /\ Fits(p.employee, p.op, p.at)
          /\ p.op # "clock_in"
      BY <1>2, <3>1 DEF BatchKnows, Serves
    <3>3. log[p.log].clockIn < p.at
      BY <3>2 DEF Fits
    <3>4. OpenBreaks(p.log) \subseteq {b}
      <4>1. b \in OpenBreaks(p.log)
        BY <1>2, <3>1 DEF BatchKnows
      <4>2. QED
        BY <1>2, <4>1 DEF BatchSafe, TurnSafe, RowsInTurn, OneOpenBreak
    <3>5. OpenBreaks(p.log)' = {}
      BY <1>2, <2>3, <3>4
    <3>6. QED
      BY <1>2, <1>3, <2>4, <3>2, <3>3, <3>5
  <2>7. CASE p.op = "clock_out"
    <3>1. PICK q : q = [p EXCEPT !.pc = "close"]
      OBVIOUS
    <3>2. /\ q \in CallState /\ q.pc = "close" /\ q.op = p.op /\ q.employee = p.employee /\ q.at = p.at
          /\ q.batch = p.batch /\ q.sync = p.sync /\ q.log = p.log
          /\ q.clean = p.clean /\ q.errors = p.errors
      BY <1>2, <3>1 DEF CallState, Pc
    <3>3. call' = [call EXCEPT ![c] = q]
      BY <1>1, <1>2, <1>5, <2>7, <3>1 DEF EndBreak, Goto
    <3>4. Sure(q)'
      BY <3>2 DEF Sure
    <3>5. p.clean => InOrder(q) /\ Fits(p.employee, p.op, p.at)'
      BY <1>2, <2>6, <2>7, <3>2 DEF InOrder, Fits
    <3>6. p.clean => BatchKnows(q)'
      BY <2>6, <3>2, <3>5 DEF BatchKnows, Serves, Holds, InOrder
    <3>7. QED
      BY <1>1, <1>2, <2>5, <3>2, <3>3, <3>4, <3>6, BatchWrite
  <2>8. CASE p.op # "clock_out"
    <3>1. PICK q : q = Ended(p, FALSE)
      OBVIOUS
    <3>2. call' = [call EXCEPT ![c] = q]
      BY <1>1, <1>5, <2>8, <3>1 DEF EndBreak, Answer
    <3>3. p.clean => p.op = "break_end"
      BY <1>2, <2>8 DEF BatchKnows
    <3>4. p.clean => \A next \in Earliest(p.batch) :
             log'[p.log].clockIn < next.at /\ next.kind \in {"break_start", "clock_out"}
      BY <1>2, <1>3, <2>6, <3>3, NextInOrder
    <3>5. p.clean => /\ Steady(p.batch)
                     /\ \A next \in Earliest(p.batch) : Fits(p.employee, next.kind, next.at)'
      BY <1>2, <2>6, <3>4 DEF InOrder, Fits
    <3>6. /\ q \in CallState /\ Sure(q)'
          /\ q.clean => q.sync /\ ~q.errors
          /\ q.clean /\ q.pc \notin {"idle", "done", "dead"} => BatchKnows(q)'
      BY <1>2, <3>1, <3>5, EndedBatch
    <3>7. QED
      BY <1>1, <1>2, <2>5, <3>2, <3>6, BatchWrite
  <2>9. QED
    BY <2>7, <2>8
<1>6. QED
  BY <1>4, <1>5

LEMMA StartBreakBatch ==
    ASSUME BatchSafe, TurnSafe', NEW c \in Calls, NEW b \in Breaks, StartBreak(c, b)
    PROVE  BatchSafe'
<1>1. PICK p : p = call[c]
  OBVIOUS
<1>2. /\ call[c].pc = "newbreak" /\ p.pc = "newbreak" /\ log' = log /\ p \in CallState
      /\ p.clean => p.sync /\ ~p.errors /\ BatchKnows(p)
      /\ break \in [Breaks -> BreakRow] /\ p.log \in Logs /\ break[b] = NoBreak
      /\ OnOpenLog(p) /\ p.employee \in Employees /\ OpenBreaks(p.log) = {}
  BY <1>1, AtBatch DEF StartBreak, PunchKnows, TurnKnows, Serves
<1>3. p.at \in Int /\ \A l \in Logs : log[l].clockIn \in Int
  BY <1>2, AtBatch, AttendanceAssumption DEF CallState, LogRow, Time, BatchSafe, TurnSafe, PunchSafe, TypeOK
<1>4. p.clean => /\ InOrder(p) /\ OpenLogs(p.employee) = {p.log} /\ p.op = "break_start"
                 /\ log[p.log].clockIn < p.at
  <2>1. p.clean => /\ InOrder(p) /\ OpenLogs(p.employee) = {p.log} /\ p.op = "break_start"
                   /\ Fits(p.employee, p.op, p.at)
    BY <1>2 DEF BatchKnows, Serves
  <2>2. QED
    BY <2>1 DEF Fits
<1>5. CASE ~Exists(p.log)
  <2>1. Refuse(c) /\ break' = break
    BY <1>1, <1>5 DEF StartBreak
  <2>2. ~p.clean
    BY <1>4, <1>5 DEF OpenLogs
  <2>3. QED
    BY <1>1, <1>2, <2>1, <2>2, BatchRefused
<1>6. CASE Exists(p.log)
  <2>1. break' = [break EXCEPT ![b] = [state |-> "present", log |-> p.log, start |-> p.at, end |-> Null]]
    BY <1>1, <1>6 DEF StartBreak
  <2>2. /\ \A x \in Breaks : x # b => break'[x] = break[x]
        /\ break'[b].state = "present" /\ break'[b].log = p.log /\ break'[b].start = p.at
        /\ break'[b].end = Null /\ break[b].state = "none"
    BY <1>2, <2>1 DEF NoBreak
  <2>3. \A l \in Logs : OpenBreaks(l)' = IF l = p.log THEN OpenBreaks(l) \cup {b} ELSE OpenBreaks(l)
    BY <1>2, <2>2 DEF OpenBreaks
  <2>4. \A l : (Exists(l)' <=> Exists(l)) /\ OpenLogs(l)' = OpenLogs(l)
    BY <1>2 DEF Exists, OpenLogs
  <2>5. Keeps(p.employee)
    <3>1. RowsLast
      BY <1>2, <2>2 DEF RowsLast, Exists
    <3>2. BreaksOnLogs'
      BY <1>6, <2>2, <2>4 DEF BatchSafe, BreaksOnLogs
    <3>3. ASSUME NEW d \in Employees \ {p.employee} PROVE EmployeeKept(d)
      <4>1. \A l \in Logs : Exists(l) /\ log[l].employee = d => OpenBreaks(l)' = OpenBreaks(l)
        BY <1>2, <2>3, <3>3 DEF OnOpenLog
      <4>2. \A l \in Logs : \A x \in OpenBreaks(l) : break'[x].start = break[x].start
        BY <2>2 DEF OpenBreaks
      <4>3. QED
        BY <1>2, <2>4, <4>1, <4>2 DEF EmployeeKept
    <3>4. QED
      BY <3>1, <3>2, <3>3 DEF Keeps
  <2>6. PICK q : q = Ended(p, FALSE)
    OBVIOUS
  <2>7. call' = [call EXCEPT ![c] = q]
    BY <1>1, <1>6, <2>6 DEF StartBreak, Answer
  <2>8. OpenBreaks(p.log)' = {b}
    BY <1>2, <2>3
  <2>9. p.clean => \A next \in Earliest(p.batch) :
           /\ log[p.log].clockIn < next.at /\ next.kind \in {"break_end", "clock_out"}
           /\ WholeMinutes(p.at, next.at)
    BY <1>2, <1>3, <1>4, NextInOrder
  <2>10. p.clean => /\ Steady(p.batch)
                    /\ \A next \in Earliest(p.batch) : Fits(p.employee, next.kind, next.at)'
    <3>1. SUFFICES ASSUME p.clean, NEW next \in Earliest(p.batch)
                   PROVE  Fits(p.employee, next.kind, next.at)'
      BY <1>4 DEF InOrder
    <3>2. /\ OpenLogs(p.employee)' = {p.log} /\ log'[p.log].clockIn < next.at
          /\ next.kind \in {"break_end", "clock_out"}
          /\ \A x \in OpenBreaks(p.log)' : WholeMinutes(break'[x].start, next.at)
      BY <1>2, <1>4, <2>2, <2>4, <2>8, <2>9, <3>1
    <3>3. QED
      BY <1>2, <2>8, <3>2 DEF Fits
  <2>11. /\ q \in CallState /\ Sure(q)'
         /\ q.clean => q.sync /\ ~q.errors
         /\ q.clean /\ q.pc \notin {"idle", "done", "dead"} => BatchKnows(q)'
    BY <1>2, <2>6, <2>10, EndedBatch
  <2>12. QED
    BY <1>1, <1>2, <2>5, <2>7, <2>11, BatchWrite
<1>7. QED
  BY <1>5, <1>6

LEMMA CloseBatch ==
    ASSUME BatchSafe, TurnSafe', NEW c \in Calls, CloseLog(c)
    PROVE  BatchSafe'
<1>1. PICK p : p = call[c]
  OBVIOUS
<1>2. /\ call[c].pc = "close" /\ p.pc = "close" /\ break' = break /\ p \in CallState
      /\ p.clean => p.sync /\ ~p.errors /\ BatchKnows(p)
      /\ log \in [Logs -> LogRow] /\ p.log \in Logs /\ p.op = "clock_out"
      /\ OnOpenLog(p) /\ p.employee \in Employees
  BY <1>1, AtBatch DEF CloseLog, PunchKnows, TurnKnows, Serves
<1>3. p.clean => InOrder(p) /\ OpenLogs(p.employee) = {p.log}
  BY <1>2 DEF BatchKnows, Serves
<1>4. CASE ~Exists(p.log)
  <2>1. Refuse(c) /\ log' = log
    BY <1>1, <1>4 DEF CloseLog
  <2>2. ~p.clean
    BY <1>3, <1>4 DEF OpenLogs
  <2>3. QED
    BY <1>1, <1>2, <2>1, <2>2, BatchRefused
<1>5. CASE Exists(p.log)
  <2>1. PICK row, todo : /\ row = [log[p.log] EXCEPT !.clockOut = p.at, !.status = "closed",
                                                !.flushed = @ \/ p.sync]
                         /\ todo = OnClose(row)
    OBVIOUS
  <2>2. log' = [log EXCEPT ![p.log] = row] /\ call' = [call EXCEPT ![c] = Raising(p, todo)]
    BY <1>1, <1>5, <2>1 DEF CloseLog
  <2>3. todo \in Seq(AnomalyType)
    <3>1. /\ <<"early_leave">> \in Seq(AnomalyType) /\ <<"over_hours">> \in Seq(AnomalyType)
          /\ <<>> \in Seq(AnomalyType)
      BY DEF AnomalyType
    <3>2. PICK s, t \in Seq(AnomalyType) : todo = s \o t
      BY <2>1, <3>1, Zenon DEF OnClose
    <3>3. QED
      BY <3>2
  <2>4. /\ log[p.log] \in LogRow /\ log[p.log].employee = p.employee /\ log[p.log].clockOut = Null
        /\ p.at # Null
    <3>1. p.at \in Int
      BY <1>2, AttendanceAssumption DEF CallState, Time
    <3>2. QED
      BY <1>2, <1>5, <3>1, AttendanceAssumption DEF OnOpenLog
  <2>5. row.status = "closed" /\ row.clockOut = p.at /\ row.employee = p.employee
    BY <2>1, <2>4 DEF LogRow
  <2>6. log'[p.log] = row /\ \A m \in Logs : m # p.log => log'[m] = log[m]
    BY <1>2, <2>2
  <2>7. \A m \in Logs : /\ Exists(m)' <=> Exists(m)
                        /\ log'[m].employee = log[m].employee
                        /\ log[m].status # "none" => log'[m].status # "none"
    BY <1>5, <2>4, <2>5, <2>6 DEF Exists
  <2>8. Keeps(p.employee)
    <3>1. RowsLast
      BY <1>2, <2>7 DEF RowsLast
    <3>2. BreaksOnLogs'
      BY <1>2, <2>7 DEF BatchSafe, TurnSafe, RowsInTurn, BreaksPlaced, BreaksOnLogs
    <3>3. ASSUME NEW d \in Employees \ {p.employee} PROVE EmployeeKept(d)
      <4>1. \A m \in Logs : log[m].employee = d => m # p.log /\ log'[m] = log[m]
        BY <2>4, <2>6, <3>3
      <4>2. OpenLogs(d)' = OpenLogs(d)
        BY <2>7, <4>1 DEF OpenLogs
      <4>3. \A m : OpenBreaks(m)' = OpenBreaks(m)
        BY <1>2 DEF OpenBreaks
      <4>4. QED
        BY <1>2, <2>7, <4>1, <4>2, <4>3 DEF EmployeeKept
    <3>4. QED
      BY <3>1, <3>2, <3>3 DEF Keeps
  <2>9. p.clean => OpenLogs(p.employee)' = {}
    BY <1>3, <2>4, <2>5, <2>6 DEF OpenLogs, Exists
  <2>10. p.clean =>
            /\ p.sync /\ ~p.errors /\ InOrder(p) /\ Exists(p.log)' /\ log'[p.log].employee = p.employee
            /\ p.op \in {"clock_in", "clock_out"}
            /\ p.op = "clock_out" => OpenLogs(p.employee)' = {}
            /\ p.op = "clock_in" => /\ OpenLogs(p.employee)' = {p.log} /\ log'[p.log].clockIn = p.at
                                    /\ OpenBreaks(p.log)' = {}
    BY <1>2, <1>3, <1>5, <2>5, <2>6, <2>7, <2>9
  <2>11. PICK q : q = Raising(p, todo)
    OBVIOUS
  <2>12. call' = [call EXCEPT ![c] = q] /\ log'[p.log].status # "none"
    BY <2>2, <2>5, <2>6, <2>11
  <2>13. /\ q \in CallState /\ Sure(q)'
         /\ q.clean => q.sync /\ ~q.errors
         /\ q.clean /\ q.pc \notin {"idle", "done", "dead"} => BatchKnows(q)'
    BY <1>2, <2>3, <2>10, <2>11, <2>12, RaisingBatch
  <2>14. QED
    BY <1>1, <1>2, <2>8, <2>12, <2>13, BatchWrite
<1>6. QED
  BY <1>4, <1>5

LEMMA DeleteBatch ==
    ASSUME BatchSafe, TurnSafe', NEW c \in Calls, DeleteLog(c)
    PROVE  BatchSafe'
<1>1. PICK p, l : p = call[c] /\ l = call[c].target
  OBVIOUS
<1>2. /\ call[c].pc = "delete" /\ p.pc = "delete" /\ p \in CallState /\ l \in Logs
      /\ p.clean => p.sync /\ ~p.errors /\ BatchKnows(p)
      /\ p.op = "delete" /\ log[l].status # "none" /\ (Exists(l) => log[l].employee = p.employee)
      /\ log \in [Logs -> LogRow] /\ break \in [Breaks -> BreakRow] /\ p.employee \in Employees
  BY <1>1, AtBatch DEF DeleteLog, Sure
<1>3. ~p.clean
  BY <1>2 DEF BatchKnows, InOrder, PunchKind
<1>4. /\ log' = [log EXCEPT ![l] = [NoLog EXCEPT !.status = "gone"]]
      /\ break' = [b \in Breaks |-> IF break[b].state = "present" /\ break[b].log = l
                                     THEN [break[b] EXCEPT !.state = "gone"] ELSE break[b]]
  BY <1>1 DEF DeleteLog
<1>5. log'[l].status = "gone" /\ \A m \in Logs : m # l => log'[m] = log[m]
  BY <1>2, <1>4 DEF NoLog
<1>6. \A b \in Breaks :
         /\ break[b].state = "present" /\ break[b].log = l => break'[b].state = "gone"
         /\ ~(break[b].state = "present" /\ break[b].log = l) => break'[b] = break[b]
         /\ break'[b].log = break[b].log /\ break'[b].start = break[b].start
         /\ break'[b].end = break[b].end
  <2>1. SUFFICES ASSUME NEW b \in Breaks
                 PROVE  /\ break[b].state = "present" /\ break[b].log = l => break'[b].state = "gone"
                        /\ ~(break[b].state = "present" /\ break[b].log = l) => break'[b] = break[b]
                        /\ break'[b].log = break[b].log /\ break'[b].start = break[b].start
                        /\ break'[b].end = break[b].end
    OBVIOUS
  <2>2. break[b] \in BreakRow
    BY <1>2
  <2>3. break'[b] = IF break[b].state = "present" /\ break[b].log = l
                    THEN [break[b] EXCEPT !.state = "gone"] ELSE break[b]
    BY <1>4
  <2>4. QED
    BY <2>2, <2>3 DEF BreakRow
<1>7. Keeps(p.employee)
  <2>1. RowsLast
    BY <1>2, <1>5, <1>6 DEF RowsLast, Exists
  <2>2. BreaksOnLogs'
    <3>1. SUFFICES ASSUME NEW b \in Breaks, break'[b].state = "present" PROVE Exists(break[b].log)'
      BY DEF BreaksOnLogs
    <3>2. break'[b] = break[b] /\ break[b].state = "present" /\ break[b].log # l
      BY <1>6, <3>1
    <3>3. break[b].log \in Logs /\ Exists(break[b].log)
      BY <3>2 DEF BatchSafe, TurnSafe, RowsInTurn, BreaksPlaced, BreaksOnLogs
    <3>4. QED
      BY <1>5, <3>2, <3>3 DEF Exists
  <2>3. ASSUME NEW d \in Employees \ {p.employee} PROVE EmployeeKept(d)
    <3>1. ~Exists(l)'
      BY <1>5 DEF Exists
    <3>2. \A m \in Logs : Exists(m) /\ log[m].employee = d => m # l /\ log'[m] = log[m] /\ Exists(m)'
      BY <1>2, <1>5, <2>3 DEF Exists
    <3>3. OpenLogs(d)' = OpenLogs(d)
      BY <1>5, <3>1, <3>2 DEF OpenLogs, Exists
    <3>4. \A m \in Logs : m # l => OpenBreaks(m)' = OpenBreaks(m)
      BY <1>6 DEF OpenBreaks
    <3>5. \A m \in Logs : \A x \in OpenBreaks(m) : break'[x].start = break[x].start
      BY <1>6 DEF OpenBreaks
    <3>6. QED
      BY <3>2, <3>3, <3>4, <3>5 DEF EmployeeKept
  <2>4. QED
    BY <2>1, <2>2, <2>3 DEF Keeps
<1>8. PICK q : q = Ended(p, FALSE)
  OBVIOUS
<1>9. call' = [call EXCEPT ![c] = q]
  BY <1>1, <1>8 DEF DeleteLog, Answer
<1>10. /\ q \in CallState /\ Sure(q)'
       /\ q.clean => q.sync /\ ~q.errors
       /\ q.clean /\ q.pc \notin {"idle", "done", "dead"} => BatchKnows(q)'
  BY <1>2, <1>3, <1>8, EndedBatch
<1>11. QED
  BY <1>1, <1>2, <1>7, <1>9, <1>10, BatchWrite

LEMMA CrashBatch ==
    ASSUME BatchSafe, TurnSafe', NEW c \in Calls, Crash(c)
    PROVE  BatchSafe'
<1>1. PICK q : q = [Fresh EXCEPT !.pc = "dead"]
  OBVIOUS
<1>2. q \in CallState /\ q.pc = "dead" /\ q.clean = FALSE
  BY <1>1, FreshTyped DEF CallState, Pc, Fresh
<1>3. /\ call[c].pc \notin {"idle", "done", "dead"} /\ call' = [call EXCEPT ![c] = q]
      /\ UNCHANGED <<log, break>>
  BY <1>1 DEF Crash, Active
<1>4. QED
  BY <1>2, <1>3, BatchMove

LEMMA TickBatch ==
    ASSUME BatchSafe, TurnSafe', Tick \/ UNCHANGED vars
    PROVE  BatchSafe'
<1>1. UNCHANGED <<log, break, call>>
  BY DEF Tick, vars
<1>2. BreaksOnLogs'
  BY <1>1 DEF BatchSafe, BreaksOnLogs, Exists
<1>3. ASSUME NEW c \in Calls
      PROVE  /\ Active(c)' => Sure(call[c])'
             /\ call'[c].clean => call'[c].sync /\ ~call'[c].errors /\ (Active(c)' => BatchKnows(call[c])')
  <2>1. PICK p : p = call[c]
    OBVIOUS
  <2>2. /\ call'[c] = p /\ (Active(c)' => Active(c))
        /\ Active(c) => Sure(p)
        /\ p.clean => p.sync /\ ~p.errors /\ (Active(c) => BatchKnows(p))
    BY <1>1, <2>1 DEF BatchSafe, Active
  <2>3. (Sure(p) => Sure(p)') /\ (BatchKnows(p) => BatchKnows(p)')
    BY <1>1, SameRows
  <2>4. QED
    BY <2>2, <2>3
<1>4. QED
  BY <1>2, <1>3 DEF BatchSafe

LEMMA BatchStep ==
    ASSUME Exclusive, ~ByName, ~BackDated, BatchSafe, [Next]_vars
    PROVE  BatchSafe'
<1>1. TurnSafe'
  BY TurnStep DEF BatchSafe
<1>2. CASE Tick \/ UNCHANGED vars
  BY <1>1, <1>2, TickBatch
<1>3. ASSUME NEW c \in Calls, NEW e \in Employees, Begin(c, e),
             \/ \E op \in PunchKind \cup {"delete"}, target \in Logs \cup {Null}, at \in Time :
                   Punch(c, e, op, target, at)
             \/ \E batch \in Batches : Sync(c, e, batch)
      PROVE  BatchSafe'
  BY <1>1, <1>3, BeginBatch
<1>4. ASSUME NEW c \in Calls, Proceed(c)
      PROVE  BatchSafe'
  BY <1>1, <1>4, NextEventBatch, LookBatch, InsertBatch, RaiseBatch, FlagBatch, FindSourceBatch,
     StampBatch, ResolveBatch, FindBreakBatch, EndBreakBatch, StartBreakBatch, CloseBatch,
     DeleteBatch DEF Proceed
<1>5. ASSUME NEW c \in Calls, Crash(c)
      PROVE  BatchSafe'
  BY <1>1, <1>5, CrashBatch
<1>6. QED
  BY <1>2, <1>3, <1>4, <1>5 DEF Next

LEMMA BatchInit == Init => BatchSafe
<1>1. SUFFICES ASSUME Init PROVE BatchSafe
  OBVIOUS
<1>2. TurnSafe
  BY <1>1, TurnInit
<1>3. /\ \A c \in Calls : ~Active(c) /\ call[c].clean = FALSE
      /\ \A b \in Breaks : break[b].state = "none"
  BY <1>1 DEF Init, Active, Fresh, NoBreak
<1>4. QED
  BY <1>2, <1>3 DEF BatchSafe, BreaksOnLogs

LEMMA TurnHolds == TurnSafe => OneOpenLog /\ NoDanglingBreak /\ SpansDisjoint
<1>1. SUFFICES ASSUME TurnSafe, AllAnswered PROVE \A e \in Employees : \A l, m \in Online(e) :
                  l # m => Ends(l) <= log[m].clockIn \/ Ends(m) <= log[l].clockIn
  BY DEF TurnSafe, RowsInTurn, SpansDisjoint
<1>2. \A c \in Calls : call[c].pc # "dead" /\ ~Holds(call[c])
  BY <1>1 DEF AllAnswered, Holds
<1>3. \A l : ~InHand(l)
  BY <1>2 DEF InHand
<1>4. QED
  BY <1>1, <1>2, <1>3 DEF TurnSafe, RowsInTurn, SpansApart, Apart

-----------------------------------------------------------------------------
(* Corrections *)

\* A correction goes with its log.
OnLog == \A k \in Ids : Cor!Exists(k) => log \in Cor!Log

\* Once asked for, a correction is there or has been deleted, and its id is not used again.
Asked(k) == k \in Ids /\ correction[k] \in Cor!Correction \cup {Gone}
Located ==
    \A c \in Deciders :
        /\ call[c].pc \in {"apply", "settle", "reject"} => Asked(call[c].id)
        /\ call[c].pc = "close" => call[c].at \in Times
AppliedAsked == \A k \in applied : Asked(k)

\* A handler that is about to say "approved" has written the log.
SettlesApplied == \A c \in Deciders : Cor!At(c, "settle") /\ Cor!Exists(call[c].id) => call[c].id \in applied

\* Where handlers do not overlap, nothing was decided since the handler looked.
OneRuns == ~overlap => \A c, d \in Deciders : ~Cor!At(c, "idle") /\ ~Cor!At(d, "idle") => c = d
StillAsked ==
    ~overlap => \A c \in Deciders :
        call[c].pc \in {"apply", "reject"} /\ Cor!Exists(call[c].id) =>
            correction[call[c].id].status = "requested"

CorrectionsSafe ==
    /\ Cor!TypeOK /\ OnLog /\ Located /\ AppliedAsked /\ SettlesApplied /\ OneRuns /\ StillAsked
    /\ Cor!DecidedIsDone /\ Cor!NoFieldUndone

-----------------------------------------------------------------------------
(* Rows of the log *)

LEMMA OpenedRow ==
    ASSUME Cor!CorrectionsAssumption, NEW t \in Times
    PROVE  /\ Cor!Opened(t) \in Cor!Log
           /\ [f \in Cor!Field \ {"status"} |-> Cor!Opened(t)[f]] \in [Cor!Field \ {"status"} -> Times \cup {Null}]
<1>1. /\ Cor!Opened(t) \in [Cor!Field -> Times \cup Cor!Status \cup {Null}]
      /\ Cor!Opened(t)["clock_in_utc"] = t /\ Cor!Opened(t)["clock_out_utc"] = Null
      /\ Cor!Opened(t)["status"] = "open"
  BY DEF Cor!Opened, Cor!Field, Cor!Status
<1>2. QED
  BY <1>1 DEF Cor!Log, Cor!Field, Cor!Status

\* A row with a field and the status written over is a row.
LEMMA WrittenRow ==
    ASSUME NEW row \in Cor!Log, NEW field \in Cor!Field, NEW value, Cor!Takes(field, value),
           NEW status \in Cor!Status, NEW new \in [Cor!Field -> Times \cup Cor!Status \cup {Null}],
           \A f \in Cor!Field :
              new[f] = IF f = field THEN value ELSE IF f = "status" THEN status ELSE row[f]
    PROVE  new \in Cor!Log
<1>1. /\ row["clock_in_utc"] \in Times /\ row["clock_out_utc"] \in Times \cup {Null}
      /\ row["status"] \in Cor!Status
  BY DEF Cor!Log
<1>2. /\ field = "status" => value \in Cor!Status
      /\ field # "status" => value \in Times
  BY DEF Cor!Takes
<1>3. QED
  BY <1>1, <1>2 DEF Cor!Log, Cor!Field

-----------------------------------------------------------------------------

LEMMA CorrectionsInit ==
    ASSUME Cor!CorrectionsAssumption
    PROVE  Cor!Init => CorrectionsSafe
<1> SUFFICES ASSUME Cor!Init PROVE CorrectionsSafe
  OBVIOUS
<1>1. PICK t \in Times : log = Cor!Opened(t)
  BY DEF Cor!Init
<1>2. /\ log \in Cor!Log /\ meant \in [Cor!Field \ {"status"} -> Times \cup {Null}]
      /\ Cor!NoFieldUndone
  BY <1>1, OpenedRow DEF Cor!Init, Cor!NoFieldUndone
<1>3. Cor!TypeOK
  BY <1>2 DEF Cor!Init, Cor!TypeOK, Cor!CallState, Cor!Idle
<1>4. /\ OnLog /\ Located /\ AppliedAsked /\ SettlesApplied /\ OneRuns /\ StillAsked
      /\ Cor!DecidedIsDone
  BY DEF Cor!Init, OnLog, Located, AppliedAsked, SettlesApplied, OneRuns, StillAsked, Cor!DecidedIsDone,
         Cor!Exists, Cor!At, Cor!Idle
<1>5. QED
  BY <1>2, <1>3, <1>4 DEF CorrectionsSafe

LEMMA RequestSafe ==
    ASSUME Cor!CorrectionsAssumption, CorrectionsSafe, NEW k \in Ids, NEW field \in Cor!Field,
           NEW value \in Cor!Values(field), Cor!RequestCorrection(k, field, value)
    PROVE  CorrectionsSafe'
<1> DEFINE row == [field |-> field, value |-> value, status |-> "requested"]
<1>1. row \in Cor!Correction
  BY DEF Cor!Correction, Cor!Values
<1>2. /\ correction' = [correction EXCEPT ![k] = row]
      /\ UNCHANGED <<log, call, overlap, applied, torn, meant>>
      /\ correction[k] = Null /\ log # Gone
  BY DEF Cor!RequestCorrection, Cor!History
<1> HIDE DEF row
<1>3. /\ correction'[k] = row /\ \A j \in Ids : j # k => correction'[j] = correction[j]
      /\ ~Asked(k)
  BY <1>2 DEF CorrectionsSafe, Cor!TypeOK, Asked, Cor!CorrectionsAssumption
<1>4. \A j : Asked(j) => j # k /\ Asked(j)' /\ (Cor!Exists(j)' <=> Cor!Exists(j)) /\ correction'[j] = correction[j]
  BY <1>3 DEF Asked, Cor!Exists
<1>5. Cor!TypeOK' /\ OnLog'
  BY <1>1, <1>2 DEF CorrectionsSafe, Cor!TypeOK, OnLog
<1>6. Located' /\ AppliedAsked'
  BY <1>2, <1>4 DEF CorrectionsSafe, Located, AppliedAsked
<1>7. SettlesApplied' /\ OneRuns' /\ StillAsked'
  BY <1>2, <1>4 DEF CorrectionsSafe, Located, SettlesApplied, OneRuns, StillAsked, Cor!At
<1>8. Cor!DecidedIsDone'
  <2>1. k \notin applied /\ row.status = "requested"
    BY <1>3 DEF CorrectionsSafe, AppliedAsked, row
  <2>2. QED
    BY <1>2, <1>3, <2>1 DEF CorrectionsSafe, Cor!DecidedIsDone, Cor!Exists, Cor!At
<1>9. Cor!NoFieldUndone'
  BY <1>2 DEF CorrectionsSafe, Cor!NoFieldUndone
<1>10. QED
  BY <1>5, <1>6, <1>7, <1>8, <1>9 DEF CorrectionsSafe

\* A handler starts when it may, and has not written anything.
LEMMA StartSafe ==
    ASSUME Cor!CorrectionsAssumption, CorrectionsSafe, NEW c \in Deciders, NEW locals \in Cor!CallState,
           Cor!MayStart(c), call' = [call EXCEPT ![c] = locals],
           UNCHANGED <<log, correction, overlap, applied, torn, meant>>,
           locals.pc \in {"apply", "reject", "close"},
           locals.pc \in {"apply", "reject"} => Cor!MayDecide(locals.id) /\ locals.id \in Ids,
           locals.pc = "close" => locals.at \in Times
    PROVE  CorrectionsSafe'
<1>1. /\ call'[c] = locals /\ \A d \in Deciders : d # c => call'[d] = call[d]
      /\ call[c].pc = "idle"
  BY DEF CorrectionsSafe, Cor!TypeOK, Cor!MayStart, Cor!At
<1>2. Cor!TypeOK'
  BY DEF CorrectionsSafe, Cor!TypeOK
<1>3. OnLog' /\ AppliedAsked' /\ Cor!NoFieldUndone'
  BY DEF CorrectionsSafe, OnLog, Cor!Exists, AppliedAsked, Asked, Cor!NoFieldUndone
<1>4. locals.pc \in {"apply", "reject"} =>
        Asked(locals.id) /\ correction[locals.id].status = "requested"
  BY DEF CorrectionsSafe, Cor!TypeOK, Cor!MayDecide, Cor!Exists, Asked
<1>5. Located'
  BY <1>1, <1>4 DEF CorrectionsSafe, Located, Asked
<1>6. SettlesApplied'
  BY <1>1 DEF CorrectionsSafe, SettlesApplied, Cor!At, Cor!Exists
<1>7. OneRuns'
  BY <1>1 DEF CorrectionsSafe, OneRuns, Cor!MayStart, Cor!At
<1>8. StillAsked'
  BY <1>1, <1>4 DEF CorrectionsSafe, StillAsked, Cor!Exists
<1>9. Cor!DecidedIsDone'
  BY <1>1 DEF CorrectionsSafe, Cor!DecidedIsDone, Cor!Exists, Cor!At
<1>10. QED
  BY <1>2, <1>3, <1>5, <1>6, <1>7, <1>8, <1>9 DEF CorrectionsSafe

\* A handler ends with nothing more done; one that dies half way is torn.
LEMMA EndSafe ==
    ASSUME Cor!CorrectionsAssumption, CorrectionsSafe, NEW c \in Deciders, ~Cor!At(c, "idle"), Cor!Return(c),
           UNCHANGED <<log, correction, overlap, applied, meant>>,
           torn' = IF Cor!At(c, "settle") THEN torn \cup {call[c].id} ELSE torn
    PROVE  CorrectionsSafe'
<1>1. /\ call'[c] = Cor!Idle /\ \A d \in Deciders : d # c => call'[d] = call[d]
  BY DEF CorrectionsSafe, Cor!TypeOK, Cor!Return
<1>2. Cor!Idle \in Cor!CallState /\ Cor!Idle.pc = "idle"
  BY DEF Cor!Idle, Cor!CallState
<1>3. Cor!TypeOK'
  BY <1>1, <1>2 DEF CorrectionsSafe, Cor!TypeOK, Cor!Return, Located, Asked, Cor!At
<1>4. OnLog' /\ AppliedAsked' /\ Cor!NoFieldUndone'
  BY DEF CorrectionsSafe, OnLog, Cor!Exists, AppliedAsked, Asked, Cor!NoFieldUndone
<1>5. Located' /\ SettlesApplied' /\ OneRuns' /\ StillAsked'
  BY <1>1, <1>2 DEF CorrectionsSafe, Located, Asked, SettlesApplied, OneRuns, StillAsked, Cor!At, Cor!Exists
<1>6. Cor!DecidedIsDone'
  BY <1>1, <1>2 DEF CorrectionsSafe, Cor!DecidedIsDone, Cor!Exists, Cor!At
<1>7. QED
  BY <1>3, <1>4, <1>5, <1>6 DEF CorrectionsSafe

LEMMA ApplySafe ==
    ASSUME Cor!CorrectionsAssumption, CorrectionsSafe, NEW c \in Deciders, Cor!ApplyCorrection(c),
           NEW k \in Ids, call[c].id = k
    PROVE  CorrectionsSafe'
<1> DEFINE field == correction[k].field
           value == correction[k].value
           locals == [call[c] EXCEPT !.pc = "settle", !.row = Null]
<1>1. /\ Cor!At(c, "apply") /\ call[c] \in Cor!CallState /\ Asked(k)
      /\ UNCHANGED <<correction, overlap, torn>>
  BY DEF Cor!ApplyCorrection, CorrectionsSafe, Cor!TypeOK, Located, Cor!At, Cor!History
<1>2. /\ locals \in Cor!CallState /\ locals.pc = "settle" /\ locals.id = k
  BY <1>1 DEF Cor!CallState
<1>3. CASE ~Cor!Takes(field, value) /\ Cor!Exists(k)
  BY <1>1, <1>3, EndSafe DEF Cor!ApplyCorrection, Cor!At, Cor!History
<1>4. ASSUME call' = [call EXCEPT ![c] = locals], applied' \in SUBSET Ids,
             applied \subseteq applied', applied' \subseteq applied \cup {k},
             Cor!Exists(k) => k \in applied',
             log' \in Cor!Log \cup {Gone}, OnLog', Cor!NoFieldUndone',
             meant' \in [Cor!Field \ {"status"} -> Times \cup {Null}]
      PROVE  CorrectionsSafe'
  <2> HIDE DEF locals
  <2>1. call'[c] = locals /\ \A d \in Deciders : d # c => call'[d] = call[d]
    BY <1>4 DEF CorrectionsSafe, Cor!TypeOK
  <2>2. Cor!TypeOK'
    BY <1>1, <1>2, <1>4 DEF CorrectionsSafe, Cor!TypeOK
  <2>3. \A j : (Asked(j) => Asked(j)') /\ (Cor!Exists(j)' <=> Cor!Exists(j))
    BY <1>1 DEF Asked, Cor!Exists
  <2>4. Located' /\ AppliedAsked'
    BY <1>1, <1>2, <1>4, <2>1, <2>3 DEF CorrectionsSafe, Located, AppliedAsked
  <2>5. SettlesApplied'
    BY <1>2, <1>4, <2>1, <2>3 DEF CorrectionsSafe, SettlesApplied, Cor!At
  <2>6. OneRuns' /\ StillAsked'
    BY <1>1, <1>2, <2>1, <2>3 DEF CorrectionsSafe, OneRuns, StillAsked, Cor!At
  <2>7. Cor!DecidedIsDone'
    <3> SUFFICES ASSUME NEW j \in Ids, Cor!Exists(j)
                 PROVE  /\ correction[j].status = "approved" => j \in applied'
                        /\ ~overlap /\ j \in applied' \ torn /\ correction[j].status # "approved" =>
                              \E d \in Deciders : call'[d].pc = "settle" /\ call'[d].id = j
      BY <1>1, <2>3 DEF Cor!DecidedIsDone, Cor!At
    <3>1. correction[j].status = "approved" => j \in applied'
      BY <1>4 DEF CorrectionsSafe, Cor!DecidedIsDone
    <3>2. CASE j = k
      BY <1>2, <2>1, <3>1, <3>2
    <3>3. CASE j # k
      BY <1>1, <1>4, <2>1, <3>1, <3>3 DEF CorrectionsSafe, Cor!DecidedIsDone, Cor!At
    <3>4. QED
      BY <3>2, <3>3
  <2>8. QED
    BY <1>4, <2>2, <2>4, <2>5, <2>6, <2>7 DEF CorrectionsSafe
<1>5. CASE ~Cor!Exists(k)
  <2>1. call' = [call EXCEPT ![c] = locals] /\ UNCHANGED <<log, applied, meant>>
    BY <1>5 DEF Cor!ApplyCorrection, Cor!History
  <2>2. OnLog' /\ Cor!NoFieldUndone'
    BY <1>1, <2>1 DEF CorrectionsSafe, OnLog, Cor!Exists, Cor!NoFieldUndone
  <2>3. QED
    BY <1>4, <1>5, <2>1, <2>2 DEF CorrectionsSafe, Cor!TypeOK
<1>6. CASE Cor!Exists(k) /\ Cor!Takes(field, value)
  <2>1. /\ call' = [call EXCEPT ![c] = locals] /\ applied' = applied \cup {k}
        /\ log' = [log EXCEPT !["status"] = "corrected", ![field] = value]
        /\ meant' = [f \in DOMAIN meant |-> IF f = field THEN value ELSE meant[f]]
    BY <1>6 DEF Cor!ApplyCorrection, Cor!Patched
  <2>2. log \in Cor!Log /\ field \in Cor!Field /\ DOMAIN meant = Cor!Field \ {"status"}
    BY <1>6 DEF CorrectionsSafe, Cor!TypeOK, OnLog, Cor!Exists, Cor!Correction
  <2>3. /\ log' \in Cor!Log
        /\ \A f \in Cor!Field \ {"status"} : log'[f] = IF f = field THEN value ELSE log[f]
    <3>1. Cor!Takes(field, value) /\ "corrected" \in Cor!Status /\ "status" \in Cor!Field
      BY <1>6 DEF Cor!Status, Cor!Field
    <3>2. value \in Times \cup Cor!Status /\ log \in [Cor!Field -> Times \cup Cor!Status \cup {Null}]
      BY <2>2, <3>1 DEF Cor!Takes, Cor!Log
    <3> HIDE DEF field, value
    <3>3. /\ log' \in [Cor!Field -> Times \cup Cor!Status \cup {Null}]
          /\ \A f \in Cor!Field :
                log'[f] = IF f = field THEN value ELSE IF f = "status" THEN "corrected" ELSE log[f]
      BY <2>1, <2>2, <3>1, <3>2
    <3>4. log' \in Cor!Log
      BY <2>2, <3>1, <3>3, WrittenRow
    <3>5. QED
      BY <3>3, <3>4
  <2>4. meant' \in [Cor!Field \ {"status"} -> Times \cup {Null}]
    BY <1>6, <2>1, <2>2 DEF CorrectionsSafe, Cor!TypeOK, Cor!Takes
  <2>5. OnLog'
    BY <2>3 DEF OnLog
  <2>6. Cor!NoFieldUndone'
    BY <2>1, <2>2, <2>3 DEF CorrectionsSafe, Cor!NoFieldUndone, Cor!CorrectionsAssumption
  <2>7. QED
    BY <1>4, <1>6, <2>1, <2>3, <2>4, <2>5, <2>6 DEF CorrectionsSafe, Cor!TypeOK
<1>7. QED
  BY <1>3, <1>5, <1>6

LEMMA SettleSafe ==
    ASSUME Cor!CorrectionsAssumption, CorrectionsSafe, NEW c \in Deciders,
           NEW pc, NEW status, Cor!Settle(c, pc, status),
           \/ pc = "settle" /\ status = "approved"
           \/ pc = "reject" /\ status = "rejected"
    PROVE  CorrectionsSafe'
<1> DEFINE k == call[c].id
           row == [correction[k] EXCEPT !.status = status]
<1>1. /\ Cor!At(c, pc) /\ Asked(k) /\ call'[c] = Cor!Idle
      /\ \A d \in Deciders : d # c => call'[d] = call[d]
      /\ UNCHANGED <<log, overlap, applied, torn, meant>>
  BY DEF Cor!Settle, Cor!Return, CorrectionsSafe, Cor!TypeOK, Located, Cor!At, Cor!History
<1>2. Cor!Idle \in Cor!CallState /\ Cor!Idle.pc = "idle"
  BY DEF Cor!Idle, Cor!CallState
<1>3. \A j \in Ids : j # k => correction'[j] = correction[j]
  BY DEF Cor!Settle, CorrectionsSafe, Cor!TypeOK
<1>4. IF Cor!Exists(k) THEN correction'[k] = row /\ row \in Cor!Correction /\ row.status = status
      ELSE correction'[k] = correction[k]
  BY <1>1 DEF Cor!Settle, CorrectionsSafe, Cor!TypeOK, Cor!Exists, Asked, Cor!Correction
<1> HIDE DEF k, row
<1>5. \A j : /\ Asked(j) => Asked(j)'
             /\ Asked(j) /\ Cor!Exists(j)' => Cor!Exists(j)
  BY <1>1, <1>3, <1>4 DEF Asked, Cor!Exists
<1>6. \A j \in Ids : Cor!Exists(j)' => Cor!Exists(j)
  BY <1>1, <1>3, <1>4 DEF Cor!Exists, Asked
<1>7. Cor!TypeOK'
  <2>1. correction' \in [Ids -> Cor!Correction \cup {Null, Gone}]
    BY <1>1, <1>3, <1>4 DEF Cor!Settle, CorrectionsSafe, Cor!TypeOK, Cor!Exists, Asked
  <2>2. QED
    BY <1>1, <1>2, <2>1 DEF CorrectionsSafe, Cor!TypeOK, Cor!Settle, Cor!Return
<1>8. OnLog' /\ Cor!NoFieldUndone'
  BY <1>1, <1>6 DEF CorrectionsSafe, OnLog, Cor!NoFieldUndone
<1>9. Located' /\ AppliedAsked'
  BY <1>1, <1>2, <1>5 DEF CorrectionsSafe, Located, AppliedAsked
<1>10. SettlesApplied' /\ OneRuns'
  BY <1>1, <1>2, <1>5 DEF CorrectionsSafe, Located, SettlesApplied, OneRuns, Cor!At
<1>11. StillAsked'
  <2> SUFFICES ASSUME ~overlap, NEW d \in Deciders, call'[d].pc \in {"apply", "reject"}
               PROVE  FALSE
    BY <1>1 DEF StillAsked
  <2>1. d # c /\ ~Cor!At(d, "idle") /\ ~Cor!At(c, "idle")
    BY <1>1, <1>2 DEF Cor!At
  <2>2. QED
    BY <2>1 DEF CorrectionsSafe, OneRuns
<1>12. Cor!DecidedIsDone'
  <2> SUFFICES ASSUME NEW j \in Ids, Cor!Exists(j)'
               PROVE  /\ correction'[j].status = "approved" => j \in applied
                      /\ ~overlap /\ j \in applied \ torn /\ correction'[j].status # "approved" =>
                            \E d \in Deciders : call'[d].pc = "settle" /\ call'[d].id = j
    BY <1>1 DEF Cor!DecidedIsDone, Cor!At
  <2>1. Cor!Exists(j)
    BY <1>6
  <2>2. CASE j # k
    BY <1>1, <1>2, <1>3, <2>1, <2>2 DEF CorrectionsSafe, Cor!DecidedIsDone, Cor!At, k
  <2>3. CASE j = k /\ pc = "settle"
    BY <1>1, <1>4, <2>1, <2>3 DEF CorrectionsSafe, SettlesApplied, k
  <2>4. CASE j = k /\ pc = "reject"
    <3>1. correction'[j].status = "rejected"
      BY <1>4, <2>1, <2>4
    <3>2. ~overlap => correction[j].status = "requested" /\ \A d \in Deciders : ~Cor!At(d, "settle")
      BY <1>1, <2>1, <2>4 DEF CorrectionsSafe, StillAsked, OneRuns, Cor!At, k
    <3>3. QED
      BY <2>1, <3>1, <3>2 DEF CorrectionsSafe, Cor!DecidedIsDone
  <2>5. QED
    BY <2>2, <2>3, <2>4
<1>13. QED
  BY <1>7, <1>8, <1>9, <1>10, <1>11, <1>12 DEF CorrectionsSafe

LEMMA ClockOutSafe ==
    ASSUME Cor!CorrectionsAssumption, CorrectionsSafe, NEW c \in Deciders, Cor!CloseLog(c)
    PROVE  CorrectionsSafe'
<1> DEFINE t == call[c].at
<1>1. /\ Cor!At(c, "close") /\ t \in Times /\ call'[c] = Cor!Idle
      /\ \A d \in Deciders : d # c => call'[d] = call[d]
      /\ UNCHANGED <<correction, overlap, applied, torn>>
  BY DEF Cor!CloseLog, Cor!Return, CorrectionsSafe, Cor!TypeOK, Located, Cor!At
<1>2. Cor!Idle \in Cor!CallState /\ Cor!Idle.pc = "idle"
  BY DEF Cor!Idle, Cor!CallState
<1>3. CASE log = Gone
  BY <1>1, <1>3, EndSafe DEF Cor!CloseLog, Cor!At
<1>4. CASE log # Gone
  <2>1. log \in Cor!Log /\ DOMAIN meant = Cor!Field \ {"status"}
    BY <1>4 DEF CorrectionsSafe, Cor!TypeOK
  <2>2. log' = [log EXCEPT !["clock_out_utc"] = t, !["status"] = "closed"]
    BY <1>4 DEF Cor!CloseLog
  <2>3. log' \in Cor!Log /\ \A f \in Cor!Field \ {"status"} : log'[f] = IF f = "clock_out_utc" THEN t ELSE log[f]
    <3>1. /\ log \in [Cor!Field -> Times \cup Cor!Status \cup {Null}]
          /\ {"clock_out_utc", "status"} \subseteq Cor!Field /\ "closed" \in Cor!Status
          /\ Cor!Takes("clock_out_utc", t)
      BY <1>1, <2>1 DEF Cor!Log, Cor!Field, Cor!Status, Cor!Takes
    <3> HIDE DEF t
    <3>2. /\ log' \in [Cor!Field -> Times \cup Cor!Status \cup {Null}]
          /\ \A f \in Cor!Field : log'[f] = IF f = "clock_out_utc" THEN t
                                        ELSE IF f = "status" THEN "closed" ELSE log[f]
      BY <1>1, <2>2, <3>1
    <3>3. log' \in Cor!Log
      BY <2>1, <3>1, <3>2, WrittenRow
    <3>4. QED
      BY <3>2, <3>3
  <2>4. meant' = [meant EXCEPT !["clock_out_utc"] = t]
    BY <1>4 DEF Cor!CloseLog
  <2>5. Cor!TypeOK'
    BY <1>1, <1>2, <2>1, <2>3, <2>4 DEF CorrectionsSafe, Cor!TypeOK, Cor!CloseLog, Cor!Return, Cor!Field
  <2>6. Cor!NoFieldUndone'
    BY <1>4, <2>1, <2>3, <2>4 DEF CorrectionsSafe, Cor!TypeOK, Cor!NoFieldUndone, Cor!Field
  <2>7. OnLog' /\ AppliedAsked'
    BY <1>1, <2>3 DEF CorrectionsSafe, OnLog, AppliedAsked, Asked
  <2>8. Located' /\ SettlesApplied' /\ OneRuns' /\ StillAsked'
    BY <1>1, <1>2 DEF CorrectionsSafe, Located, Asked, SettlesApplied, OneRuns, StillAsked, Cor!At, Cor!Exists
  <2>9. Cor!DecidedIsDone'
    BY <1>1, <1>2 DEF CorrectionsSafe, Cor!DecidedIsDone, Cor!Exists, Cor!At
  <2>10. QED
    BY <2>5, <2>6, <2>7, <2>8, <2>9 DEF CorrectionsSafe
<1>5. QED
  BY <1>3, <1>4

LEMMA NewLogSafe ==
    ASSUME Cor!CorrectionsAssumption, CorrectionsSafe, NEW t \in Times, Cor!ClockIn(t)
    PROVE  CorrectionsSafe'
<1>1. /\ log = Gone /\ log' = Cor!Opened(t) /\ UNCHANGED <<correction, call, overlap, applied, torn>>
      /\ meant' = [f \in DOMAIN meant |-> log'[f]]
  BY DEF Cor!ClockIn
<1>2. Cor!Opened(t) \in Cor!Log /\ DOMAIN meant = Cor!Field \ {"status"}
  BY OpenedRow DEF CorrectionsSafe, Cor!TypeOK
<1>3. Cor!TypeOK'
  BY <1>1, <1>2, OpenedRow DEF CorrectionsSafe, Cor!TypeOK
<1>4. OnLog' /\ Cor!NoFieldUndone'
  BY <1>1, <1>2 DEF OnLog, Cor!NoFieldUndone
<1>5. Located' /\ AppliedAsked' /\ SettlesApplied' /\ OneRuns' /\ StillAsked' /\ Cor!DecidedIsDone'
  BY <1>1 DEF CorrectionsSafe, Located, AppliedAsked, Asked, SettlesApplied, OneRuns, StillAsked, Cor!DecidedIsDone,
              Cor!At, Cor!Exists
<1>6. QED
  BY <1>3, <1>4, <1>5 DEF CorrectionsSafe

LEMMA LogGoneSafe ==
    ASSUME Cor!CorrectionsAssumption, CorrectionsSafe, Cor!DeleteLog
    PROVE  CorrectionsSafe'
<1>1. /\ log' = Gone /\ UNCHANGED <<call, overlap, applied, torn, meant>>
      /\ \A j \in Ids : correction'[j] = IF Cor!Exists(j) THEN Gone ELSE correction[j]
      /\ correction' \in [Ids -> Cor!Correction \cup {Null, Gone}]
  BY DEF Cor!DeleteLog, Cor!History, CorrectionsSafe, Cor!TypeOK
<1>2. \A j \in Ids : ~Cor!Exists(j)' /\ (Asked(j) => Asked(j)')
  BY <1>1 DEF Cor!Exists, Asked
<1>3. Cor!TypeOK' /\ Cor!NoFieldUndone' /\ OnLog' /\ Cor!DecidedIsDone'
  BY <1>1, <1>2 DEF CorrectionsSafe, Cor!TypeOK, Cor!NoFieldUndone, OnLog, Cor!DecidedIsDone
<1>4. Located' /\ AppliedAsked'
  BY <1>1, <1>2 DEF CorrectionsSafe, Located, AppliedAsked, Asked
<1>5. SettlesApplied' /\ OneRuns' /\ StillAsked'
  BY <1>1, <1>2, <1>4 DEF CorrectionsSafe, SettlesApplied, OneRuns, StillAsked, Located, Asked, Cor!At
<1>6. QED
  BY <1>3, <1>4, <1>5 DEF CorrectionsSafe

LEMMA CorrectionsStep ==
    ASSUME Cor!CorrectionsAssumption
    PROVE  CorrectionsSafe /\ [Cor!Next]_Cor!vars => CorrectionsSafe'
<1> SUFFICES ASSUME CorrectionsSafe, [Cor!Next]_Cor!vars PROVE CorrectionsSafe'
  OBVIOUS
<1>1. CASE UNCHANGED Cor!vars
  BY <1>1 DEF Cor!vars, CorrectionsSafe, Cor!TypeOK, OnLog, Located, Asked, AppliedAsked, SettlesApplied, OneRuns,
              StillAsked, Cor!DecidedIsDone, Cor!NoFieldUndone, Cor!At, Cor!Exists
<1>2. ASSUME NEW k \in Ids, NEW field \in Cor!Field, NEW value \in Cor!Values(field),
             Cor!RequestCorrection(k, field, value)
      PROVE  CorrectionsSafe'
  BY <1>2, RequestSafe
<1>3. ASSUME NEW c \in Deciders PROVE Cor!Idle \in Cor!CallState
  BY DEF Cor!Idle, Cor!CallState
<1>4. ASSUME NEW c \in Deciders, NEW k \in Ids, NEW pc \in {"apply", "reject"}, Cor!Decide(c, k, pc)
      PROVE  CorrectionsSafe'
  <2> DEFINE locals == [Cor!Idle EXCEPT !.pc = pc, !.id = k,
                                    !.row = IF pc = "apply" THEN log ELSE Null]
  <2>1. log \in Cor!Log
    BY <1>4 DEF Cor!Decide, Cor!MayDecide, CorrectionsSafe, OnLog
  <2>2. locals \in Cor!CallState /\ locals.pc = pc /\ locals.id = k
    BY <1>3, <2>1 DEF Cor!CallState
  <2>3. /\ Cor!MayStart(c) /\ Cor!MayDecide(k) /\ call' = [call EXCEPT ![c] = locals]
        /\ UNCHANGED <<log, correction, overlap, applied, torn, meant>>
    BY <1>4 DEF Cor!Decide, Cor!Start, Cor!History
  <2> HIDE DEF locals
  <2>4. QED
    BY <2>2, <2>3, StartSafe
<1>5. ASSUME NEW c \in Deciders, Cor!ApplyCorrection(c)
      PROVE  CorrectionsSafe'
  <2>1. call[c].id \in Ids
    BY <1>5 DEF Cor!ApplyCorrection, Cor!At, CorrectionsSafe, Located, Asked
  <2>2. QED
    BY <1>5, <2>1, ApplySafe
<1>6. ASSUME NEW c \in Deciders, NEW t \in Times, Cor!ClockOut(c, t)
      PROVE  CorrectionsSafe'
  <2> DEFINE locals == [Cor!Idle EXCEPT !.pc = "close", !.at = t]
  <2>1. locals \in Cor!CallState /\ locals.pc = "close" /\ locals.at = t
    BY <1>3 DEF Cor!CallState
  <2>2. /\ Cor!MayStart(c) /\ call' = [call EXCEPT ![c] = locals]
        /\ UNCHANGED <<log, correction, overlap, applied, torn, meant>>
    BY <1>6 DEF Cor!ClockOut, Cor!Start, Cor!History
  <2> HIDE DEF locals
  <2>3. QED
    BY <2>1, <2>2, StartSafe
<1>7. ASSUME NEW c \in Deciders, Cor!Settle(c, "settle", "approved") \/ Cor!Settle(c, "reject", "rejected")
      PROVE  CorrectionsSafe'
  BY <1>7, SettleSafe
<1>8. ASSUME NEW c \in Deciders, Cor!CloseLog(c)
      PROVE  CorrectionsSafe'
  BY <1>8, ClockOutSafe
<1>9. ASSUME NEW c \in Deciders, Cor!Die(c)
      PROVE  CorrectionsSafe'
  BY <1>9, EndSafe DEF Cor!Die
<1>10. ASSUME NEW t \in Times, Cor!ClockIn(t)
       PROVE  CorrectionsSafe'
  BY <1>10, NewLogSafe
<1>11. QED
  BY <1>1, <1>2, <1>4, <1>5, <1>6, <1>7, <1>8, <1>9, <1>10, LogGoneSafe DEF Cor!Next

-----------------------------------------------------------------------------
(* Each in its scene *)

\* What holds in every scene, and what holds of punches in turn.
ScenesSafe ==
    \/ scene = "punches" /\ PunchSafe
    \/ scene = "corrections" /\ CorrectionsSafe
TurnScene == scene = "punches" => BatchSafe

LEMMA ScenesStep == ScenesSafe /\ [TimeClockNext]_<<scene, vars, corrections>> => ScenesSafe'
<1> SUFFICES ASSUME ScenesSafe, [TimeClockNext]_<<scene, vars, corrections>> PROVE ScenesSafe'
  OBVIOUS
<1>1. scene' = scene
  BY DEF TimeClockNext
<1>2. CASE scene = "punches"
  <2>1. [Next]_vars /\ PunchSafe
    BY <1>2 DEF TimeClockNext, ScenesSafe
  <2>2. PunchSafe'
    BY <2>1, PunchStep
  <2>3. QED
    BY <1>1, <1>2, <2>2 DEF ScenesSafe
<1>3. CASE scene = "corrections"
  <2>1. [Cor!Next]_(Cor!vars) /\ CorrectionsSafe
    BY <1>3 DEF TimeClockNext, ScenesSafe, Cor!vars, vars, corrections
  <2>2. CorrectionsSafe'
    BY <2>1, CorrectionsStep, TimeClockAssumption
  <2>3. QED
    BY <1>1, <1>3, <2>2 DEF ScenesSafe
<1>4. QED
  BY <1>2, <1>3 DEF ScenesSafe

LEMMA ScenesHold == TimeClockSpec => []ScenesSafe
<1>1. TimeClockInit => ScenesSafe
  BY PunchInit, CorrectionsInit, TimeClockAssumption DEF TimeClockInit, ScenesSafe
<1>2. QED
  BY <1>1, ScenesStep, PTL DEF TimeClockSpec

\* The rows of logs, breaks, anomalies and corrections, and the locals of every
\* handler, are of their types (schema/attendance.ts).
THEOREM TypeCorrect == TimeClockSpec => []Types
<1>1. ScenesSafe => Types
  BY DEF ScenesSafe, Types, PunchSafe, CorrectionsSafe
<1>2. QED
  BY <1>1, ScenesHold, PTL

\* Whatever calls overlap, whatever time or log clients name and wherever calls
\* die, a log shown as flagged has an anomaly on record, and one that has a
\* clock-out was clocked into before it (AttendanceService.raiseAnomaly, clockOut).
THEOREM LogsCorrect == TimeClockSpec => []LogsHoldUp
<1>1. ScenesSafe => LogsHoldUp
  BY DEF ScenesSafe, LogsHoldUp, PunchSafe
<1>2. QED
  BY <1>1, ScenesHold, PTL

\* Whatever is decided, written and deleted at once, and wherever handlers die: an
\* approved correction was written, without overlap one that was written is approved
\* unless its approval died, and every time of the log is the one it was last given
\* (AttendanceService.approveCorrection, AttendanceRepository.updateLogField).
THEOREM CorrectionsCorrect == TimeClockSpec => []CorrectionsHold
<1>1. CorrectionsSafe => Cor!CorrectionsHold
  BY DEF CorrectionsSafe, Cor!CorrectionsHold
<1>2. ScenesSafe => CorrectionsHold
  BY <1>1 DEF ScenesSafe, CorrectionsHold
<1>3. QED
  BY <1>2, ScenesHold, PTL

\* Where the calls about an employee come one at a time, the server's clock
\* stamps them and none names its log, an employee has one open log at most, no
\* break is left open on a log that is closed, the spans worked online do not
\* overlap once every call has answered, and sync applies an orderly batch
\* without refusing an event of it - whatever the other employees' calls do in
\* between, and wherever calls die.
THEOREM InTurnCorrect ==
    ASSUME Exclusive, ~ByName, ~BackDated
    PROVE  TimeClockSpec => []PunchesInTurn
<1>1. TimeClockInit => TurnScene
  BY BatchInit DEF TimeClockInit, TurnScene
<1>2. TurnScene /\ [TimeClockNext]_<<scene, vars, corrections>> => TurnScene'
  <2> SUFFICES ASSUME TurnScene, [TimeClockNext]_<<scene, vars, corrections>>, scene' = "punches"
               PROVE  BatchSafe'
    BY DEF TurnScene
  <2>1. scene = "punches"
    BY DEF TimeClockNext
  <2>2. [Next]_vars /\ BatchSafe
    BY <2>1 DEF TimeClockNext, TurnScene
  <2>3. QED
    BY <2>2, BatchStep
<1>3. BatchSafe => BatchApplies
  BY DEF BatchSafe, BatchApplies
<1>4. TurnScene => PunchesInTurn
  BY <1>3, TurnHolds DEF TurnScene, BatchSafe, PunchesInTurn
<1>5. QED
  BY <1>1, <1>2, <1>4, PTL DEF TimeClockSpec
=============================================================================
