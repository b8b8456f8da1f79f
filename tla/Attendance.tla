----------------------------- MODULE Attendance -----------------------------
(***************************************************************************)
(* Punches: AttendanceService over AttendanceRepository.  Each repository  *)
(* call commits on its own, so the handlers of clock in, clock out, break  *)
(* start, break end, delete and the offline batch flush interleave at      *)
(* every await.  A log is open while it has no clock-out time, whatever    *)
(* its status column says, and nothing in the schema keeps an employee to  *)
(* one open log.  Time counts in ticks, TicksPerMinute of them a minute.   *)
(***************************************************************************)
EXTENDS Integers, Sequences

CONSTANTS
    Calls,           \* HTTP calls, each served at most once
    Employees, Logs, Breaks,
    Null,
    Shift,           \* the committed shift of an employee, or Null
    Batches,         \* what an offline device may flush: sets of events
    MaxTime,         \* bound on the clock
    TicksPerMinute, Grace, Slack, Cap,
    Ops,             \* the operations clients call
    ByName,          \* do they name the log, or the shift, explicitly?
    BackDated,       \* do they supply the time of the punch?
    Crashes,         \* may a call die between two transactions?
    Exclusive        \* do the calls about one employee come one at a time?

Time == 0..MaxTime
PunchKind == {"clock_in", "clock_out", "break_start", "break_end"}
Event == [kind : PunchKind, at : Time]
ShiftRow == [from : Time, to : Time, breakTime : Time]

ASSUME AttendanceAssumption ==
    /\ MaxTime \in Nat /\ TicksPerMinute \in Nat \ {0}
    /\ Grace \in Nat /\ Slack \in Nat /\ Cap \in Nat
    /\ Null \notin Int /\ Null \notin Logs /\ Null \notin Breaks /\ Null \notin Employees
    /\ Logs # {} /\ Employees # {}
    /\ Shift \in [Employees -> ShiftRow \cup {Null}] /\ Null \notin ShiftRow
    /\ Batches \subseteq SUBSET Event
    /\ Ops \subseteq PunchKind \cup {"delete", "sync"}
    /\ {ByName, BackDated, Crashes, Exclusive} \subseteq BOOLEAN

VARIABLES
    now,             \* the server's clock
    log,             \* attendance_logs
    break,           \* attendance_breaks
    anomaly,         \* anomalies: the log each is about and its type
    call             \* the locals of each HTTP call

vars == <<now, log, break, anomaly, call>>

-----------------------------------------------------------------------------
(* Types *)

\* "none" and "gone" are an id not yet used and one deleted; ids are never
\* used twice.
LogStatus == {"none", "open", "closed", "flagged", "gone"}
LogRow == [status : LogStatus, employee : Employees, clockIn : Time,
           clockOut : Time \cup {Null}, source : {"online", "offline_sync"},
           paired : BOOLEAN,
           flushed : BOOLEAN]                  \* history: closed by a batch
BreakRow == [state : {"none", "present", "gone"}, log : Logs \cup {Null},
             start : Time, end : Time \cup {Null}]
AnomalyType == {"late", "early_leave", "over_hours"}

NoEmployee == CHOOSE e \in Employees : TRUE
NoLog == [status |-> "none", employee |-> NoEmployee, clockIn |-> 0, clockOut |-> Null,
          source |-> "online", paired |-> FALSE, flushed |-> FALSE]
NoBreak == [state |-> "none", log |-> Null, start |-> 0, end |-> Null]

Pc == {"idle", "next", "start", "insert", "raise", "flag", "source", "stamp", "breaks",
       "endbreak", "newbreak", "close", "delete", "done", "dead"}
CallState == [pc : Pc,
              op : PunchKind \cup {"none", "delete"},
              sync : BOOLEAN,                \* inside the loop of sync?
              employee : Employees,
              target : Logs \cup {Null},     \* dto.logId
              log : Logs \cup {Null},
              brk : Breaks \cup {Null},
              at : Time,
              todo : Seq(AnomalyType),       \* anomalies still to raise
              batch : SUBSET Event,          \* events still to apply
              clean : BOOLEAN,               \* history: no log open at first, an orderly batch
              errors : BOOLEAN]              \* has an event been refused?

TypeOK ==
    /\ now \in Time
    /\ log \in [Logs -> LogRow]
    /\ break \in [Breaks -> BreakRow]
    /\ anomaly \subseteq (Logs \cup {Null}) \X AnomalyType
    /\ call \in [Calls -> CallState]

Fresh == [pc |-> "idle", op |-> "none", sync |-> FALSE, employee |-> NoEmployee,
          target |-> Null, log |-> Null, brk |-> Null, at |-> 0, todo |-> <<>>,
          batch |-> {}, clean |-> FALSE, errors |-> FALSE]

Init ==
    /\ now = 0
    /\ log = [l \in Logs |-> NoLog]
    /\ break = [b \in Breaks |-> NoBreak]
    /\ anomaly = {}
    /\ call = [c \in Calls |-> Fresh]

-----------------------------------------------------------------------------
(* Queries of the repository *)

Exists(l) == log[l].status \notin {"none", "gone"}

\* (mutant of OpenLogs: open by the status column, which a flag overwrites)
LogsWithStatusOpen(e) == {l \in Logs : log[l].status = "open" /\ log[l].employee = e}

OpenLogs(e) == {l \in Logs : Exists(l) /\ log[l].employee = e /\ log[l].clockOut = Null}
OpenBreaks(l) == {b \in Breaks : /\ break[b].state = "present"
                                 /\ break[b].log = l /\ break[b].end = Null}

\* ORDER BY clock_in_utc DESC LIMIT 1, and the same for breaks by start.
LatestLogs(S) == {l \in S : \A m \in S : log[m].clockIn <= log[l].clockIn}
LatestBreaks(S) == {b \in S : \A d \in S : break[d].start <= break[b].start}

\* findScheduledShift: does the employee's shift cover the time of the punch?
Paired(e, at) == Shift[e] # Null /\ Shift[e].from <= at /\ at < Shift[e].to

\* A client that names the shift has the log paired with it at any hour.
Pairings(e, at) == {Paired(e, at)} \cup (IF ByName /\ Shift[e] # Null THEN {TRUE} ELSE {})

-----------------------------------------------------------------------------
(* Rules on a punch *)

IsLate(e, paired, at) == paired /\ at - Shift[e].from > Grace

\* detectOnClose on the row just closed.
OnClose(row) ==
    LET worked == row.clockOut - row.clockIn
        s == Shift[row.employee]
        early == row.paired /\ s.to - row.clockOut > Grace
        over == IF row.paired THEN worked > (s.to - s.from - s.breakTime) + Slack
                              ELSE worked > Cap
    IN  (IF early THEN <<"early_leave">> ELSE <<>>) \o (IF over THEN <<"over_hours">> ELSE <<>>)

\* attendance_breaks.minutes is an integer column: the database refuses a
\* duration that is not a whole number of minutes.
WholeMinutes(from, to) == (to - from) % TicksPerMinute = 0

-----------------------------------------------------------------------------
(* Calls *)

Active(c) == call[c].pc \notin {"idle", "done", "dead"}
Begin(c, e) == /\ call[c].pc = "idle"
               /\ Exclusive => \A d \in Calls : Active(d) => call[d].employee # e
Goto(c, at) == call' = [call EXCEPT ![c].pc = at]

\* What the handler does when an operation is over: it answers, or the loop of
\* sync goes on.
Ended(l, failed) ==
    IF l.sync THEN [Fresh EXCEPT !.pc = "next", !.sync = TRUE, !.employee = l.employee,
                                 !.batch = l.batch, !.clean = l.clean,
                                 !.errors = l.errors \/ failed]
              ELSE [Fresh EXCEPT !.pc = "done"]
Refuse(c) == call' = [call EXCEPT ![c] = Ended(@, TRUE)]
Answer(c) == call' = [call EXCEPT ![c] = Ended(@, FALSE)]

\* After the anomalies of an operation are raised; sync marks the log a
\* clock_in opened.
AfterAnomalies(l) == IF l.sync /\ l.op = "clock_in" THEN [l EXCEPT !.pc = "source"]
                                                   ELSE Ended(l, FALSE)

\* (mutant of Raising: the log is flagged and nothing recorded)
FlagOnly(l, todo) == IF todo = <<>> THEN AfterAnomalies(l)
                                    ELSE [l EXCEPT !.pc = "flag", !.todo = todo]

Raising(l, todo) == IF todo = <<>> THEN AfterAnomalies(l)
                                   ELSE [l EXCEPT !.pc = "raise", !.todo = todo]

\* What is deleted is known, and the call is about the employee whose it is.
Punch(c, e, op, target, at) ==
    /\ op \in Ops
    /\ op \in {"clock_in"} => target = Null
    /\ op = "delete" => target # Null /\ log[target].status # "none"
    /\ op = "delete" /\ Exclusive => log[target].employee = e
    /\ op # "delete" /\ ~ByName => target = Null
    /\ ~BackDated => at = now
    /\ call' = [call EXCEPT ![c] = [Fresh EXCEPT !.pc = "start", !.op = op, !.employee = e,
                                                 !.target = target, !.at = at]]
    /\ UNCHANGED <<now, log, break, anomaly>>

\* A batch is orderly when each of its punches, by their times, may follow the one
\* before, and a break lasts whole minutes.
MayFollow(ev, next) ==
    /\ next.kind \in CASE ev.kind \in {"clock_in", "break_end"} -> {"break_start", "clock_out"}
                        [] ev.kind = "break_start"             -> {"break_end", "clock_out"}
                        [] ev.kind = "clock_out"               -> {"clock_in"}
    /\ ev.kind = "break_start" => WholeMinutes(ev.at, next.at)
Steady(batch) ==
    /\ \A ev, other \in batch : ev.at = other.at => ev = other
    /\ \A ev, next \in batch :
          ev.at < next.at /\ (\A other \in batch : other.at <= ev.at \/ next.at <= other.at)
              => MayFollow(ev, next)

\* The events are sorted by time before the loop.
Earliest(batch) == {ev \in batch : \A other \in batch : ev.at <= other.at}

Orderly(batch) == Steady(batch) /\ \A ev \in Earliest(batch) : ev.kind = "clock_in"

Sync(c, e, batch) ==
    /\ "sync" \in Ops
    /\ call' = [call EXCEPT ![c] = [Fresh EXCEPT !.pc = "next", !.sync = TRUE,
                                                 !.employee = e, !.batch = batch,
                                                 !.clean = OpenLogs(e) = {} /\ Orderly(batch)]]
    /\ UNCHANGED <<now, log, break, anomaly>>

NextEvent(c) ==
    /\ call[c].pc = "next"
    /\ \/ /\ call[c].batch = {}
          /\ call' = [call EXCEPT ![c] = [Fresh EXCEPT !.pc = "done", !.sync = TRUE,
                                                       !.clean = call[c].clean,
                                                       !.errors = call[c].errors]]
       \/ \E ev \in Earliest(call[c].batch) :
             call' = [call EXCEPT ![c].pc = "start", ![c].op = ev.kind, ![c].at = ev.at,
                                  ![c].batch = @ \ {ev}]
    /\ UNCHANGED <<now, log, break, anomaly>>

-----------------------------------------------------------------------------
(* clockIn: refuse if a log is open, insert, then flag a late punch. *)

ClockInFind(c) ==
    /\ call[c].pc = "start" /\ call[c].op = "clock_in"
    /\ IF OpenLogs(call[c].employee) # {} THEN Refuse(c) ELSE Goto(c, "insert")
    /\ UNCHANGED <<now, log, break, anomaly>>

ClockInInsert(c, l) ==
    LET e == call[c].employee
        at == call[c].at
    IN  /\ call[c].pc = "insert"
        /\ log[l] = NoLog
        /\ \E paired \in Pairings(e, at) :
              /\ log' = [log EXCEPT ![l] = [status |-> "open", employee |-> e, clockIn |-> at,
                                            clockOut |-> Null, source |-> "online",
                                            paired |-> paired, flushed |-> FALSE]]
              /\ call' = [call EXCEPT ![c] = Raising([@ EXCEPT !.log = l],
                              IF IsLate(e, paired, at) THEN <<"late">> ELSE <<>>)]
        /\ UNCHANGED <<now, break, anomaly>>

(* raiseAnomaly: insert the anomaly, then flag the log; the row it holds was *)
(* open or closed.  An anomaly on a log deleted meanwhile is refused by the  *)
(* foreign key; an update of one changes no row.                             *)

RaiseAnomaly(c) ==
    /\ call[c].pc = "raise"
    /\ IF Exists(call[c].log)
       THEN /\ anomaly' = anomaly \cup {<<call[c].log, Head(call[c].todo)>>}
            /\ Goto(c, "flag")
       ELSE Refuse(c) /\ UNCHANGED anomaly
    /\ UNCHANGED <<now, log, break>>

\* (mutant of FlagLog: writes the type of the anomaly into the status)
LabelLog(c) ==
    /\ call[c].pc = "flag"
    /\ log' = [log EXCEPT ![call[c].log].status = Head(call[c].todo)]
    /\ call' = [call EXCEPT ![c] = Raising(@, Tail(@.todo))]
    /\ UNCHANGED <<now, break, anomaly>>

FlagLog(c) ==
    LET l == call[c].log
    IN  /\ call[c].pc = "flag"
        /\ log' = IF Exists(l) THEN [log EXCEPT ![l].status = "flagged"] ELSE log
        /\ call' = [call EXCEPT ![c] = Raising(@, Tail(@.todo))]
        /\ UNCHANGED <<now, break, anomaly>>

(* sync: find the log the clock_in opened and mark its source. *)

FindSource(c) ==
    LET open == OpenLogs(call[c].employee)
    IN  /\ call[c].pc = "source"
        /\ \/ open = {} /\ Answer(c)
           \/ \E l \in LatestLogs(open) :
                 call' = [call EXCEPT ![c].pc = "stamp", ![c].log = l]
        /\ UNCHANGED <<now, log, break, anomaly>>

StampSource(c) ==
    /\ call[c].pc = "stamp"
    /\ log' = IF Exists(call[c].log)
              THEN [log EXCEPT ![call[c].log].source = "offline_sync"] ELSE log
    /\ Answer(c)
    /\ UNCHANGED <<now, break, anomaly>>

(* resolveOpenLog: the log named, open or not, or else the employee's latest *)
(* open one; clockOut then checks the time against the row it read.          *)

TooEarly(at, l) == at <= log[l].clockIn

ResolveLog(c) ==
    LET e == call[c].employee
        target == call[c].target
        candidates == IF target # Null THEN {l \in {target} : Exists(l)}
                                       ELSE LatestLogs(OpenLogs(e))
    IN  /\ call[c].pc = "start" /\ call[c].op \in {"clock_out", "break_start", "break_end"}
        /\ \/ candidates = {} /\ Refuse(c)
           \/ \E l \in candidates :
                 IF call[c].op = "clock_out" /\ TooEarly(call[c].at, l)
                 THEN Refuse(c)
                 ELSE call' = [call EXCEPT ![c].pc = "breaks", ![c].log = l]
        /\ UNCHANGED <<now, log, break, anomaly>>

(* findOpenBreak, and what each operation makes of the answer. *)

FindBreak(c) ==
    LET open == LatestBreaks(OpenBreaks(call[c].log))
    IN  /\ call[c].pc = "breaks"
        /\ \/ /\ open = {}
              /\ CASE call[c].op = "clock_out"   -> Goto(c, "close")
                   [] call[c].op = "break_start" -> Goto(c, "newbreak")
                   [] call[c].op = "break_end"   -> Refuse(c)
           \/ \E b \in open :
                 IF call[c].op = "break_start"
                 THEN Refuse(c)
                 ELSE call' = [call EXCEPT ![c].pc = "endbreak", ![c].brk = b]
        /\ UNCHANGED <<now, log, break, anomaly>>

EndBreak(c) ==
    LET b == call[c].brk
    IN  /\ call[c].pc = "endbreak"
        /\ IF WholeMinutes(break[b].start, call[c].at)
           THEN /\ break' = IF break[b].state = "present"
                            THEN [break EXCEPT ![b].end = call[c].at] ELSE break
                /\ IF call[c].op = "clock_out" THEN Goto(c, "close") ELSE Answer(c)
           ELSE Refuse(c) /\ UNCHANGED break
        /\ UNCHANGED <<now, log, anomaly>>

StartBreak(c, b) ==
    /\ call[c].pc = "newbreak"
    /\ break[b] = NoBreak
    /\ IF Exists(call[c].log)
       THEN /\ break' = [break EXCEPT ![b] = [state |-> "present", log |-> call[c].log,
                                              start |-> call[c].at, end |-> Null]]
            /\ Answer(c)
       ELSE Refuse(c) /\ UNCHANGED break
    /\ UNCHANGED <<now, log, anomaly>>

(* The update that closes the log, and detectOnClose on the row it returns;  *)
(* with the log deleted there is no row and the handler throws.              *)

CloseLog(c) ==
    LET l == call[c].log
        row == [log[l] EXCEPT !.clockOut = call[c].at, !.status = "closed",
                              !.flushed = @ \/ call[c].sync]
    IN  /\ call[c].pc = "close"
        /\ IF Exists(l)
           THEN /\ log' = [log EXCEPT ![l] = row]
                /\ call' = [call EXCEPT ![c] = Raising(@, OnClose(row))]
           ELSE Refuse(c) /\ UNCHANGED log
        /\ UNCHANGED <<now, break, anomaly>>

(* deleteLog: read, then delete; breaks go with the log, anomalies lose it.  *)

DeleteFind(c) ==
    /\ call[c].pc = "start" /\ call[c].op = "delete"
    /\ IF Exists(call[c].target) THEN Goto(c, "delete") ELSE Refuse(c)
    /\ UNCHANGED <<now, log, break, anomaly>>

DeleteLog(c) ==
    LET l == call[c].target
    IN  /\ call[c].pc = "delete"
        /\ log' = [log EXCEPT ![l] = [NoLog EXCEPT !.status = "gone"]]
        /\ break' = [b \in Breaks |-> IF break[b].state = "present" /\ break[b].log = l
                                       THEN [break[b] EXCEPT !.state = "gone"] ELSE break[b]]
        /\ anomaly' = {<<IF a[1] = l THEN Null ELSE a[1], a[2]>> : a \in anomaly}
        /\ Answer(c)
        /\ UNCHANGED now

Crash(c) ==
    /\ Crashes /\ Active(c)
    /\ call' = [call EXCEPT ![c] = [Fresh EXCEPT !.pc = "dead"]]
    /\ UNCHANGED <<now, log, break, anomaly>>

Tick == /\ now < MaxTime
        /\ now' = now + 1
        /\ UNCHANGED <<log, break, anomaly, call>>

-----------------------------------------------------------------------------

Proceed(c) ==
    \/ NextEvent(c)
    \/ ClockInFind(c)
    \/ \E l \in Logs : ClockInInsert(c, l)
    \/ RaiseAnomaly(c)
    \/ FlagLog(c)
    \/ FindSource(c)
    \/ StampSource(c)
    \/ ResolveLog(c)
    \/ FindBreak(c)
    \/ EndBreak(c)
    \/ \E b \in Breaks : StartBreak(c, b)
    \/ CloseLog(c)
    \/ DeleteFind(c)
    \/ DeleteLog(c)

Next ==
    \/ \E c \in Calls, e \in Employees :
          /\ Begin(c, e)
          /\ \/ \E op \in PunchKind \cup {"delete"}, target \in Logs \cup {Null}, at \in Time :
                   Punch(c, e, op, target, at)
             \/ \E batch \in Batches : Sync(c, e, batch)
    \/ \E c \in Calls : Proceed(c) \/ Crash(c)
    \/ Tick

Spec == Init /\ [][Next]_vars

-----------------------------------------------------------------------------
(* Properties *)

\* A flag is always explained: whatever overlaps or dies, a log shown as
\* flagged has an anomaly on record, because raiseAnomaly writes the anomaly
\* first and neither is ever removed without the other.
FlagsExplained ==
    \A l \in Logs : log[l].status = "flagged" => \E t \in AnomalyType : <<l, t>> \in anomaly

\* A closed log has a positive length, however clock-outs race on it and
\* whatever times devices supply: "Clock-out must be after clock-in."
\* (attendance.service.ts:180) is checked on the row read earlier, and the
\* clock-in of a row does not move.
ClosedAfterOpened ==
    \A l \in Logs : log[l].clockOut # Null => log[l].clockOut > log[l].clockIn

\* An employee has at most one open log: "Employee is already clocked in."
\* (attendance.service.ts:146).
OneOpenLog ==
    \A e \in Employees :
        LET working == {l \in Logs : /\ Exists(l) /\ log[l].employee = e
                                     /\ log[l].clockOut = Null}
        IN  \A l, m \in working : l = m

\* A log that is closed has no break in progress: clockOut ends it ("Close any
\* dangling break first.", attendance.service.ts:182).
NoDanglingBreak ==
    \A b \in Breaks :
        break[b].state = "present" /\ log[break[b].log].clockOut # Null => break[b].end # Null

\* While calls come one at a time, the spans worked online by an employee do not
\* overlap once every call has answered: those the server's clock stamped at both
\* ends, or at the start of one still open.  A batch gives its own times, the
\* future's too, so what it opened or closed is not spoken of.
AllAnswered == \A c \in Calls : call[c].pc \in {"idle", "done"}
Ends(l) == IF log[l].clockOut = Null THEN MaxTime + 1 ELSE log[l].clockOut
Online(e) == {l \in Logs : /\ Exists(l) /\ log[l].employee = e
                          /\ log[l].source = "online" /\ ~log[l].flushed}
SpansDisjoint ==
    AllAnswered => \A e \in Employees : \A l, m \in Online(e) :
        l # m => Ends(l) <= log[m].clockIn \/ Ends(m) <= log[l].clockIn

\* A break the employee is on can be ended by clocking out: the step that ends
\* it does not fail.
ClockOutEndsBreak ==
    [][\A c \in Calls :
          LET b == call[c].brk
          IN  call[c].pc = "endbreak" /\ call'[c].pc # "endbreak" /\ break'[b].state = "present"
                 => break'[b].end # Null]_vars

\* An orderly batch of an employee with no log open is applied without an error in
\* whatever order the device sent it: sync sorts it first.
BatchApplies == \A c \in Calls : call[c].clean => ~call[c].errors
=============================================================================
