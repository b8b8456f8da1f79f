---------------------------- MODULE Corrections ----------------------------
(***************************************************************************)
(* Corrections of attendance logs: AttendanceService asks for one, and a   *)
(* manager approves it, which writes the log and then the correction in    *)
(* two transactions, or rejects it; meanwhile the employee clocks out and  *)
(* the log may be deleted.  One log; Attendance has the rest of punches.   *)
(***************************************************************************)
EXTENDS Naturals, FiniteSets

CONSTANTS
    Calls,           \* handlers that run at a time
    Ids,             \* ids of corrections that get to be inserted
    Times,
    Unread,          \* a value that no column takes
    Null, Gone,      \* no value, no row yet; a row that has been deleted
    Overlap          \* may handlers overlap?  a set of BOOLEANs

VARIABLES
    log,             \* a row of attendance_logs: the fields that are corrected
    correction,      \* corrections
    call,            \* the locals of each handler
    overlap,         \* may handlers overlap?  never changes
    applied,         \* history: the corrections the log was written for
    torn,            \* history: those whose approval died
    meant            \* history: the value each time of the log was last given

vars == <<log, correction, call, overlap, applied, torn, meant>>

Status == {"open", "closed", "flagged", "corrected"}
Field == {"clock_in_utc", "clock_out_utc", "status"}
Log == {row \in [Field -> Times \cup Status \cup {Null}] :
            /\ row["clock_in_utc"] \in Times /\ row["clock_out_utc"] \in Times \cup {Null}
            /\ row["status"] \in Status}

Correction == [field : Field, value : Times \cup {"closed", Unread},
               status : {"requested", "approved", "rejected"}]

CorrectionsAssumption ==
    /\ {Null, Gone, Unread} \cap (Times \cup Ids) = {} /\ Times # {} /\ Unread # Null
    /\ Null \notin Correction \cup {Gone} /\ Gone \notin Log
    /\ Overlap \subseteq BOOLEAN

CallState == [pc : {"idle", "apply", "settle", "reject", "close"}, id : Ids \cup {Null},
              at : Times \cup {Null},
              row : Log \cup {Null}]       \* what getLog returned

TypeOK ==
    /\ log \in Log \cup {Gone}
    /\ correction \in [Ids -> Correction \cup {Null, Gone}]
    /\ call \in [Calls -> CallState]
    /\ overlap \in Overlap
    /\ applied \subseteq Ids /\ torn \subseteq Ids
    /\ meant \in [Field \ {"status"} -> Times \cup {Null}]

Idle == [pc |-> "idle", id |-> Null, at |-> Null, row |-> Null]

Opened(t) == [f \in Field |-> CASE f = "clock_in_utc" -> t
                                [] f = "clock_out_utc" -> Null
                                [] f = "status" -> "open"]

\* The employee has clocked in.
Init ==
    /\ \E t \in Times : log = Opened(t)
    /\ correction = [k \in Ids |-> Null]
    /\ call = [c \in Calls |-> Idle]
    /\ overlap \in Overlap
    /\ applied = {} /\ torn = {}
    /\ meant = [f \in Field \ {"status"} |-> log[f]]

At(c, pc) == call[c].pc = pc
MayStart(c) == At(c, "idle") /\ (overlap \/ \A d \in Calls : At(d, "idle"))
Start(c, locals) == MayStart(c) /\ call' = [call EXCEPT ![c] = locals]
Return(c) == call' = [call EXCEPT ![c] = Idle]
History == <<applied, torn, meant>>

\* The values of a field, and those that are asked for.
Takes(field, value) == value \in IF field = "status" THEN Status ELSE Times
Values(field) == {Unread} \cup IF field = "status" THEN {"closed"} ELSE Times

Exists(k) == correction[k] \notin {Null, Gone}

-----------------------------------------------------------------------------
(* Requests and decisions.  A correction goes with its log, so that reading *)
(* the log after it finds what the correction's own read found.             *)

RequestCorrection(k, field, value) ==
    /\ log # Gone
    /\ correction[k] = Null /\ k = CHOOSE x \in Ids : correction[x] = Null
    /\ correction' = [correction EXCEPT ![k] = [field |-> field, value |-> value,
                                                status |-> "requested"]]
    /\ UNCHANGED <<log, call, overlap, History>>

\* (mutant of MayDecide: the decision is not final)
MayDecideAgain(k) == Exists(k)

MayDecide(k) == Exists(k) /\ correction[k].status = "requested"

Decide(c, k, pc) ==
    /\ MayDecide(k)
    /\ Start(c, [Idle EXCEPT !.pc = pc, !.id = k,
                            !.row = IF pc = "apply" THEN log ELSE Null])
    /\ UNCHANGED <<log, correction, overlap, History>>

\* (mutant of Patched: the row that was read is written back)
PatchedRow(c, field, value) == [call[c].row EXCEPT !["status"] = "corrected", ![field] = value]

\* Only the columns named are written.
Patched(c, field, value) == [log EXCEPT !["status"] = "corrected", ![field] = value]

\* A value the column does not take fails the approval; of a log that is gone no
\* row is written.
ApplyCorrection(c) ==
    LET k == call[c].id
        field == correction[k].field
        value == correction[k].value
    IN  /\ At(c, "apply")
        /\ IF ~Exists(k)
           THEN call' = [call EXCEPT ![c].pc = "settle", ![c].row = Null] /\ UNCHANGED <<log, History>>
           ELSE IF Takes(field, value)
           THEN /\ log' = Patched(c, field, value)
                /\ call' = [call EXCEPT ![c].pc = "settle", ![c].row = Null]
                /\ applied' = applied \cup {k}
                /\ meant' = [f \in DOMAIN meant |-> IF f = field THEN value ELSE meant[f]]
                /\ UNCHANGED torn
           ELSE Return(c) /\ UNCHANGED <<log, History>>
        /\ UNCHANGED <<correction, overlap>>

Settle(c, pc, status) ==
    LET k == call[c].id
    IN  /\ At(c, pc)
        /\ correction' = IF Exists(k) THEN [correction EXCEPT ![k].status = status] ELSE correction
        /\ Return(c)
        /\ UNCHANGED <<log, overlap, History>>

-----------------------------------------------------------------------------
(* What else happens to the log *)

\* Another log, once nobody works on the one that was deleted.
ClockIn(t) ==
    /\ log = Gone /\ \A c \in Calls : At(c, "idle")
    /\ log' = Opened(t)
    /\ meant' = [f \in DOMAIN meant |-> log'[f]]
    /\ UNCHANGED <<correction, call, overlap, applied, torn>>

ClockOut(c, t) ==
    /\ log # Gone /\ log["clock_out_utc"] = Null
    /\ Start(c, [Idle EXCEPT !.pc = "close", !.at = t])
    /\ UNCHANGED <<log, correction, overlap, History>>

\* The update names its columns too.
CloseLog(c) ==
    LET t == call[c].at
    IN  /\ At(c, "close")
        /\ log' = IF log = Gone THEN Gone
                  ELSE [log EXCEPT !["clock_out_utc"] = t, !["status"] = "closed"]
        /\ meant' = IF log = Gone THEN meant ELSE [meant EXCEPT !["clock_out_utc"] = t]
        /\ Return(c)
        /\ UNCHANGED <<correction, overlap, applied, torn>>

DeleteLog ==
    /\ log # Gone
    /\ log' = Gone
    /\ correction' = [k \in Ids |-> IF Exists(k) THEN Gone ELSE correction[k]]
    /\ UNCHANGED <<call, overlap, History>>

Die(c) ==
    /\ ~At(c, "idle")
    /\ torn' = IF At(c, "settle") THEN torn \cup {call[c].id} ELSE torn
    /\ Return(c)
    /\ UNCHANGED <<log, correction, overlap, applied, meant>>

-----------------------------------------------------------------------------

Next ==
    \/ \E k \in Ids, field \in Field : \E value \in Values(field) : RequestCorrection(k, field, value)
    \/ \E c \in Calls :
          \/ \E k \in Ids : Decide(c, k, "apply") \/ Decide(c, k, "reject")
          \/ ApplyCorrection(c)
          \/ Settle(c, "settle", "approved")
          \/ Settle(c, "reject", "rejected")
          \/ \E t \in Times : ClockOut(c, t)
          \/ CloseLog(c)
          \/ Die(c)
    \/ DeleteLog
    \/ \E t \in Times : ClockIn(t)

Spec == Init /\ [][Next]_vars

-----------------------------------------------------------------------------
(* Properties *)

\* What a correction says was done: one that is approved was written into the log,
\* whatever ran at once, and where decisions do not overlap one that is not was not,
\* unless its approval died half way (attendance.service.ts:410).
DecidedIsDone ==
    \A k \in Ids : Exists(k) =>
        /\ correction[k].status = "approved" => k \in applied
        /\ ~overlap /\ k \in applied \ torn /\ correction[k].status # "approved" =>
               \E c \in Calls : At(c, "settle") /\ call[c].id = k

\* A correction writes the field that it names (attendance.service.ts:451): each time
\* of the log is the one it was last given, whatever else was being written at once.
NoFieldUndone ==
    log # Gone => \A f \in DOMAIN meant : log[f] = meant[f]

\* A correction says what became of it, and undoes no other field.
CorrectionsHold == DecidedIsDone /\ NoFieldUndone
=============================================================================
