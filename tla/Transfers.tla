----------------------------- MODULE Transfers -----------------------------
(***************************************************************************)
(* Moving employees between stores: TransfersService over its repository,  *)
(* with the store links of EmployeesService that it shares.  A permanent   *)
(* transfer changes the employee's primary store; a temporary one adds a   *)
(* guest link for a window of days, which a sweep over all transfers opens *)
(* and closes.  Every repository call is a transaction of its own.  A call *)
(* that has answered is free for the next request; one that dies is lost.  *)
(***************************************************************************)
EXTENDS Naturals, FiniteSets

CONSTANTS
    Calls,           \* HTTP calls in progress at a time
    Transfers, Employees, Stores,
    Links,           \* ids of employee_stores rows
    Null,
    Asked,           \* what each transfer asks for
    Home,            \* the primary store of each employee at first
    ByHand,          \* pairs of employee and store that HR links by hand
    Postings,        \* pairs of employee and primary store that HR enters
    MaxDay,          \* bound on the calendar
    Crashes,         \* may a call die between two transactions?
    Exclusive        \* do calls come one at a time?

Day == 0..MaxDay
Terms == [kind : {"temporary", "permanent"}, employee : Employees,
          from : Stores \cup {Null}, to : Stores, start : Day, end : Day]

TransfersAssumption ==
    /\ MaxDay \in Nat /\ Employees # {} /\ Stores # {}
    /\ Asked \in [Transfers -> Terms]
    /\ \A t \in Transfers : Asked[t].start <= Asked[t].end
    /\ Home \in [Employees -> Stores]
    /\ ByHand \subseteq Employees \X Stores
    /\ Postings \subseteq Employees \X Stores
    /\ Null \notin Links /\ Null \notin Transfers /\ Null \notin Stores
    /\ {Crashes, Exclusive} \subseteq BOOLEAN

VARIABLES
    today,           \* the date
    transfer,        \* transfers: status and link id
    link,            \* employee_stores
    home,            \* employees.primary_store_id, and who wrote it last
    call             \* the locals of each call

vars == <<today, transfer, link, home, call>>

-----------------------------------------------------------------------------
(* Types *)

Status == {"none", "requested", "approved", "active", "completed", "rejected", "cancelled"}
TransferRow == [status : Status, link : Links \cup {Null}]

\* Ids are never used twice: "gone" is an id that has been deleted.
LinkRow == [state : {"none", "present", "gone"}, employee : Employees, store : Stores,
            relation : {"guest", "secondary"}]

\* edited: history, was HR the last to enter the store, no transfer?
HomeRow == [store : Stores, edited : BOOLEAN]

Due == [t : Transfers, link : Links \cup {Null}]
Pc == {"idle", "insert", "home", "link", "unlink", "status", "opening", "closing", "dead"}
CallState == [pc : Pc, op : {"none", "create", "approve", "reject", "cancel", "sweep"},
              t : Transfers \cup {Null},
              link : Links \cup {Null},
              next : Status,           \* the status to be written
              date : Day,              \* today, as the sweep knows it
              due : SUBSET Due]        \* what is left of the sweep's list

TypeOK ==
    /\ today \in Day
    /\ transfer \in [Transfers -> TransferRow]
    /\ link \in [Links -> LinkRow]
    /\ home \in [Employees -> HomeRow]
    /\ call \in [Calls -> CallState]

NoLink == [state |-> "none", employee |-> CHOOSE e \in Employees : TRUE,
           store |-> CHOOSE s \in Stores : TRUE, relation |-> "guest"]
Idle == [pc |-> "idle", op |-> "none", t |-> Null, link |-> Null, next |-> "none",
         date |-> 0, due |-> {}]

Init ==
    /\ today = 0
    /\ transfer = [t \in Transfers |-> [status |-> "none", link |-> Null]]
    /\ link = [l \in Links |-> NoLink]
    /\ home = [e \in Employees |-> [store |-> Home[e], edited |-> FALSE]]
    /\ call = [c \in Calls |-> Idle]

-----------------------------------------------------------------------------
(* Helpers *)

Running(c) == call[c].pc \notin {"idle", "dead"}
Begin(c) == call[c].pc = "idle" /\ (Exclusive => \A d \in Calls : ~Running(d))
Become(c, locals) == call' = [call EXCEPT ![c] = locals]
Answer(c) == Become(c, Idle)

LinksOf(e, s) == {l \in Links : link[l].state = "present" /\ link[l].employee = e
                                                          /\ link[l].store = s}

\* Ids are alike: the next one that has not been used.
NewLink == CHOOSE l \in Links : link[l].state = "none"

\* Insert, or on conflict with the row of the same employee and store set its
\* relation; either way the row's id l.
Upserted(l, e, s, relation) ==
    /\ IF LinksOf(e, s) = {} THEN link[l].state = "none" /\ l = NewLink ELSE l \in LinksOf(e, s)
    /\ link' = [link EXCEPT ![l] = [state |-> "present", employee |-> e, store |-> s,
                                    relation |-> relation]]

Temporary(t) == Asked[t].kind = "temporary"
Started(t, date) == Asked[t].start <= date
Ended(t, date) == Asked[t].end <= date

-----------------------------------------------------------------------------
(* create: the destination is not the store the client names as the current *)
(* one, or else the employee's primary store; insert.                       *)

From(t) == IF Asked[t].from = Null THEN home[Asked[t].employee].store ELSE Asked[t].from

FindEmployee(c, t) ==
    /\ Begin(c)
    /\ transfer[t].status = "none"
    /\ \A d \in Calls : call[d].t # t
    /\ Asked[t].to # From(t)
    /\ Become(c, [Idle EXCEPT !.pc = "insert", !.op = "create", !.t = t])
    /\ UNCHANGED <<today, transfer, link, home>>

InsertTransfer(c) ==
    LET t == call[c].t
    IN  /\ call[c].pc = "insert"
        /\ transfer' = [transfer EXCEPT ![t].status = "requested"]
        /\ Answer(c)
        /\ UNCHANGED <<today, link, home>>

-----------------------------------------------------------------------------
(* approve, reject, cancel: read and check the row; then the primary store *)
(* or the link; then the row.                                              *)

Decides(c, op, t, at, next) ==
    /\ Become(c, [Idle EXCEPT !.pc = at, !.op = op, !.t = t, !.next = next,
                              !.link = transfer[t].link])
    /\ UNCHANGED <<today, transfer, link, home>>

ReadForApproval(c, t) ==
    /\ Begin(c)
    /\ transfer[t].status = "requested"
    /\ CASE ~Temporary(t)      -> Decides(c, "approve", t, "home", "completed")
         [] Temporary(t) /\ Started(t, today)  -> Decides(c, "approve", t, "link", "active")
         [] Temporary(t) /\ ~Started(t, today) -> Decides(c, "approve", t, "status", "approved")

ReadForRejection(c, t) ==
    /\ Begin(c)
    /\ transfer[t].status = "requested"
    /\ Decides(c, "reject", t, "status", "rejected")

ReadForCancel(c, t) ==
    /\ Begin(c)
    /\ transfer[t].status \notin {"none", "completed", "cancelled"}
    /\ Decides(c, "cancel", t,
               IF transfer[t].status = "active" /\ transfer[t].link # Null
               THEN "unlink" ELSE "status", "cancelled")

SetPrimaryStore(c) ==
    /\ call[c].pc = "home"
    /\ home' = [home EXCEPT ![Asked[call[c].t].employee] =
                          [store |-> Asked[call[c].t].to, edited |-> FALSE]]
    /\ call' = [call EXCEPT ![c].pc = "status"]
    /\ UNCHANGED <<today, transfer, link>>

AddLink(c, l) ==
    LET t == call[c].t
    IN  /\ call[c].pc = "link"
        /\ Upserted(l, Asked[t].employee, Asked[t].to, "guest")
        /\ call' = [call EXCEPT ![c].pc = "status", ![c].link = l]
        /\ UNCHANGED <<today, transfer, home>>

\* Deletes by id: no row, no effect.
RemoveLink(c) ==
    LET l == call[c].link
    IN  /\ call[c].pc = "unlink"
        /\ link' = IF link[l].state = "present" THEN [link EXCEPT ![l].state = "gone"] ELSE link
        /\ call' = [call EXCEPT ![c].pc = "status"]
        /\ UNCHANGED <<today, transfer, home>>

\* (mutant of LinkColumn: the id of the link is not kept)
NoColumn(c) == Null

\* The link column: set on activation, cleared when the transfer is over, left
\* alone otherwise.
LinkColumn(c) ==
    CASE call[c].next = "active" -> call[c].link
      [] call[c].next \in {"completed", "cancelled"} -> Null
      [] OTHER -> transfer[call[c].t].link

\* A sweep goes on with its list: "opening" is followed by "closing".
WriteStatus(c) ==
    /\ call[c].pc = "status"
    /\ transfer' = [transfer EXCEPT ![call[c].t] = [status |-> call[c].next,
                                                    link |-> LinkColumn(c)]]
    /\ Become(c, IF call[c].op = "sweep"
                 THEN [call[c] EXCEPT !.pc = IF call[c].next = "active" THEN "opening" ELSE "closing",
                                      !.t = Null, !.link = Null, !.next = "none"]
                 ELSE Idle)
    /\ UNCHANGED <<today, link, home>>

-----------------------------------------------------------------------------
(* runScheduledSweep: open what has started, then close what has ended.    *)
(* Nothing in the repository calls it yet; here it may be called any time. *)

Listed(S) == {[t |-> t, link |-> transfer[t].link] : t \in S}

DueToActivate(date) == {t \in Transfers : Temporary(t) /\ transfer[t].status = "approved"
                                                       /\ Started(t, date)}

\* (mutant of DueToRevert: the last day of the window counts as inside it)
DueAfterEnd(date) == {t \in Transfers : Temporary(t) /\ transfer[t].status = "active"
                                                     /\ Asked[t].end < date}

DueToRevert(date) == {t \in Transfers : Temporary(t) /\ transfer[t].status = "active"
                                                     /\ Ended(t, date)}

BeginSweep(c) ==
    /\ Begin(c)
    /\ Become(c, [Idle EXCEPT !.pc = "opening", !.op = "sweep", !.date = today,
                              !.due = Listed(DueToActivate(today))])
    /\ UNCHANGED <<today, transfer, link, home>>

Open(c) ==
    /\ call[c].pc = "opening"
    /\ \E d \in call[c].due :
          Become(c, [call[c] EXCEPT !.pc = "link", !.t = d.t, !.next = "active", !.due = @ \ {d}])
    /\ UNCHANGED <<today, transfer, link, home>>

FindOverdue(c) ==
    /\ call[c].pc = "opening"
    /\ call[c].due = {}
    /\ Become(c, [call[c] EXCEPT !.pc = "closing",
                                 !.due = Listed(DueToRevert(call[c].date))])
    /\ UNCHANGED <<today, transfer, link, home>>

Close(c) ==
    /\ call[c].pc = "closing"
    /\ \E d \in call[c].due :
          Become(c, [call[c] EXCEPT !.pc = IF d.link = Null THEN "status" ELSE "unlink",
                                    !.t = d.t, !.link = d.link, !.next = "completed",
                                    !.due = @ \ {d}])
    /\ UNCHANGED <<today, transfer, link, home>>

EndSweep(c) ==
    /\ call[c].pc = "closing"
    /\ call[c].due = {}
    /\ Answer(c)
    /\ UNCHANGED <<today, transfer, link, home>>

-----------------------------------------------------------------------------
(* EmployeesService writes the same rows: update, addStoreLink and          *)
(* removeStoreLink, one transaction each.                                  *)

UpdateEmployee(e, s) ==
    /\ <<e, s>> \in Postings
    /\ home' = [home EXCEPT ![e] = [store |-> s, edited |-> TRUE]]
    /\ UNCHANGED <<today, transfer, link, call>>

AddStoreLink(e, s, l) ==
    /\ <<e, s>> \in ByHand
    /\ Upserted(l, e, s, "secondary")
    /\ UNCHANGED <<today, transfer, home, call>>

RemoveStoreLink(e, s) ==
    /\ <<e, s>> \in ByHand
    /\ link' = [l \in Links |-> IF l \in LinksOf(e, s) THEN [link[l] EXCEPT !.state = "gone"]
                                                       ELSE link[l]]
    /\ UNCHANGED <<today, transfer, home, call>>

Crash(c) ==
    /\ Crashes /\ Running(c)
    /\ Become(c, [Idle EXCEPT !.pc = "dead"])
    /\ UNCHANGED <<today, transfer, link, home>>

Tick == /\ today < MaxDay
        /\ today' = today + 1
        /\ UNCHANGED <<transfer, link, home, call>>

-----------------------------------------------------------------------------

Proceed(c) ==
    \/ InsertTransfer(c)
    \/ SetPrimaryStore(c)
    \/ \E l \in Links : AddLink(c, l)
    \/ RemoveLink(c)
    \/ WriteStatus(c)
    \/ Open(c)
    \/ FindOverdue(c)
    \/ Close(c)
    \/ EndSweep(c)

Next ==
    \/ \E c \in Calls, t \in Transfers :
          \/ FindEmployee(c, t)
          \/ ReadForApproval(c, t)
          \/ ReadForRejection(c, t)
          \/ ReadForCancel(c, t)
    \/ \E c \in Calls : BeginSweep(c) \/ Proceed(c) \/ Crash(c)
    \/ \E e \in Employees, s \in Stores :
          \/ \E l \in Links : AddStoreLink(e, s, l)
          \/ RemoveStoreLink(e, s)
          \/ UpdateEmployee(e, s)
    \/ Tick

Spec == Init /\ [][Next]_vars
-----------------------------------------------------------------------------
(* Properties *)

NoneRunning == \A c \in Calls : ~Running(c)
AllAnswered == \A c \in Calls : call[c].pc = "idle"

\* A temporary transfer that shares its employee and store with no other, and
\* with no link HR keeps by hand.
Pair(t) == <<Asked[t].employee, Asked[t].to>>
Alone(t) == /\ Temporary(t) /\ Pair(t) \notin ByHand
            /\ \A u \in Transfers \ {t} : Temporary(u) => Pair(u) # Pair(t)
LinksFor(t) == LinksOf(Asked[t].employee, Asked[t].to)

\* "Temporary transfers create a guest employee_stores link for the window and
\* auto-revert at the end" (transfers.service.ts:14): once every call has
\* answered, the link is there while the transfer is active, under the id the
\* transfer keeps, and not before or after, however it ended.
GuestWhileActive ==
    AllAnswered => \A t \in Transfers : Alone(t) =>
        IF transfer[t].status = "active" THEN LinksFor(t) = {transfer[t].link}
                                         ELSE LinksFor(t) = {}

\* A completed transfer leaves no link behind even when approvals, sweeps or
\* cancellations before died half way: adding and removing the link are
\* idempotent, and both come before the row is written.
CompletedLeavesNone ==
    NoneRunning => \A t \in Transfers :
        Alone(t) /\ transfer[t].status = "completed" => LinksFor(t) = {}

\* A sweep that runs to its end leaves nothing overdue, whatever was left by
\* one that died: what it opens in its first half it may have to close in
\* its second.
SweepCatchesUp ==
    \A c \in Calls : call[c].op = "sweep" /\ call'[c].pc = "idle" =>
        \A t \in Transfers : Temporary(t) =>
            /\ transfer[t].status = "approved" => ~Started(t, call[c].date)
            /\ transfer[t].status = "active" => ~Ended(t, call[c].date)

\* An employee whose one permanent transfer is completed works at its
\* destination, unless HR has entered another primary store since: the move comes
\* before the row (transfers.service.ts:96).  That edit is refused by nothing while a
\* transfer is under way, and the next one takes its origin from it.
CompletedMoved ==
    \A t \in Transfers :
        /\ transfer[t].status = "completed" /\ ~Temporary(t)
        /\ \A u \in Transfers \ {t} :
              Asked[u].employee = Asked[t].employee => Temporary(u)
        /\ ~home[Asked[t].employee].edited
        => home[Asked[t].employee].store = Asked[t].to

\* "The employee_stores link spun up for a temporary transfer, removed on
\* revert." (schema/transfers.ts:34): an active transfer has its link, whatever
\* other transfers of the employee come and go.
ActiveHasLink ==
    AllAnswered => \A t \in Transfers :
        transfer[t].status = "active" /\ Pair(t) \notin ByHand =>
            transfer[t].link \in LinksFor(t)
=============================================================================
