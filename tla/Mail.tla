-------------------------------- MODULE Mail --------------------------------
(***************************************************************************)
(* What leaves the house: NotificationsService.emit with its preferences,  *)
(* EmailService.send, the two queues behind them (QueueService, with       *)
(* Redis), their workers and the mailer.  A job is tried three times; an   *)
(* attempt fails when it throws, and the worker may die half way.          *)
(***************************************************************************)
EXTENDS Naturals, Sequences, FiniteSets

CONSTANTS
    Calls,           \* handlers that run at a time
    Users,
    Null,
    MaxNotes, MaxEmails,     \* bounds on the rows
    Sizes,                   \* ... and the smaller ones of each instance
    Attempts                 \* 3

VARIABLES
    pref,            \* notif_preferences: who wants e-mails
    note,            \* notifications: for whom, and whether it has been read
    email,           \* email_messages: the status
    job,             \* the jobs of both queues
    worker,          \* the job each worker is at
    inbox,           \* external: how often an e-mail was handed to the provider
    mailed,          \* external: the notifications that were mailed
    call,            \* the locals of each handler
    size,            \* the bounds of this instance, which never change
    lost,            \* history: the e-mails whose handler or worker gave up
    again,           \* history: the e-mails of which a second attempt was made
    unheard          \* history: those the provider took while the mailer reported an error

vars == <<pref, note, email, job, worker, inbox, mailed, call, size, lost, again, unheard>>

-----------------------------------------------------------------------------
(* Types *)

Queue == {"notif", "email"}
EmailStatus == {"draft", "queued", "sent", "delivered", "bounced", "failed"}
Emails == Seq(EmailStatus)
Preferences == [Users -> BOOLEAN]
Id == 0..(MaxNotes + MaxEmails)
Job == [queue : Queue, id : Id, to : Users \cup {Null}, attempt : 1..Attempts]
AtWork == [job : Job, ok : {Null} \cup BOOLEAN]     \* Null: nothing sent yet
Note == [user : Users, read : BOOLEAN]
CallState == [pc : {"idle", "emit", "row", "queue"}, queue : Queue, id : Id,
              people : SUBSET Users,     \* who is to be told
              user : Users \cup {Null}, mail : BOOLEAN]

MailAssumption ==
    /\ {MaxNotes, MaxEmails} \subseteq Nat /\ Attempts \in Nat \ {0}
    /\ Sizes \subseteq [notes : 0..MaxNotes, emails : 0..MaxEmails]
    /\ Null \notin Users \cup BOOLEAN \cup AtWork

TypeOK ==
    /\ pref \in Preferences
    /\ note \in Seq(Note) /\ Len(note) <= MaxNotes
    /\ email \in Emails /\ Len(email) <= MaxEmails
    /\ job \subseteq Job
    /\ worker \in [Queue -> AtWork \cup {Null}]
    /\ inbox \in [1..MaxEmails -> 0..Attempts]
    /\ mailed \subseteq 1..MaxNotes
    /\ call \in [Calls -> CallState]
    /\ size \in Sizes
    /\ {lost, again, unheard} \subseteq SUBSET (1..MaxEmails)

Idle == [pc |-> "idle", queue |-> "notif", id |-> 0, people |-> {}, user |-> Null, mail |-> FALSE]

Init ==
    /\ pref = [u \in Users |-> TRUE]
    /\ note = <<>> /\ email = <<>>
    /\ job = {} /\ worker = [q \in Queue |-> Null]
    /\ inbox = [i \in 1..MaxEmails |-> 0] /\ mailed = {}
    /\ call = [c \in Calls |-> Idle]
    /\ size \in Sizes
    /\ lost = {} /\ again = {} /\ unheard = {}

At(c, pc) == call[c].pc = pc
Return(c) == call' = [call EXCEPT ![c] = Idle]
Outside == <<inbox, mailed>>
Rest == <<size, lost, again, unheard>>

-----------------------------------------------------------------------------
(* emit *)

UpdatePreference(u) ==
    /\ pref' = [pref EXCEPT ![u] = ~@]
    /\ UNCHANGED <<note, email, job, worker, Outside, call, Rest>>

\* One person, or all those of a role (broadcast), one after the other.
Broadcast(c, people) ==
    /\ At(c, "idle") /\ people # {}
    /\ call' = [call EXCEPT ![c] = [Idle EXCEPT !.pc = "emit", !.people = people]]
    /\ UNCHANGED <<pref, note, email, job, worker, Outside, Rest>>

\* Whether e-mails are wanted is read first; the notification is written in any case.
FindPreference(c, u) ==
    /\ At(c, "emit") /\ u \in call[c].people
    /\ call' = [call EXCEPT ![c].pc = "row", ![c].user = u, ![c].people = @ \ {u}, ![c].mail = pref[u]]
    /\ UNCHANGED <<pref, note, email, job, worker, Outside, Rest>>

GoOn(c) ==
    IF call[c].people = {}
        THEN Return(c)
        ELSE call' = [call EXCEPT ![c] = [Idle EXCEPT !.pc = "emit", !.people = call[c].people]]

CreateNotification(c) ==
    /\ At(c, "row") /\ Len(note) < size.notes
    /\ note' = Append(note, [user |-> call[c].user, read |-> FALSE])
    /\ IF call[c].mail THEN call' = [call EXCEPT ![c].pc = "queue", ![c].id = Len(note) + 1]
                       ELSE GoOn(c)
    /\ UNCHANGED <<pref, email, job, worker, Outside, Rest>>

MarkRead(u, i) ==
    /\ i \in DOMAIN note /\ note[i].user = u
    /\ note' = [note EXCEPT ![i].read = TRUE]
    /\ UNCHANGED <<pref, email, job, worker, Outside, call, Rest>>

MarkAllRead(u) ==
    /\ note' = [i \in DOMAIN note |-> IF note[i].user = u THEN [note[i] EXCEPT !.read = TRUE] ELSE note[i]]
    /\ UNCHANGED <<pref, email, job, worker, Outside, call, Rest>>

-----------------------------------------------------------------------------
(* send: the thread, which may exist, the message, the job                 *)

Send(c) ==
    /\ At(c, "idle") /\ Len(email) < size.emails
    /\ email' = Append(email, "queued")
    /\ call' = [call EXCEPT ![c] = [Idle EXCEPT !.pc = "queue", !.queue = "email", !.id = Len(email) + 1]]
    /\ UNCHANGED <<pref, note, job, worker, Outside, Rest>>

\* The job of a notification names no address.  Those of an e-mail are with the
\* message's row.
NewJob(c) == [queue |-> call[c].queue, id |-> call[c].id, to |-> Null, attempt |-> 1]

Enqueue(c) ==
    /\ At(c, "queue")
    /\ job' = job \cup {NewJob(c)}
    /\ GoOn(c)
    /\ UNCHANGED <<pref, note, email, worker, Outside, Rest>>

\* A handler dies, or Redis cannot be reached.
Crash(c) ==
    /\ ~At(c, "idle")
    /\ lost' = IF At(c, "queue") /\ call[c].queue = "email" THEN lost \cup {call[c].id} ELSE lost
    /\ Return(c)
    /\ UNCHANGED <<pref, note, email, job, worker, Outside, size, again, unheard>>

-----------------------------------------------------------------------------
(* The workers, one for each queue                                         *)

Take(q, j) ==
    /\ worker[q] = Null /\ j \in job /\ j.queue = q
    /\ worker' = [worker EXCEPT ![q] = [job |-> j, ok |-> Null]]
    /\ again' = IF j.queue = "email" /\ j.attempt > 1 THEN again \cup {j.id} ELSE again
    /\ UNCHANGED <<pref, note, email, job, Outside, call, size, lost, unheard>>

Working(q, ok) == worker[q] # Null /\ worker[q].ok = ok
Finish(q) ==
    /\ job' = job \ {worker[q].job}
    /\ worker' = [worker EXCEPT ![q] = Null]

\* Without an address there is nothing to do.
NotifyByMail ==
    /\ Working("notif", Null)
    /\ mailed' = IF worker["notif"].job.to # Null THEN mailed \cup {worker["notif"].job.id} ELSE mailed
    /\ Finish("notif")
    /\ UNCHANGED <<pref, note, email, inbox, call, Rest>>

\* The mailer does not throw: whatever is thrown while the provider is asked is an error it
\* answers, a response that was lost after the e-mail was taken included.
Deliver(ok, taken) ==
    LET i == worker["email"].job.id
    IN  /\ Working("email", Null) /\ (ok => taken)
        /\ inbox' = IF taken THEN [inbox EXCEPT ![i] = @ + 1] ELSE inbox
        /\ unheard' = IF taken /\ ~ok THEN unheard \cup {i} ELSE unheard
        /\ worker' = [worker EXCEPT !["email"].ok = ok]
        /\ UNCHANGED <<pref, note, email, job, mailed, call, size, lost, again>>

\* (mutant of StatusOf: whatever the mailer answers)
SentAnyway(ok) == "sent"

\* (mutant of StatusOf: only what was sent is written down)
QueuedStill(ok) == IF ok THEN "sent" ELSE "queued"

StatusOf(ok) == IF ok THEN "sent" ELSE "failed"

Record ==
    /\ worker["email"] # Null /\ worker["email"].ok # Null
    /\ email' = [email EXCEPT ![worker["email"].job.id] = StatusOf(worker["email"].ok)]
    /\ Finish("email")
    /\ UNCHANGED <<pref, note, Outside, call, Rest>>

\* An attempt throws or its worker dies: the job is tried again, or given up.
Fail(q) ==
    LET j == worker[q].job
    IN  /\ worker[q] # Null
        /\ worker' = [worker EXCEPT ![q] = Null]
        /\ job' = (job \ {j}) \cup (IF j.attempt < Attempts THEN {[j EXCEPT !.attempt = @ + 1]} ELSE {})
        /\ lost' = IF q = "email" /\ j.attempt = Attempts THEN lost \cup {j.id} ELSE lost
        /\ UNCHANGED <<pref, note, email, Outside, call, size, again, unheard>>

-----------------------------------------------------------------------------

Next ==
    \/ \E u \in Users :
          \/ UpdatePreference(u)
          \/ \E i \in DOMAIN note : MarkRead(u, i)
          \/ MarkAllRead(u)
    \/ \E c \in Calls :
          \/ \E people \in SUBSET Users : Broadcast(c, people)
          \/ \E u \in Users : FindPreference(c, u)
          \/ CreateNotification(c)
          \/ Send(c)
          \/ Enqueue(c)
          \/ Crash(c)
    \/ \E q \in Queue :
          \/ \E j \in job : Take(q, j)
          \/ Fail(q)
    \/ NotifyByMail
    \/ \E ok, taken \in BOOLEAN : Deliver(ok, taken)
    \/ Record

Spec == Init /\ [][Next]_vars

\* Handlers go on; the worker takes job after job, and goes on until one is done.
WorkOnEmail ==
    \/ \E j \in job : Take("email", j)
    \/ \E ok, taken \in BOOLEAN : Deliver(ok, taken)
    \/ Record
FairSpec == Spec /\ WF_vars(WorkOnEmail) /\ \A c \in Calls : WF_vars(Enqueue(c))

-----------------------------------------------------------------------------
(* Properties *)

\* "deliver a queued email message and record the result" (email.service.ts:30):
\* sent is what the provider took, however often it was tried.  Of one attempt it took
\* nothing twice, and what failed it did not take, unless its answer was lost.
StatusIsTrue ==
    \A i \in DOMAIN email :
        /\ email[i] = "sent" => inbox[i] > 0
        /\ i \notin again => inbox[i] <= 1 /\ (email[i] = "failed" /\ inbox[i] > 0 => i \in unheard)

\* An e-mail that is queued is sent or fails in the end, unless its handler died
\* before the job was there, or all the attempts did.
Decided(i) == email[i] \in {"sent", "failed"} \/ i \in lost
QueuedIsDecided == \A i \in 1..MaxEmails : (i \in DOMAIN email) ~> (i \in DOMAIN email /\ Decided(i))
=============================================================================
