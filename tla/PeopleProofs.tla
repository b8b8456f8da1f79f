---------------------------- MODULE PeopleProofs ----------------------------
(***************************************************************************)
(* Proofs about what is kept of people (Staff) and what they write and are *)
(* told (Inbox).  The parts of each share nothing: an inductive invariant  *)
(* for every part, and at the end the two compositions.                    *)
(***************************************************************************)
EXTENDS Staff, Inbox, SequenceTheorems, FiniteSetTheorems, WellFoundedInduction, TLAPS

\* Of handlers that do not overlap one is at work at a time.
Busy(c) == call[c].pc # "idle"
InTurn == ~overlap => \A c, d \in Calls : Busy(c) /\ Busy(d) => c = d

-----------------------------------------------------------------------------
(* Mail *)

\* An e-mail is with its handler, then in its job, and what was decided is with neither.
Queuing(c) == L!At(c, "queue") /\ sending[c].queue = "email"
MailJobs == {j \in post : j.queue = "email"}
Unmade(i) == email[i] = "queued" /\ inbox[i] = 0

HandlersKnow ==
    \A c \in Senders :
        /\ sending[c].pc \in {"emit", "row"} => sending[c].queue = "notif"
        /\ sending[c].pc = "row" => sending[c].user \in Readers
        /\ Queuing(c) => /\ sending[c].id \in 1..Len(email) /\ Unmade(sending[c].id)
                         /\ \A j \in MailJobs : j.id # sending[c].id
OneHandler ==
    \A c, d \in Senders : Queuing(c) /\ Queuing(d) /\ sending[c].id = sending[d].id => c = d

OneJob == \A j, k \in MailJobs : j.id = k.id => j = k

\* The provider is asked at most once in each attempt.
Taken(j) == worker["email"] # None /\ worker["email"].job = j /\ worker["email"].ok # None
JobsOpen ==
    \A j \in MailJobs :
        /\ j.id \in 1..Len(email) /\ email[j.id] = "queued"
        /\ inbox[j.id] <= j.attempt
        /\ inbox[j.id] < j.attempt \/ Taken(j)

\* What was answered with an error was not taken, or was in an earlier attempt, or the
\* answer was lost.
AnswerLost(i) == inbox[i] = 0 \/ i \in again \/ i \in unheard

WorkersKnow ==
    /\ \A q \in L!Queue : worker[q] # None => worker[q].job \in post /\ worker[q].job.queue = q
    /\ worker["email"] # None =>
         /\ worker["email"].job.attempt > 1 => worker["email"].job.id \in again
         /\ worker["email"].ok = TRUE => inbox[worker["email"].job.id] > 0
         /\ worker["email"].ok = FALSE => AnswerLost(worker["email"].job.id)

\* No job names an address: those of notifications have none.
NoAddress == \A j \in post : j.to = None

Unsent == \A i \in 1..MaxEmails : i > Len(email) => inbox[i] = 0

MailSafe ==
    /\ L!TypeOK /\ HandlersKnow /\ OneHandler /\ OneJob /\ JobsOpen /\ WorkersKnow /\ Unsent
    /\ NoAddress /\ L!StatusIsTrue

LEMMA MailInit ==
    ASSUME L!MailAssumption
    PROVE  L!Init => MailSafe
<1> SUFFICES ASSUME L!Init PROVE MailSafe
  OBVIOUS
<1>1. L!Idle \in L!CallState
  BY DEF L!MailAssumption, L!Idle, L!CallState, L!Queue, L!Id
<1>2. L!TypeOK
  BY <1>1, EmptySeq DEF L!MailAssumption, L!Init, L!TypeOK, L!Preferences, L!Emails, L!Queue
<1>3. /\ HandlersKnow /\ OneHandler /\ OneJob /\ JobsOpen /\ WorkersKnow /\ Unsent /\ NoAddress
      /\ L!StatusIsTrue
  BY DEF L!Init, L!Idle, L!At, Queuing, HandlersKnow, OneHandler, OneJob, JobsOpen,
         WorkersKnow, Unsent, NoAddress, MailJobs, L!StatusIsTrue, L!Queue
<1>4. QED
  BY <1>2, <1>3 DEF MailSafe

\* Steps that make, hand over or decide no e-mail.
LEMMA MailQuiet ==
    ASSUME MailSafe, NEW c \in Senders, NEW l \in L!CallState,
           sending' = [sending EXCEPT ![c] = l] \/ UNCHANGED sending,
           sending' = [sending EXCEPT ![c] = l] =>
              /\ l.pc \in {"emit", "row"} => l.queue = "notif"
              /\ l.pc = "row" => l.user \in Readers
              /\ l.pc = "queue" => l.queue = "notif",
           UNCHANGED <<email, post, worker, inbox, mailed, bound, again, unheard>>,
           pref' \in L!Preferences, note' \in Seq(L!Note), Len(note') <= MaxNotes,
           lost' \subseteq 1..MaxEmails
    PROVE  MailSafe'
<1>1. sending' \in [Senders -> L!CallState]
  BY DEF MailSafe, L!TypeOK
<1>2. L!TypeOK'
  BY <1>1 DEF MailSafe, L!TypeOK
<1>3. ASSUME NEW x \in Senders
      PROVE  /\ Queuing(x)' => Queuing(x) /\ sending'[x] = sending[x]
             /\ sending'[x].pc \in {"emit", "row"} => sending'[x].queue = "notif"
             /\ sending'[x].pc = "row" => sending'[x].user \in Readers
  BY DEF MailSafe, L!TypeOK, HandlersKnow, Queuing, L!At
<1>4. HandlersKnow' /\ OneHandler'
  BY <1>3 DEF MailSafe, HandlersKnow, OneHandler, Unmade, MailJobs, Queuing, L!At
<1>5. OneJob' /\ JobsOpen' /\ WorkersKnow' /\ Unsent' /\ NoAddress' /\ L!StatusIsTrue'
  BY DEF MailSafe, OneJob, JobsOpen, Taken, WorkersKnow, AnswerLost, Unsent, NoAddress, L!StatusIsTrue,
         MailJobs
<1>6. QED
  BY <1>2, <1>4, <1>5 DEF MailSafe

LEMMA IdleMail ==
    ASSUME L!MailAssumption
    PROVE  /\ L!Idle \in L!CallState /\ L!Idle.pc = "idle" /\ L!Idle.queue = "notif"
           /\ \A people \in SUBSET Readers :
                 /\ [L!Idle EXCEPT !.pc = "emit", !.people = people] \in L!CallState
                 /\ [L!Idle EXCEPT !.pc = "emit", !.people = people].pc = "emit"
                 /\ [L!Idle EXCEPT !.pc = "emit", !.people = people].queue = "notif"
<1>1. 0 \in L!Id
  BY DEF L!MailAssumption, L!Id
<1>2. /\ L!Idle \in L!CallState /\ L!Idle.pc = "idle" /\ L!Idle.queue = "notif"
  BY <1>1 DEF L!Idle, L!CallState, L!Queue
<1>3. ASSUME NEW people \in SUBSET Readers
      PROVE  /\ [L!Idle EXCEPT !.pc = "emit", !.people = people] \in L!CallState
             /\ [L!Idle EXCEPT !.pc = "emit", !.people = people].pc = "emit"
             /\ [L!Idle EXCEPT !.pc = "emit", !.people = people].queue = "notif"
  BY <1>1 DEF L!Idle, L!CallState, L!Queue
<1>4. QED
  BY <1>2, <1>3

\* A handler that goes on has nothing in hand.
LEMMA GoingOn ==
    ASSUME L!MailAssumption, MailSafe, NEW c \in Senders, L!GoOn(c) \/ L!Return(c)
    PROVE  \E l \in L!CallState :
              sending' = [sending EXCEPT ![c] = l] /\ l.pc \in {"idle", "emit"} /\ l.queue = "notif"
<1>1. sending[c].people \in SUBSET Readers
  BY DEF MailSafe, L!TypeOK, L!CallState
<1>2. QED
  BY <1>1, IdleMail DEF L!GoOn, L!Return

LEMMA NotesSafe ==
    ASSUME L!MailAssumption, MailSafe,
           \/ \E u \in Readers : \/ L!UpdatePreference(u) \/ L!MarkAllRead(u)
                               \/ \E i \in DOMAIN note : L!MarkRead(u, i)
    PROVE  MailSafe'
<1>1. /\ UNCHANGED <<email, post, worker, inbox, mailed, sending, bound, lost, again, unheard>>
      /\ pref' \in L!Preferences
  BY DEF L!UpdatePreference, L!MarkAllRead, L!MarkRead, L!Outside, L!Rest, MailSafe,
         L!TypeOK, L!Preferences
<1>2. note' \in Seq(L!Note) /\ Len(note') <= MaxNotes
  <2>0. note \in Seq(L!Note) /\ Len(note) <= MaxNotes /\ DOMAIN note = 1..Len(note)
    BY DEF MailSafe, L!TypeOK
  <2>00. \A i \in 1..Len(note) : note[i] \in [user : Readers, read : BOOLEAN]
    BY <2>0, ElementOfSeq DEF L!Note
  <2>1. ASSUME NEW u \in Readers, L!UpdatePreference(u) PROVE <1>2!:
    BY <2>0, <2>1 DEF L!UpdatePreference
  <2>2. ASSUME NEW u \in Readers, NEW i \in DOMAIN note, L!MarkRead(u, i) PROVE <1>2!:
    <3>1. /\ note' = [note EXCEPT ![i] = [note[i] EXCEPT !.read = TRUE]] /\ i \in 1..Len(note)
      BY <2>0, <2>2 DEF L!MarkRead
    <3>2. [note[i] EXCEPT !.read = TRUE] \in L!Note
      BY <2>00, <3>1 DEF L!Note
    <3>3. QED
      BY <2>0, <3>1, <3>2, ExceptSeq
  <2>3. ASSUME NEW u \in Readers, L!MarkAllRead(u) PROVE <1>2!:
    <3>1. note' = [i \in 1..Len(note) |-> IF note[i].user = u THEN [note[i] EXCEPT !.read = TRUE]
                                                            ELSE note[i]]
      BY <2>0, <2>3 DEF L!MarkAllRead
    <3>2. \A i \in 1..Len(note) : note'[i] \in L!Note
      BY <2>00, <3>1 DEF L!Note
    <3>3. Len(note) \in Nat /\ note' \in [1..Len(note) -> L!Note]
      BY <2>0, <3>1, <3>2
    <3>4. QED
      BY <2>0, <3>3
  <2>4. QED
    BY <2>1, <2>2, <2>3
<1>3. lost' \subseteq 1..MaxEmails
  BY <1>1 DEF MailSafe, L!TypeOK
<1>4. QED
  <2>1. CASE Senders = {}
    <3>1. L!TypeOK'
      BY <1>1, <1>2 DEF MailSafe, L!TypeOK
    <3>2. HandlersKnow' /\ OneHandler'
      BY <2>1 DEF HandlersKnow, OneHandler
    <3>3. OneJob' /\ JobsOpen' /\ WorkersKnow' /\ Unsent' /\ NoAddress' /\ L!StatusIsTrue'
      BY <1>1 DEF MailSafe, OneJob, JobsOpen, Taken, WorkersKnow, AnswerLost, Unsent, NoAddress, L!StatusIsTrue,
         MailJobs
    <3>4. QED
      BY <3>1, <3>2, <3>3 DEF MailSafe
  <2>2. ASSUME NEW c \in Senders PROVE MailSafe'
    BY <1>1, <1>2, <1>3, IdleMail, MailQuiet
  <2>3. QED
    BY <2>1, <2>2

LEMMA TellingSafe ==
    ASSUME L!MailAssumption, MailSafe, NEW c \in Senders,
           \/ \E people \in SUBSET Readers : L!Broadcast(c, people)
           \/ \E u \in Readers : L!FindPreference(c, u)
           \/ L!CreateNotification(c)
           \/ L!Crash(c)
    PROVE  MailSafe'
<1>0. /\ sending[c] \in L!CallState /\ sending \in [Senders -> L!CallState]
      /\ pref \in L!Preferences /\ note \in Seq(L!Note)
      /\ Len(note) <= MaxNotes /\ lost \subseteq 1..MaxEmails
      /\ sending[c].pc \in {"emit", "row"} => sending[c].queue = "notif"
      /\ sending[c].pc = "row" => sending[c].user \in Readers
      /\ bound.notes <= MaxNotes /\ bound.notes \in Nat
  BY DEF MailSafe, L!TypeOK, HandlersKnow, L!MailAssumption
<1>1. CASE \E people \in SUBSET Readers : L!Broadcast(c, people)
  <2>1. PICK people \in SUBSET Readers : L!Broadcast(c, people)
    BY <1>1
  <2> DEFINE l == [L!Idle EXCEPT !.pc = "emit", !.people = people]
  <2>2. l \in L!CallState /\ l.pc = "emit" /\ l.queue = "notif"
    BY IdleMail
  <2>3. /\ sending' = [sending EXCEPT ![c] = l]
        /\ UNCHANGED <<pref, note, email, post, worker, inbox, mailed, bound, lost, again, unheard>>
    BY <2>1 DEF L!Broadcast, L!Outside, L!Rest
  <2> HIDE DEF l
  <2>4. QED
    BY <1>0, <2>2, <2>3, MailQuiet
<1>2. CASE \E u \in Readers : L!FindPreference(c, u)
  <2>1. PICK u \in Readers : L!FindPreference(c, u)
    BY <1>2
  <2> DEFINE l == [sending[c] EXCEPT !.pc = "row", !.user = u, !.people = @ \ {u}, !.mail = pref[u]]
  <2>2. l \in L!CallState /\ l.pc = "row" /\ l.user = u /\ l.queue = sending[c].queue
    BY <1>0 DEF L!CallState, L!Preferences
  <2>3. sending' = [sending EXCEPT ![c] = l] /\ sending[c].pc = "emit"
    BY <2>1 DEF L!FindPreference, L!At
  <2>4. UNCHANGED <<pref, note, email, post, worker, inbox, mailed, bound, lost, again, unheard>>
    BY <2>1 DEF L!FindPreference, L!Outside, L!Rest
  <2> HIDE DEF l
  <2>5. QED
    BY <1>0, <2>2, <2>3, <2>4, MailQuiet
<1>3. CASE L!CreateNotification(c)
  <2> DEFINE row == [user |-> sending[c].user, read |-> FALSE]
  <2>1. /\ sending[c].pc = "row" /\ Len(note) < bound.notes /\ note' = Append(note, row)
        /\ UNCHANGED <<pref, email, post, worker, inbox, mailed, bound, lost, again, unheard>>
    BY <1>3 DEF L!CreateNotification, L!At, L!Outside, L!Rest
  <2>2. row \in L!Note
    BY <1>0, <2>1 DEF L!Note
  <2>3. note' \in Seq(L!Note) /\ Len(note') <= MaxNotes /\ Len(note) + 1 \in L!Id
    <3> HIDE DEF row
    <3>1. QED
      BY <1>0, <2>1, <2>2 DEF L!Id, L!MailAssumption
  <2>4. CASE sending[c].mail
    <3> DEFINE l == [sending[c] EXCEPT !.pc = "queue", !.id = Len(note) + 1]
    <3>1. l \in L!CallState /\ l.pc = "queue" /\ l.queue = "notif"
      BY <1>0, <2>1, <2>3 DEF L!CallState
    <3>2. sending' = [sending EXCEPT ![c] = l]
      BY <1>0, <1>3, <2>4 DEF L!CreateNotification
    <3> HIDE DEF l
    <3>3. QED
      BY <1>0, <2>1, <2>3, <3>1, <3>2, MailQuiet
  <2>5. CASE ~sending[c].mail
    <3>1. L!GoOn(c)
      BY <1>3, <2>5 DEF L!CreateNotification
    <3>2. PICK l \in L!CallState :
             sending' = [sending EXCEPT ![c] = l] /\ l.pc \in {"idle", "emit"} /\ l.queue = "notif"
      BY <3>1, GoingOn
    <3>3. QED
      BY <1>0, <2>1, <2>3, <3>2, MailQuiet
  <2>6. QED
    BY <2>4, <2>5
<1>4. CASE L!Crash(c)
  <2>1. /\ L!Return(c)
        /\ UNCHANGED <<pref, note, email, post, worker, inbox, mailed, bound, again, unheard>>
    BY <1>4 DEF L!Crash, L!Outside
  <2>2. /\ Len(email) \in Nat /\ Len(email) <= MaxEmails /\ MaxEmails \in Nat
        /\ Queuing(c) => sending[c].id \in 1..Len(email)
    BY LenProperties DEF MailSafe, L!TypeOK, L!Emails, HandlersKnow, L!MailAssumption
  <2>3. lost' \subseteq 1..MaxEmails
    <3>1. lost' = IF Queuing(c) THEN lost \cup {sending[c].id} ELSE lost
      BY <1>4 DEF L!Crash, Queuing
    <3>2. Queuing(c) => sending[c].id \in 1..MaxEmails
      BY <2>2
    <3>3. QED
      BY <1>0, <3>1, <3>2
  <2>4. PICK l \in L!CallState :
           sending' = [sending EXCEPT ![c] = l] /\ l.pc \in {"idle", "emit"} /\ l.queue = "notif"
    BY <2>1, GoingOn
  <2>5. QED
    BY <1>0, <2>1, <2>3, <2>4, MailQuiet
<1>5. QED
  BY <1>1, <1>2, <1>3, <1>4

-----------------------------------------------------------------------------
(* An e-mail on its way *)

LEMMA MailFacts ==
    ASSUME L!MailAssumption, MailSafe
    PROVE  /\ Len(email) \in Nat /\ Len(email) <= MaxEmails /\ MaxEmails \in Nat
           /\ DOMAIN email = 1..Len(email) /\ email \in Seq(L!EmailStatus)
           /\ \A j \in post : /\ j \in L!Job /\ j.id \in Nat /\ j.attempt \in 1..Attempts
           /\ Attempts \in Nat /\ None \notin BOOLEAN /\ None \notin L!AtWork
           /\ \A i \in 1..MaxEmails : inbox[i] \in Nat
<1>1. /\ email \in Seq(L!EmailStatus) /\ Len(email) <= MaxEmails /\ post \subseteq L!Job
      /\ inbox \in [1..MaxEmails -> 0..Attempts]
      /\ MaxEmails \in Nat /\ MaxNotes \in Nat /\ Attempts \in Nat
      /\ None \notin BOOLEAN /\ None \notin L!AtWork
  BY DEF MailSafe, L!TypeOK, L!Emails, L!MailAssumption
<1>2. Len(email) \in Nat /\ DOMAIN email = 1..Len(email)
  BY <1>1, LenProperties
<1>3. ASSUME NEW j \in post PROVE j \in L!Job /\ j.id \in Nat /\ j.attempt \in 1..Attempts
  BY <1>1 DEF L!Job, L!Id
<1>4. ASSUME NEW i \in 1..MaxEmails PROVE inbox[i] \in Nat
  BY <1>1
<1>5. QED
  BY <1>1, <1>2, <1>3, <1>4

LEMMA SendSafe ==
    ASSUME L!MailAssumption, MailSafe, NEW c \in Senders, L!Send(c)
    PROVE  MailSafe'
<1> DEFINE l == [L!Idle EXCEPT !.pc = "queue", !.queue = "email", !.id = Len(email) + 1]
<1>1. /\ email' = Append(email, "queued") /\ Len(email) < bound.emails /\ sending' = [sending EXCEPT ![c] = l]
      /\ UNCHANGED <<pref, note, post, worker, inbox, mailed, bound, lost, again, unheard>>
      /\ sending[c].pc = "idle"
  BY DEF L!Send, L!Outside, L!Rest, L!At
<1>2. /\ bound.emails \in Nat /\ bound.emails <= MaxEmails
      /\ Len(email) \in Nat /\ MaxEmails \in Nat /\ DOMAIN email = 1..Len(email)
      /\ email \in Seq(L!EmailStatus) /\ "queued" \in L!EmailStatus
  BY MailFacts DEF MailSafe, L!TypeOK, L!MailAssumption, L!EmailStatus
<1>3. /\ email' \in Seq(L!EmailStatus) /\ Len(email') = Len(email) + 1
      /\ DOMAIN email' = 1..(Len(email) + 1)
      /\ email'[Len(email) + 1] = "queued" /\ \A i \in 1..Len(email) : email'[i] = email[i]
  BY <1>1, <1>2
<1>4. l \in L!CallState /\ l.pc = "queue" /\ l.queue = "email" /\ l.id = Len(email) + 1
  <2>1. Len(email) + 1 \in L!Id
    BY <1>1, <1>2 DEF L!Id, L!MailAssumption
  <2>2. QED
    BY <2>1, IdleMail DEF L!CallState, L!Queue, L!Idle
<1> HIDE DEF l
<1>5. sending'[c] = l /\ \A x \in Senders : x # c => sending'[x] = sending[x]
  BY <1>1 DEF MailSafe, L!TypeOK
<1>6. L!TypeOK'
  BY <1>1, <1>2, <1>3, <1>4 DEF MailSafe, L!TypeOK, L!Emails
<1>7. inbox[Len(email) + 1] = 0 /\ Len(email) + 1 \in 1..MaxEmails
  BY <1>1, <1>2 DEF MailSafe, Unsent
<1>8. MailJobs' = MailJobs /\ \A j \in MailJobs : j.id \in 1..Len(email)
  BY <1>1 DEF MailJobs, MailSafe, JobsOpen
<1>9. ASSUME NEW x \in Senders, x # c
      PROVE  /\ Queuing(x)' => Queuing(x) /\ sending'[x] = sending[x]
             /\ sending'[x].pc \in {"emit", "row"} => sending'[x].queue = "notif"
             /\ sending'[x].pc = "row" => sending'[x].user \in Readers
  BY <1>5, <1>9 DEF MailSafe, HandlersKnow, Queuing, L!At
<1>10. HandlersKnow'
  <2>1. ASSUME NEW x \in Senders, x # c, Queuing(x)'
        PROVE  /\ sending'[x].id \in 1..Len(email') /\ Unmade(sending[x].id)'
               /\ \A j \in MailJobs' : j.id # sending'[x].id
    BY <1>1, <1>2, <1>3, <1>8, <1>9, <2>1 DEF MailSafe, HandlersKnow, Unmade
  <2>2. /\ sending'[c].id \in 1..Len(email') /\ email'[sending'[c].id] = "queued" /\ inbox'[sending'[c].id] = 0
        /\ \A j \in MailJobs' : j.id # sending'[c].id
    BY <1>1, <1>2, <1>3, <1>4, <1>5, <1>7, <1>8
  <2>3. QED
    BY <1>4, <1>5, <1>9, <2>1, <2>2 DEF HandlersKnow, Unmade
<1>11. OneHandler'
  <2>1. \A x \in Senders : Queuing(x)' /\ x # c => sending'[x].id \in 1..Len(email)
    BY <1>9 DEF MailSafe, HandlersKnow
  <2>2. QED
    BY <1>2, <1>4, <1>5, <1>9, <2>1 DEF MailSafe, OneHandler
<1>12. OneJob' /\ JobsOpen' /\ WorkersKnow' /\ NoAddress'
  BY <1>1, <1>2, <1>3, <1>8 DEF MailSafe, OneJob, JobsOpen, Taken, WorkersKnow, AnswerLost, NoAddress
<1>13. Unsent' /\ L!StatusIsTrue'
  BY <1>1, <1>2, <1>3, <1>7 DEF MailSafe, Unsent, L!StatusIsTrue
<1>14. QED
  BY <1>6, <1>10, <1>11, <1>12, <1>13 DEF MailSafe

LEMMA EnqueueSafe ==
    ASSUME L!MailAssumption, MailSafe, NEW c \in Senders, L!Enqueue(c)
    PROVE  MailSafe'
<1> DEFINE n == L!NewJob(c)
<1>1. /\ sending[c].pc = "queue" /\ post' = post \cup {n}
      /\ UNCHANGED <<pref, note, email, worker, inbox, mailed, bound, lost, again, unheard>>
  BY DEF L!Enqueue, L!Outside, L!Rest, L!At
<1>2. PICK l \in L!CallState :
         sending' = [sending EXCEPT ![c] = l] /\ l.pc \in {"idle", "emit"} /\ l.queue = "notif"
  BY GoingOn DEF L!Enqueue
<1>3. sending'[c] = l /\ \A x \in Senders : x # c => sending'[x] = sending[x]
  BY <1>2 DEF MailSafe, L!TypeOK
<1>4. /\ n \in L!Job /\ n.queue = sending[c].queue /\ n.id = sending[c].id /\ n.attempt = 1 /\ n.to = None
  BY MailFacts DEF L!NewJob, L!Job, MailSafe, L!TypeOK, L!CallState, L!MailAssumption
<1> HIDE DEF n
<1>5. L!TypeOK'
  BY <1>1, <1>2, <1>4 DEF MailSafe, L!TypeOK
<1>6. /\ MailJobs \subseteq MailJobs'
      /\ \A j \in MailJobs' : j \in MailJobs \/ (j = n /\ Queuing(c))
  <2>1. ASSUME NEW j \in MailJobs PROVE j \in MailJobs'
    BY <1>1 DEF MailJobs
  <2>2. ASSUME NEW j \in MailJobs', j \notin MailJobs PROVE j = n /\ Queuing(c)
    <3>1. j \in post \cup {n} /\ j.queue = "email" /\ j \notin post
      BY <1>1, <2>2 DEF MailJobs
    <3>2. QED
      BY <1>1, <1>4, <3>1 DEF Queuing, L!At
  <2>3. QED
    BY <2>1, <2>2
<1>7. Queuing(c) => /\ n.id \in 1..Len(email) /\ email[n.id] = "queued" /\ inbox[n.id] = 0
                    /\ \A j \in MailJobs : j.id # n.id
                    /\ \A x \in Senders : x # c /\ Queuing(x) => sending[x].id # n.id
  BY <1>4 DEF MailSafe, HandlersKnow, OneHandler, Unmade
<1>8. ASSUME NEW x \in Senders
      PROVE  /\ Queuing(x)' => x # c /\ Queuing(x) /\ sending'[x] = sending[x]
             /\ sending'[x].pc \in {"emit", "row"} => sending'[x].queue = "notif"
             /\ sending'[x].pc = "row" => sending'[x].user \in Readers
  BY <1>2, <1>3 DEF MailSafe, HandlersKnow, Queuing, L!At
<1>9. HandlersKnow' /\ OneHandler'
  BY <1>1, <1>6, <1>7, <1>8 DEF MailSafe, HandlersKnow, OneHandler, Unmade
<1>10. OneJob'
  BY <1>6, <1>7 DEF MailSafe, OneJob
<1>11. JobsOpen'
  BY <1>1, <1>4, <1>6, <1>7 DEF MailSafe, JobsOpen, Taken
<1>12. WorkersKnow' /\ Unsent' /\ L!StatusIsTrue' /\ NoAddress'
  BY <1>1, <1>4 DEF MailSafe, WorkersKnow, AnswerLost, Unsent, L!StatusIsTrue, NoAddress
<1>13. QED
  BY <1>5, <1>9, <1>10, <1>11, <1>12 DEF MailSafe

LEMMA TakeSafe ==
    ASSUME L!MailAssumption, MailSafe, NEW q \in L!Queue, NEW j \in post, L!Take(q, j)
    PROVE  MailSafe'
<1> DEFINE w == [job |-> j, ok |-> None]
<1>1. /\ worker[q] = None /\ j.queue = q /\ worker' = [worker EXCEPT ![q] = w]
      /\ again' = IF j.queue = "email" /\ j.attempt > 1 THEN again \cup {j.id} ELSE again
      /\ UNCHANGED <<pref, note, email, post, inbox, mailed, sending, bound, lost, unheard>>
  BY DEF L!Take, L!Outside
<1>2. w \in L!AtWork /\ w # None /\ w.job = j /\ w.ok = None /\ j \in L!Job
  BY MailFacts DEF L!AtWork
<1> HIDE DEF w
<1>3. worker'[q] = w /\ \A p \in L!Queue : p # q => worker'[p] = worker[p]
  BY <1>1 DEF MailSafe, L!TypeOK
<1>4. j.queue = "email" => j.id \in 1..Len(email) /\ j.id \in 1..MaxEmails
  BY MailFacts DEF MailSafe, JobsOpen, MailJobs
<1>5. again \subseteq again' /\ again' \subseteq 1..MaxEmails
  BY <1>1, <1>4 DEF MailSafe, L!TypeOK
<1>6. L!TypeOK'
  BY <1>1, <1>2, <1>5 DEF MailSafe, L!TypeOK
<1>7. ASSUME NEW k \in MailJobs, Taken(k) PROVE Taken(k)'
  BY <1>1, <1>3, <1>7 DEF Taken, L!Queue
<1>8. HandlersKnow' /\ OneHandler' /\ OneJob' /\ Unsent' /\ NoAddress'
  BY <1>1 DEF MailSafe, HandlersKnow, OneHandler, OneJob, Unsent, NoAddress, Unmade, MailJobs,
              Queuing, L!At
<1>9. JobsOpen'
  BY <1>1, <1>7 DEF MailSafe, JobsOpen, MailJobs
<1>10. WorkersKnow'
  <2>1. ASSUME NEW p \in L!Queue, worker'[p] # None
        PROVE  worker'[p].job \in post' /\ worker'[p].job.queue = p
    BY <1>1, <1>2, <1>3, <2>1 DEF MailSafe, WorkersKnow
  <2>2. CASE q = "email"
    <3>1. worker'["email"].job = j /\ worker'["email"].ok \notin BOOLEAN
      BY <1>2, <1>3, <2>2, MailFacts
    <3>2. j.attempt > 1 => j.id \in again'
      BY <1>1, <2>2
    <3>3. QED
      BY <2>1, <3>1, <3>2 DEF WorkersKnow
  <2>3. CASE q # "email"
    BY <1>1, <1>3, <1>5, <2>1, <2>3 DEF MailSafe, WorkersKnow, AnswerLost, L!Queue
  <2>4. QED
    BY <2>2, <2>3
<1>11. L!StatusIsTrue'
  BY <1>1, <1>5 DEF MailSafe, L!StatusIsTrue
<1>12. QED
  BY <1>6, <1>8, <1>9, <1>10, <1>11 DEF MailSafe

LEMMA NotifyByMailSafe ==
    ASSUME L!MailAssumption, MailSafe, L!NotifyByMail
    PROVE  MailSafe'
<1> DEFINE j == worker["notif"].job
<1>1. /\ worker["notif"] # None /\ post' = post \ {j} /\ worker' = [worker EXCEPT !["notif"] = None]
      /\ mailed' = IF j.to # None THEN mailed \cup {j.id} ELSE mailed
      /\ UNCHANGED <<pref, note, email, inbox, sending, bound, lost, again, unheard>>
  BY DEF L!NotifyByMail, L!Working, L!Finish, L!Rest
<1>2. j \in post /\ j.queue = "notif" /\ j.to = None
  BY <1>1 DEF MailSafe, WorkersKnow, NoAddress, L!Queue
<1> HIDE DEF j
<1>3. mailed' = mailed /\ MailJobs' = MailJobs
  BY <1>1, <1>2 DEF MailJobs
<1>4. worker'["email"] = worker["email"] /\ worker'["notif"] = None
  BY <1>1 DEF MailSafe, L!TypeOK, L!Queue
<1>5. L!TypeOK'
  BY <1>1, <1>3 DEF MailSafe, L!TypeOK
<1>6. HandlersKnow' /\ OneHandler' /\ OneJob' /\ Unsent' /\ NoAddress' /\ L!StatusIsTrue'
  BY <1>1, <1>3 DEF MailSafe, HandlersKnow, OneHandler, OneJob, Unsent, NoAddress, Unmade,
                    Queuing, L!At, L!StatusIsTrue
<1>7. JobsOpen'
  BY <1>1, <1>3, <1>4 DEF MailSafe, JobsOpen, Taken
<1>8. WorkersKnow'
  BY <1>1, <1>2, <1>4 DEF MailSafe, WorkersKnow, AnswerLost, L!Queue
<1>9. QED
  BY <1>5, <1>6, <1>7, <1>8 DEF MailSafe

\* A job that is tried again was handed over at most as often as it was tried.
LEMMA FailSafe ==
    ASSUME L!MailAssumption, MailSafe, NEW q \in L!Queue, L!Fail(q)
    PROVE  MailSafe'
<1> DEFINE j == worker[q].job
           n == [j EXCEPT !.attempt = @ + 1]
<1>1. /\ worker[q] # None /\ worker' = [worker EXCEPT ![q] = None]
      /\ post' = (post \ {j}) \cup (IF j.attempt < Attempts THEN {n} ELSE {})
      /\ lost' = IF q = "email" /\ j.attempt = Attempts THEN lost \cup {j.id} ELSE lost
      /\ UNCHANGED <<pref, note, email, inbox, mailed, sending, bound, again, unheard>>
  BY DEF L!Fail, L!Outside
<1>2. j \in post /\ j.queue = q /\ j \in L!Job /\ j.to = None /\ j.attempt \in 1..Attempts
  BY <1>1, MailFacts DEF MailSafe, WorkersKnow, NoAddress
<1>3. /\ n.id = j.id /\ n.queue = q /\ n.to = None /\ n.attempt = j.attempt + 1
      /\ j.attempt < Attempts => n \in L!Job
  BY <1>2, MailFacts DEF L!Job
<1> HIDE DEF j, n
<1>4. worker'[q] = None /\ \A p \in L!Queue : p # q => worker'[p] = worker[p]
  BY <1>1 DEF MailSafe, L!TypeOK
<1>5. q = "email" => j \in MailJobs /\ j.id \in 1..Len(email) /\ j.id \in 1..MaxEmails
  BY <1>2, MailFacts DEF MailSafe, JobsOpen, MailJobs
<1>6. L!TypeOK'
  BY <1>1, <1>3, <1>5 DEF MailSafe, L!TypeOK
<1>7. ASSUME NEW k \in MailJobs', k \notin MailJobs PROVE k = n /\ q = "email" /\ j.attempt < Attempts
  <2>1. k \in post' /\ k.queue = "email" /\ k \notin post
    BY <1>7 DEF MailJobs
  <2>2. QED
    BY <1>1, <1>3, <2>1
<1>8. q = "email" => j \notin MailJobs' \/ j = n
  BY <1>1 DEF MailJobs
<1>9. OneJob'
  BY <1>2, <1>3, <1>5, <1>7, <1>8 DEF MailSafe, OneJob
<1>10. HandlersKnow' /\ OneHandler'
  BY <1>1, <1>3, <1>5, <1>7 DEF MailSafe, HandlersKnow, OneHandler, Unmade, Queuing, L!At
<1>11. Unsent' /\ L!StatusIsTrue'
  BY <1>1 DEF MailSafe, Unsent, L!StatusIsTrue
<1>12. NoAddress'
  BY <1>1, <1>3 DEF MailSafe, NoAddress
<1>13. JobsOpen'
  <2> SUFFICES ASSUME NEW k \in MailJobs'
      PROVE /\ k.id \in 1..Len(email) /\ email[k.id] = "queued"
            /\ inbox[k.id] <= k.attempt
            /\ inbox[k.id] < k.attempt \/ Taken(k)'
    BY <1>1 DEF JobsOpen
  <2>1. CASE k = n /\ q = "email"
    <3>1. /\ inbox[j.id] <= j.attempt /\ inbox[j.id] \in Nat /\ j.attempt \in Nat
          /\ j.id \in 1..Len(email) /\ email[j.id] = "queued"
      BY <1>2, <1>5, <2>1, MailFacts DEF MailSafe, JobsOpen
    <3>2. k.id = j.id /\ k.attempt = j.attempt + 1
      BY <1>3, <2>1
    <3>3. QED
      BY <3>1, <3>2
  <2>2. CASE ~(k = n /\ q = "email")
    <3>1. k \in MailJobs
      BY <1>7, <2>2
    <3>2. Taken(k) => Taken(k)'
      <4>1. CASE q = "email"
        <5>1. ~Taken(k)
          BY <1>1, <1>8, <2>2, <4>1 DEF Taken, j
        <5>2. QED
          BY <5>1
      <4>2. CASE q # "email"
        BY <1>4, <4>2 DEF Taken, L!Queue
      <4>3. QED
        BY <4>1, <4>2
    <3>3. QED
      BY <3>1, <3>2 DEF MailSafe, JobsOpen
  <2>3. QED
    BY <2>1, <2>2
<1>14. WorkersKnow'
  <2>1. ASSUME NEW p \in L!Queue, worker'[p] # None
        PROVE  worker'[p].job \in post' /\ worker'[p].job.queue = p
    <3>1. p # q /\ worker'[p] = worker[p]
      BY <1>4, <2>1
    <3>2. worker[p].job \in post /\ worker[p].job.queue = p
      BY <2>1, <3>1 DEF MailSafe, WorkersKnow
    <3>3. QED
      BY <1>1, <1>2, <3>1, <3>2
  <2>2. worker'["email"] # None => worker'["email"] = worker["email"]
    BY <1>4 DEF L!Queue
  <2>3. QED
    BY <1>1, <2>1, <2>2 DEF MailSafe, WorkersKnow, AnswerLost
<1>15. QED
  BY <1>6, <1>9, <1>10, <1>11, <1>12, <1>13, <1>14 DEF MailSafe

\* What the provider takes is in its first attempt, or in a later one that is known as such.
LEMMA DeliverSafe ==
    ASSUME L!MailAssumption, MailSafe, NEW ok \in BOOLEAN, NEW taken \in BOOLEAN, L!Deliver(ok, taken)
    PROVE  MailSafe'
<1> DEFINE j == worker["email"].job
           i == j.id
           w == [worker["email"] EXCEPT !.ok = ok]
<1>1. /\ worker["email"] # None /\ worker["email"].ok = None
      /\ ok => taken
      /\ inbox' = IF taken THEN [inbox EXCEPT ![i] = inbox[i] + 1] ELSE inbox
      /\ unheard' = IF taken /\ ~ok THEN unheard \cup {i} ELSE unheard
      /\ worker' = [worker EXCEPT !["email"] = w]
      /\ UNCHANGED <<pref, note, email, post, mailed, sending, bound, lost, again>>
  BY DEF L!Deliver, L!Working
<1>2. worker["email"] \in L!AtWork
  BY <1>1 DEF MailSafe, L!TypeOK, L!Queue
<1>3. w \in L!AtWork /\ w # None /\ w.job = j /\ w.ok = ok
  BY <1>2, MailFacts DEF L!AtWork
<1>4. /\ j \in post /\ j \in MailJobs /\ j.attempt \in 1..Attempts /\ i \in 1..Len(email)
      /\ i \in 1..MaxEmails
      /\ j.attempt > 1 => i \in again
  <2>1. j \in post /\ j.queue = "email" /\ (j.attempt > 1 => i \in again)
    BY <1>1 DEF MailSafe, WorkersKnow, L!Queue
  <2>2. QED
    BY <2>1, MailFacts DEF MailSafe, JobsOpen, MailJobs
<1>5. ~Taken(j) /\ inbox[i] < j.attempt /\ inbox[i] \in Nat /\ email[i] = "queued"
  BY <1>1, <1>4, MailFacts DEF MailSafe, JobsOpen, Taken
<1> HIDE DEF w
<1>6. worker'["email"] = w /\ \A p \in L!Queue : p # "email" => worker'[p] = worker[p]
  BY <1>1 DEF MailSafe, L!TypeOK, L!Queue
<1> HIDE DEF i, j
<1>7. inbox[i] + 1 \in 0..Attempts /\ inbox[i] + 1 <= j.attempt
  BY <1>4, <1>5, MailFacts
<1>8. /\ inbox'[i] = IF taken THEN inbox[i] + 1 ELSE inbox[i]
      /\ \A k \in 1..MaxEmails : k # i => inbox'[k] = inbox[k]
      /\ unheard \subseteq unheard' /\ unheard' \subseteq 1..MaxEmails
  BY <1>1, <1>4 DEF MailSafe, L!TypeOK
<1>9. L!TypeOK'
  BY <1>1, <1>3, <1>7, <1>8 DEF MailSafe, L!TypeOK
<1>10. MailJobs' = MailJobs /\ \A k \in MailJobs : k.id = i => k = j
  BY <1>1, <1>4 DEF MailJobs, MailSafe, OneJob, i
<1>11. HandlersKnow' /\ OneHandler'
  <2>1. \A c \in Senders : Queuing(c) => sending[c].id # i /\ sending[c].id \in 1..MaxEmails
    BY <1>4, MailFacts DEF MailSafe, HandlersKnow, i
  <2>2. QED
    BY <1>1, <1>8, <1>10, <2>1 DEF MailSafe, HandlersKnow, OneHandler, Unmade, Queuing, L!At
<1>12. OneJob' /\ NoAddress'
  BY <1>1, <1>10 DEF MailSafe, OneJob, NoAddress
<1>13. JobsOpen'
  <2> SUFFICES ASSUME NEW k \in MailJobs
      PROVE /\ k.id \in 1..Len(email) /\ email[k.id] = "queued"
            /\ inbox'[k.id] <= k.attempt
            /\ inbox'[k.id] < k.attempt \/ Taken(k)'
    BY <1>1, <1>10 DEF JobsOpen
  <2>1. k.id \in 1..Len(email) /\ email[k.id] = "queued" /\ k.id \in 1..MaxEmails
    BY MailFacts DEF MailSafe, JobsOpen
  <2>2. CASE k = j
    <3>1. Taken(k)'
      BY <1>1, <1>3, <1>6, <2>2, MailFacts DEF Taken
    <3>2. QED
      BY <1>4, <1>5, <1>7, <1>8, <2>1, <2>2, <3>1 DEF i
  <2>3. CASE k # j
    <3>1. k.id # i /\ ~Taken(k)
      BY <1>10, <2>3 DEF Taken, j
    <3>2. QED
      BY <1>8, <2>1, <3>1 DEF MailSafe, JobsOpen
  <2>4. QED
    BY <2>2, <2>3
<1>14. WorkersKnow'
  <2>1. ASSUME NEW p \in L!Queue, worker'[p] # None
        PROVE  worker'[p].job \in post' /\ worker'[p].job.queue = p
    <3>1. worker[p] # None /\ worker'[p].job = worker[p].job
      BY <1>1, <1>3, <1>6, <2>1 DEF j
    <3>2. QED
      BY <1>1, <2>1, <3>1 DEF MailSafe, WorkersKnow
  <2>2. /\ worker'["email"].job.attempt > 1 => worker'["email"].job.id \in again'
        /\ worker'["email"].ok = TRUE => inbox'[worker'["email"].job.id] > 0
    BY <1>1, <1>3, <1>4, <1>5, <1>6, <1>8 DEF i
  <2>4. worker'["email"].ok = FALSE =>
           \/ inbox'[worker'["email"].job.id] = 0
           \/ worker'["email"].job.id \in again' \/ worker'["email"].job.id \in unheard'
    <3>1. worker'["email"].job.id = i /\ worker'["email"].ok = ok
      BY <1>3, <1>6 DEF i
    <3>2. ASSUME ok = FALSE PROVE inbox'[i] = 0 \/ i \in again \/ i \in unheard'
      <4>1. CASE taken
        BY <1>1, <3>2, <4>1
      <4>2. CASE ~taken
        <5>1. inbox'[i] = inbox[i]
          BY <1>8, <4>2
        <5>2. j.attempt > 1 \/ inbox[i] = 0
          BY <1>4, <1>5, MailFacts
        <5>3. QED
          BY <1>4, <5>1, <5>2
      <4>3. QED
        BY <4>1, <4>2
    <3>3. QED
      BY <1>1, <3>1, <3>2
  <2>3. QED
    BY <2>1, <2>2, <2>4 DEF WorkersKnow, AnswerLost
<1>15. Unsent'
  BY <1>1, <1>4, <1>8, MailFacts DEF MailSafe, Unsent
<1>16. L!StatusIsTrue'
  <2> SUFFICES ASSUME NEW k \in 1..Len(email)
      PROVE  /\ email[k] = "sent" => inbox'[k] > 0
             /\ k \notin again =>
                   inbox'[k] <= 1 /\ (email[k] = "failed" /\ inbox'[k] > 0 => k \in unheard')
    BY <1>1, MailFacts DEF L!StatusIsTrue
  <2>1. CASE k = i
    BY <1>4, <1>5, <1>7, <1>8, <2>1
  <2>2. CASE k # i
    BY <1>8, <2>2, MailFacts DEF MailSafe, L!StatusIsTrue
  <2>3. QED
    BY <2>1, <2>2
<1>17. QED
  BY <1>9, <1>11, <1>12, <1>13, <1>14, <1>15, <1>16 DEF MailSafe

\* What is written down of the last attempt says what became of it.
LEMMA RecordSafe ==
    ASSUME L!MailAssumption, MailSafe, L!Record
    PROVE  MailSafe'
<1> DEFINE j == worker["email"].job
           i == j.id
           ok == worker["email"].ok
           v == L!StatusOf(ok)
<1>1. /\ worker["email"] # None /\ ok # None
      /\ email' = [email EXCEPT ![i] = v]
      /\ post' = post \ {j} /\ worker' = [worker EXCEPT !["email"] = None]
      /\ UNCHANGED <<pref, note, inbox, mailed, sending, bound, lost, again, unheard>>
  BY DEF L!Record, L!Finish, L!Outside, L!Rest
<1>2. worker["email"] \in L!AtWork
  BY <1>1 DEF MailSafe, L!TypeOK, L!Queue
<1>3. ok \in BOOLEAN
  BY <1>1, <1>2 DEF L!AtWork
<1>4. /\ j \in post /\ j \in MailJobs /\ j.attempt \in 1..Attempts /\ i \in 1..Len(email)
      /\ i \in 1..MaxEmails
      /\ j.attempt > 1 => i \in again
      /\ ok = TRUE => inbox[i] > 0
  <2>1. /\ j \in post /\ j.queue = "email"
        /\ j.attempt > 1 => i \in again
        /\ ok = TRUE => inbox[i] > 0
    BY <1>1 DEF MailSafe, WorkersKnow, L!Queue
  <2>2. QED
    BY <2>1, MailFacts DEF MailSafe, JobsOpen, MailJobs
<1>5. /\ inbox[i] <= j.attempt /\ inbox[i] \in Nat
      /\ ok = FALSE => inbox[i] = 0 \/ i \in again \/ i \in unheard
  BY <1>1, <1>4, MailFacts DEF MailSafe, JobsOpen, WorkersKnow, AnswerLost
<1>6. /\ v \in L!EmailStatus /\ (v = "sent" => ok = TRUE) /\ (v = "failed" => ok = FALSE)
  BY <1>3 DEF L!StatusOf, L!EmailStatus
<1>7. /\ worker'["email"] = None
      /\ \A p \in L!Queue : p # "email" => worker'[p] = worker[p]
  BY <1>1 DEF MailSafe, L!TypeOK, L!Queue
<1>8. \A k \in MailJobs : k.id = i => k = j
  BY <1>4 DEF MailSafe, OneJob
<1>9. \A c \in Senders : Queuing(c) => sending[c].id # i
  BY <1>4 DEF MailSafe, HandlersKnow
<1>10. \A p \in L!Queue : p # "email" /\ worker[p] # None => worker[p].job # j
  BY <1>4 DEF MailSafe, WorkersKnow, MailJobs
<1>11. MailJobs' = MailJobs \ {j}
  BY <1>1 DEF MailJobs
<1> HIDE DEF v, ok, i, j
<1>12. /\ email' \in Seq(L!EmailStatus) /\ Len(email') = Len(email) /\ email'[i] = v
       /\ \A k \in 1..Len(email) : k # i => email'[k] = email[k]
  BY <1>1, <1>4, <1>6, MailFacts, ExceptSeq
<1>13. L!TypeOK'
  BY <1>1, <1>12 DEF MailSafe, L!TypeOK, L!Emails
<1>14. HandlersKnow' /\ OneHandler'
  BY <1>1, <1>9, <1>11, <1>12 DEF MailSafe, HandlersKnow, OneHandler, Unmade, Queuing, L!At
<1>15. OneJob' /\ NoAddress'
  BY <1>1, <1>11 DEF MailSafe, OneJob, NoAddress
<1>16. JobsOpen'
  <2> SUFFICES ASSUME NEW k \in MailJobs, k # j
      PROVE /\ k.id \in 1..Len(email') /\ email'[k.id] = "queued"
            /\ inbox[k.id] < k.attempt
    BY <1>1, <1>11, <1>12, MailFacts DEF JobsOpen, MailJobs, MailSafe
  <2>1. k.id # i /\ ~Taken(k)
    BY <1>8 DEF Taken, j
  <2>2. QED
    BY <1>12, <2>1 DEF MailSafe, JobsOpen
<1>17. WorkersKnow'
  BY <1>1, <1>7, <1>10 DEF MailSafe, WorkersKnow
<1>18. Unsent'
  BY <1>1, <1>12 DEF MailSafe, Unsent
<1>19. L!StatusIsTrue'
  <2> SUFFICES ASSUME NEW k \in 1..Len(email)
      PROVE  /\ email'[k] = "sent" => inbox[k] > 0
             /\ k \notin again =>
                   inbox[k] <= 1 /\ (email'[k] = "failed" /\ inbox[k] > 0 => k \in unheard)
    <3>1. DOMAIN email' = 1..Len(email)
      BY <1>12, LenProperties
    <3>2. QED
      BY <1>1, <3>1 DEF L!StatusIsTrue
  <2>1. CASE k = i
    BY <1>4, <1>5, <1>6, <1>12, <2>1
  <2>2. CASE k # i
    BY <1>12, <2>2, MailFacts DEF MailSafe, L!StatusIsTrue
  <2>3. QED
    BY <2>1, <2>2
<1>20. QED
  BY <1>13, <1>14, <1>15, <1>16, <1>17, <1>18, <1>19 DEF MailSafe

LEMMA MailStep ==
    ASSUME L!MailAssumption, MailSafe, [L!Next]_(L!vars)
    PROVE  MailSafe'
<1>1. CASE UNCHANGED L!vars
  BY <1>1 DEF L!vars, MailSafe, L!TypeOK, HandlersKnow, OneHandler, OneJob, JobsOpen, Taken,
              WorkersKnow, AnswerLost, Unsent, NoAddress, L!StatusIsTrue, MailJobs, Queuing, Unmade, L!At
<1>2. CASE \E u \in Readers : \/ L!UpdatePreference(u) \/ L!MarkAllRead(u)
                            \/ \E i \in DOMAIN note : L!MarkRead(u, i)
  BY <1>2, NotesSafe
<1>3. ASSUME NEW c \in Senders,
             \/ \E people \in SUBSET Readers : L!Broadcast(c, people)
             \/ \E u \in Readers : L!FindPreference(c, u)
             \/ L!CreateNotification(c)
             \/ L!Crash(c)
      PROVE  MailSafe'
  BY <1>3, TellingSafe
<1>4. ASSUME NEW c \in Senders, L!Send(c) \/ L!Enqueue(c) PROVE MailSafe'
  BY <1>4, SendSafe, EnqueueSafe
<1>5. ASSUME NEW q \in L!Queue, L!Fail(q) \/ \E j \in post : L!Take(q, j) PROVE MailSafe'
  BY <1>5, TakeSafe, FailSafe
<1>6. CASE L!NotifyByMail \/ L!Record \/ \E ok, taken \in BOOLEAN : L!Deliver(ok, taken)
  BY <1>6, NotifyByMailSafe, DeliverSafe, RecordSafe
<1>7. QED
  BY <1>1, <1>2, <1>3, <1>4, <1>5, <1>6 DEF L!Next

-----------------------------------------------------------------------------
(* Records: one contract, and bank accounts *)

\* Who has read the contract knows that it is there, and who is about to delete it that
\* it is cancelled; alone, what was read is so until it is written.
ReadersKnow ==
    \A c \in Calls :
        /\ call[c].pc \in {"extend", "cancel", "delete"} => contract \in R!Contract
        /\ call[c].pc = "extend" => call[c].end \in Ends
        /\ call[c].pc = "delete" => contract.status = "cancelled"
        /\ ~overlap /\ call[c].pc \in {"extend", "cancel"} => contract.status = "active"
        /\ call[c].pc = "primary" => call[c].account \in Accounts

\* Each primary account is the work of a call of its own: what a call made primary
\* before, it sees when it begins, and demotes.
MadeBy(who) ==
    /\ \A a, b \in R!Primaries : who[a] = who[b] => a = b
    /\ \A c \in Calls, a \in R!Primaries : call[c].pc = "primary" /\ who[a] = c => a \in call[c].seen
EachMadeOne == \E who \in [R!Primaries -> Calls] : MadeBy(who)

\* Alone, a call demotes whatever is primary.
LonePrimary ==
    ~overlap =>
        /\ \A a, b \in R!Primaries : a = b
        /\ \A c \in Calls : call[c].pc = "primary" => R!Primaries \subseteq call[c].seen

RecordsSafe ==
    /\ R!TypeOK /\ ReadersKnow /\ InTurn /\ EachMadeOne /\ LonePrimary
    /\ R!DeletedWasCancelled

LEMMA RecordsInit == ASSUME R!RecordsAssumption PROVE R!Init => RecordsSafe
<1> SUFFICES ASSUME R!Init PROVE RecordsSafe
  OBVIOUS
<1>1. R!TypeOK
  BY DEF R!Init, R!TypeOK, R!CallState, R!Idle, R!AccountRow
<1>2. ReadersKnow /\ InTurn /\ R!DeletedWasCancelled
  BY DEF R!Init, R!Idle, ReadersKnow, InTurn, Busy, R!DeletedWasCancelled
<1>3. R!Primaries = {}
  BY DEF R!Init, R!Primaries, R!RecordsAssumption
<1>4. [a \in {} |-> a] \in [R!Primaries -> Calls] /\ MadeBy([a \in {} |-> a])
  BY <1>3 DEF MadeBy
<1>5. EachMadeOne
  BY <1>4 DEF EachMadeOne
<1>6. LonePrimary
  BY <1>3 DEF R!Init, R!Idle, LonePrimary
<1>7. QED
  BY <1>1, <1>2, <1>5, <1>6 DEF RecordsSafe

\* Steps that write no account, and of calls only what concerns no account.
LEMMA ContractSafe ==
    ASSUME R!RecordsAssumption, RecordsSafe, NEW c \in Calls, NEW l \in R!CallState,
           l.pc # "primary", UNCHANGED <<account, overlap>>,
           call' = [call EXCEPT ![c] = l],
           ~overlap /\ l.pc # "idle" => \A d \in Calls \ {c} : call[d].pc = "idle",
           contract \in R!Contract,
           contract' \in R!Contract,
           contract.status = "cancelled" => contract'.status = "cancelled",
           contract'.deleted => contract'.status = "cancelled",
           l.pc = "extend" => l.end \in Ends,
           l.pc = "delete" => contract'.status = "cancelled",
           ~overlap => \/ contract' = contract
                       \/ l.pc = "idle" /\ Busy(c),
           ~overlap /\ l.pc \in {"extend", "cancel"} => contract'.status = "active"
    PROVE  RecordsSafe'
<1>1. R!TypeOK'
  BY DEF RecordsSafe, R!TypeOK
<1>2. ASSUME NEW d \in Calls PROVE call'[d] = IF d = c THEN l ELSE call[d]
  BY DEF RecordsSafe, R!TypeOK
<1>3. InTurn'
  BY <1>2 DEF RecordsSafe, InTurn, Busy
<1>4. ReadersKnow'
  <2> SUFFICES ASSUME NEW d \in Calls
               PROVE  /\ call'[d].pc \in {"extend", "cancel", "delete"} => contract' \in R!Contract
                      /\ call'[d].pc = "extend" => call'[d].end \in Ends
                      /\ call'[d].pc = "delete" => contract'.status = "cancelled"
                      /\ ~overlap' /\ call'[d].pc \in {"extend", "cancel"} => contract'.status = "active"
                      /\ call'[d].pc = "primary" => call'[d].account \in Accounts
    BY DEF ReadersKnow
  <2>1. CASE d = c
    BY <1>2, <2>1
  <2>2. CASE d # c
    BY <1>2, <2>2 DEF RecordsSafe, ReadersKnow, InTurn, Busy
  <2>3. QED
    BY <2>1, <2>2
<1>5. R!Primaries' = R!Primaries
  BY DEF R!Primaries
<1>6. EachMadeOne'
  BY <1>2, <1>5 DEF RecordsSafe, EachMadeOne, MadeBy
<1>7. LonePrimary'
  BY <1>2, <1>5 DEF RecordsSafe, LonePrimary
<1>8. R!DeletedWasCancelled'
  BY DEF R!DeletedWasCancelled
<1>9. QED
  BY <1>1, <1>3, <1>4, <1>6, <1>7, <1>8 DEF RecordsSafe

\* Steps that write no contract.
LEMMA AccountsSafe ==
    ASSUME R!RecordsAssumption, RecordsSafe, UNCHANGED <<contract, overlap>>,
           account' \in [Accounts -> R!AccountRow],
           \/ UNCHANGED call
           \/ \E c \in Calls, l \in R!CallState :
                /\ call' = [call EXCEPT ![c] = l]
                /\ l.pc \in {"idle", "primary"}
                /\ l.pc = "primary" => l.account \in Accounts
                /\ ~overlap /\ l.pc # "idle" => \A d \in Calls \ {c} : call[d].pc = "idle",
           EachMadeOne', LonePrimary'
    PROVE  RecordsSafe'
<1>1. R!TypeOK'
  BY DEF RecordsSafe, R!TypeOK
<1>2. R!DeletedWasCancelled'
  BY DEF RecordsSafe, R!DeletedWasCancelled
<1>3. CASE UNCHANGED call
  BY <1>1, <1>2, <1>3 DEF RecordsSafe, ReadersKnow, InTurn, Busy
<1>4. ASSUME NEW c \in Calls, NEW l \in R!CallState, call' = [call EXCEPT ![c] = l],
             l.pc \in {"idle", "primary"}, l.pc = "primary" => l.account \in Accounts,
             ~overlap /\ l.pc # "idle" => \A d \in Calls \ {c} : call[d].pc = "idle"
      PROVE  ReadersKnow' /\ InTurn'
  <2>1. ASSUME NEW d \in Calls PROVE call'[d] = IF d = c THEN l ELSE call[d]
    BY <1>4 DEF RecordsSafe, R!TypeOK
  <2>2. InTurn'
    BY <1>4, <2>1 DEF RecordsSafe, InTurn, Busy
  <2>3. ReadersKnow'
    BY <1>4, <2>1 DEF RecordsSafe, ReadersKnow
  <2>4. QED
    BY <2>2, <2>3
<1>5. QED
  BY <1>1, <1>2, <1>3, <1>4 DEF RecordsSafe

LEMMA AddAndRemoveSafe ==
    ASSUME R!RecordsAssumption, RecordsSafe, NEW a \in Accounts,
           R!AddAccount(a) \/ R!RemoveAccount(a)
    PROVE  RecordsSafe'
<1>1. /\ account' \in [Accounts -> R!AccountRow] /\ R!Primaries' \subseteq R!Primaries
      /\ UNCHANGED <<contract, call, overlap>>
  BY DEF RecordsSafe, R!TypeOK, R!AccountRow, R!RecordsAssumption, R!AddAccount,
         R!RemoveAccount, R!Primaries
<1>2. EachMadeOne'
  <2>1. PICK who \in [R!Primaries -> Calls] : MadeBy(who)
    BY DEF RecordsSafe, EachMadeOne
  <2>2. PICK kept : kept = [b \in R!Primaries' |-> who[b]]
    OBVIOUS
  <2>3. kept \in [R!Primaries' -> Calls] /\ \A b \in R!Primaries' : kept[b] = who[b]
    BY <1>1, <2>1, <2>2
  <2>4. MadeBy(kept)'
    BY <1>1, <2>1, <2>3 DEF MadeBy
  <2>5. QED
    BY <2>3, <2>4 DEF EachMadeOne
<1>3. LonePrimary'
  BY <1>1 DEF RecordsSafe, LonePrimary
<1>4. QED
  BY <1>1, <1>2, <1>3, AccountsSafe

LEMMA DemoteSafe ==
    ASSUME R!RecordsAssumption, RecordsSafe, NEW c \in Calls, NEW a \in Accounts, R!Demote(c, a)
    PROVE  RecordsSafe'
<1> DEFINE l == [R!Idle EXCEPT !.pc = "primary", !.account = a,
                                  !.seen = {b \in Accounts : account[b] # Null}]
<1>1. /\ call' = [call EXCEPT ![c] = l] /\ UNCHANGED <<contract, account, overlap>>
      /\ ~overlap => \A d \in Calls : call[d].pc = "idle"
  BY DEF R!Demote, R!MayStart, R!At
<1>2. l \in R!CallState /\ l.pc = "primary" /\ l.account = a /\ R!Primaries \subseteq l.seen
  BY DEF R!CallState, R!Idle, R!Primaries, R!RecordsAssumption
<1>3. ASSUME NEW d \in Calls PROVE call'[d] = IF d = c THEN l ELSE call[d]
  BY <1>1 DEF RecordsSafe, R!TypeOK
<1>4. R!Primaries' = R!Primaries
  BY <1>1 DEF R!Primaries
<1> HIDE DEF l
<1>5. EachMadeOne'
  BY <1>2, <1>3, <1>4 DEF RecordsSafe, EachMadeOne, MadeBy
<1>6. LonePrimary'
  BY <1>1, <1>2, <1>3, <1>4 DEF RecordsSafe, LonePrimary
<1>7. account' \in [Accounts -> R!AccountRow]
  BY <1>1 DEF RecordsSafe, R!TypeOK
<1>8. QED
  BY <1>1, <1>2, <1>5, <1>6, <1>7, AccountsSafe

LEMMA CommitSafe ==
    ASSUME R!RecordsAssumption, RecordsSafe, NEW c \in Calls, R!CommitPrimary(c)
    PROVE  RecordsSafe'
<1> DEFINE k == call[c].account
<1>1. /\ call[c].pc = "primary" /\ k \in Accounts
      /\ call' = [call EXCEPT ![c] = R!Idle] /\ UNCHANGED <<contract, overlap>>
      /\ account' = [R!Demoted(c) EXCEPT ![k] = TRUE]
  BY DEF R!CommitPrimary, R!At, R!Return, RecordsSafe, ReadersKnow
<1>2. R!Idle \in R!CallState /\ R!Idle.pc = "idle"
  BY DEF R!CallState, R!Idle
<1>3. ASSUME NEW d \in Calls PROVE call'[d] = IF d = c THEN R!Idle ELSE call[d]
  BY <1>1 DEF RecordsSafe, R!TypeOK
<1>4. account' \in [Accounts -> R!AccountRow]
  BY <1>1 DEF RecordsSafe, R!TypeOK, R!AccountRow, R!Demoted
<1>5. R!Primaries' = {k} \cup (R!Primaries \ call[c].seen)
  BY <1>1, <1>4 DEF R!Primaries, R!Demoted, RecordsSafe, R!TypeOK, R!CallState, R!AccountRow,
     R!RecordsAssumption
<1> HIDE DEF k
<1>6. EachMadeOne'
  <2>1. PICK who \in [R!Primaries -> Calls] : MadeBy(who)
    BY DEF RecordsSafe, EachMadeOne
  <2>2. PICK made : made = [b \in R!Primaries' |-> IF b = k THEN c ELSE who[b]]
    OBVIOUS
  <2>3. ASSUME NEW b \in R!Primaries', b # k
        PROVE  b \in R!Primaries /\ b \notin call[c].seen /\ made[b] = who[b] /\ who[b] # c
    BY <1>1, <1>5, <2>1, <2>2, <2>3 DEF MadeBy
  <2>4. made \in [R!Primaries' -> Calls] /\ made[k] = c
    BY <1>5, <2>1, <2>2
  <2>5. \A a, b \in R!Primaries' : made[a] = made[b] => a = b
    BY <2>1, <2>3, <2>4 DEF MadeBy
  <2>6. ASSUME NEW d \in Calls, NEW a \in R!Primaries', call'[d].pc = "primary", made[a] = d
        PROVE  a \in call'[d].seen
    <3>1. d # c /\ a # k
      BY <1>2, <1>3, <2>4, <2>6
    <3>2. QED
      BY <1>3, <2>1, <2>3, <2>6, <3>1 DEF MadeBy
  <2>7. MadeBy(made)'
    BY <2>5, <2>6 DEF MadeBy
  <2>8. QED
    BY <2>4, <2>7 DEF EachMadeOne
<1>7. LonePrimary'
  BY <1>1, <1>2, <1>3, <1>5 DEF RecordsSafe, LonePrimary, InTurn, Busy
<1>8. QED
  BY <1>1, <1>2, <1>4, <1>6, <1>7, AccountsSafe

LEMMA AddContractSafe ==
    ASSUME R!RecordsAssumption, RecordsSafe, NEW end \in Ends, R!AddContract(end)
    PROVE  RecordsSafe'
<1>1. /\ contract = Null /\ contract' \in R!Contract /\ ~contract'.deleted
      /\ UNCHANGED <<account, call, overlap>>
  BY DEF R!AddContract, R!Contract
<1>2. ASSUME NEW c \in Calls PROVE call[c].pc \notin {"extend", "cancel", "delete"}
  BY <1>1 DEF RecordsSafe, ReadersKnow, R!RecordsAssumption
<1>3. ReadersKnow'
  BY <1>1, <1>2 DEF RecordsSafe, ReadersKnow
<1>4. R!TypeOK' /\ R!DeletedWasCancelled' /\ InTurn'
  BY <1>1 DEF RecordsSafe, R!TypeOK, R!DeletedWasCancelled, InTurn, Busy
<1>5. EachMadeOne' /\ LonePrimary'
  BY <1>1 DEF RecordsSafe, EachMadeOne, MadeBy, LonePrimary, R!Primaries
<1>6. QED
  BY <1>3, <1>4, <1>5 DEF RecordsSafe

LEMMA ReadSafe ==
    ASSUME R!RecordsAssumption, RecordsSafe, NEW c \in Calls, NEW pc, NEW end \in Ends \cup {Null},
           R!Read(c, pc, end), pc = "extend" => end \in Ends
    PROVE  RecordsSafe'
<1> DEFINE l == [R!Idle EXCEPT !.pc = pc, !.end = end]
<1>1. /\ call' = [call EXCEPT ![c] = l] /\ UNCHANGED <<contract, account, overlap>>
      /\ ~overlap => \A d \in Calls : call[d].pc = "idle"
      /\ pc \in {"extend", "cancel", "delete"} /\ contract # Null
      /\ pc = "delete" => contract.status = "cancelled"
      /\ pc = "extend" => contract.status = "active"
      /\ pc = "cancel" => contract.status # "cancelled"
  BY DEF R!Read, R!MayStart, R!At, R!MayExtend, R!MayCancel, R!MayDelete, R!Found
<1>2. /\ l \in R!CallState /\ l.pc = pc /\ l.end = end
  BY <1>1 DEF R!CallState, R!Idle
<1>3. /\ contract \in R!Contract /\ contract.status \in {"active", "cancelled"}
      /\ contract.deleted => contract.status = "cancelled"
  BY <1>1 DEF RecordsSafe, R!TypeOK, R!Contract, R!DeletedWasCancelled
<1> HIDE DEF l
<1>4. QED
  BY <1>1, <1>2, <1>3, ContractSafe

LEMMA WriteSafe ==
    ASSUME R!RecordsAssumption, RecordsSafe, NEW c \in Calls,
           R!Extend(c) \/ R!Cancel(c) \/ R!SoftDelete(c)
    PROVE  RecordsSafe'
<1>1. R!Idle \in R!CallState /\ R!Idle.pc = "idle" /\ call' = [call EXCEPT ![c] = R!Idle]
  BY DEF R!CallState, R!Idle, R!Extend, R!Cancel, R!SoftDelete, R!Return
<1>2. /\ contract \in R!Contract /\ Busy(c) /\ UNCHANGED <<account, overlap>>
      /\ call[c].pc = "extend" => call[c].end \in Ends
      /\ call[c].pc = "delete" => contract.status = "cancelled"
      /\ contract.deleted => contract.status = "cancelled"
  BY DEF RecordsSafe, ReadersKnow, Busy, R!Extend, R!Cancel, R!SoftDelete, R!At,
         R!DeletedWasCancelled, R!RecordsAssumption
<1>3. /\ contract' \in R!Contract
      /\ contract.status = "cancelled" => contract'.status = "cancelled"
      /\ contract'.deleted => contract'.status = "cancelled"
  BY <1>2 DEF R!Extend, R!Cancel, R!SoftDelete, R!At, R!Contract
<1>4. QED
  BY <1>1, <1>2, <1>3, ContractSafe

LEMMA RecordsStep ==
    ASSUME R!RecordsAssumption
    PROVE  RecordsSafe /\ [R!Next]_R!vars => RecordsSafe'
<1> SUFFICES ASSUME RecordsSafe, [R!Next]_R!vars PROVE RecordsSafe'
  OBVIOUS
<1>1. CASE UNCHANGED R!vars
  BY <1>1 DEF R!vars, RecordsSafe, R!TypeOK, ReadersKnow, InTurn, Busy, EachMadeOne, MadeBy,
              LonePrimary, R!Primaries, R!DeletedWasCancelled
<1>2. ASSUME NEW c \in Calls, NEW end \in Ends, R!Read(c, "extend", end) PROVE RecordsSafe'
  BY <1>2, ReadSafe
<1>3. ASSUME NEW c \in Calls, NEW pc \in {"cancel", "delete"}, R!Read(c, pc, Null) PROVE RecordsSafe'
  BY <1>3, ReadSafe
<1>4. ASSUME NEW c \in Calls, R!Extend(c) \/ R!Cancel(c) \/ R!SoftDelete(c) PROVE RecordsSafe'
  BY <1>4, WriteSafe
<1>5. ASSUME NEW c \in Calls, R!CommitPrimary(c) \/ \E a \in Accounts : R!Demote(c, a)
      PROVE  RecordsSafe'
  BY <1>5, CommitSafe, DemoteSafe
<1>6. ASSUME NEW a \in Accounts, R!AddAccount(a) \/ R!RemoveAccount(a) PROVE RecordsSafe'
  BY <1>6, AddAndRemoveSafe
<1>7. ASSUME NEW end \in Ends, R!AddContract(end) PROVE RecordsSafe'
  BY <1>7, AddContractSafe
<1>8. QED
  BY <1>1, <1>2, <1>3, <1>4, <1>5, <1>6, <1>7 DEF R!Next

\* Each primary account has a handler of its own.
LEMMA RecordsKept ==
    ASSUME RecordsSafe, IsFiniteSet(Calls)
    PROVE  R!DeletedWasCancelled /\ R!OnePrimary
<1>1. PICK who \in [R!Primaries -> Calls] : MadeBy(who)
  BY DEF RecordsSafe, EachMadeOne
<1>2. who \in Injection(R!Primaries, Calls)
  BY <1>1 DEF MadeBy, Injection, IsInjective
<1>3. IsFiniteSet(R!Primaries) /\ Cardinality(R!Primaries) <= Cardinality(Calls)
  BY <1>2, FS_Injection
<1>4. ASSUME ~overlap PROVE Cardinality(R!Primaries) <= 1
  <2>1. CASE R!Primaries = {}
    BY <2>1, FS_EmptySet
  <2>2. CASE R!Primaries # {}
    <3>1. PICK a \in R!Primaries : \A b \in R!Primaries : a = b
      BY <1>4, <2>2 DEF RecordsSafe, LonePrimary
    <3>2. QED
      BY <3>1, R!Primaries = {a}, FS_Singleton
  <2>3. QED
    BY <2>1, <2>2
<1>5. R!Cardinality(R!Primaries) = Cardinality(R!Primaries)
     /\ R!Cardinality(Calls) = Cardinality(Calls)
  BY DEF R!Cardinality, Cardinality
<1>6. ASSUME overlap PROVE R!OnePrimary
  <2>1. R!OnePrimary <=> R!Cardinality(R!Primaries) <= R!Cardinality(Calls)
    BY <1>6, Zenon DEF R!OnePrimary
  <2>2. QED
    BY <1>3, <1>5, <2>1
<1>7. ASSUME ~overlap PROVE R!OnePrimary
  <2>1. R!OnePrimary <=> R!Cardinality(R!Primaries) <= 1
    BY <1>7, Zenon DEF R!OnePrimary
  <2>2. QED
    BY <1>4, <1>5, <1>7, <2>1
<1>8. QED
  BY <1>6, <1>7 DEF RecordsSafe

\* Where handlers do not overlap, a cancelled contract keeps its end and who cancelled
\* it (extendContract and cancelContract).
LEMMA CancelledStays ==
    ASSUME R!RecordsAssumption, RecordsSafe, [R!Next]_R!vars PROVE R!KeepsCancelled
<1> SUFFICES ASSUME ~overlap, contract # Null, contract.status = "cancelled"
             PROVE  contract' = [contract EXCEPT !.deleted = contract'.deleted]
  BY DEF R!KeepsCancelled
<1>1. contract \in R!Contract
  BY DEF RecordsSafe, R!TypeOK
<1>2. CASE contract' = contract
  BY <1>1, <1>2 DEF R!Contract
<1>3. CASE contract' # contract
  <2>1. PICK c \in Calls : R!SoftDelete(c)
    BY <1>3 DEF R!vars, R!Next, R!AddContract, R!Read, R!Extend, R!Cancel,
       R!Demote, R!CommitPrimary, R!AddAccount, R!RemoveAccount, R!At,
       RecordsSafe, ReadersKnow
  <2>2. QED
    BY <1>1, <2>1 DEF R!SoftDelete, R!Contract
<1>4. QED
  BY <1>2, <1>3

-----------------------------------------------------------------------------
(* Recruiting *)

\* What a handler with the locals l relies on; alone, that the slug it found is free, and
\* that the candidate is as it was read.
HirerKnows(l) ==
    /\ l.pc \in {"slug", "insert"} => l.title \in Titles
    /\ l.pc = "apply" => l.job \in Jobs
    /\ l.pc \in {"tell", "parse", "write"} =>
         l.candidate \in Candidates /\ candidate[l.candidate] \in Hiring!Candidate
    /\ l.pc = "tell" => \A h \in HR \ l.untold : l.candidate \in told[h]
    /\ ~overlap =>
         /\ l.pc = "insert" => Hiring!Numbered(l.title, l.number) \notin Hiring!Slugs
         /\ l.pc = "parse" => candidate[l.candidate].parsed = Null
         /\ l.pc = "write" /\ candidate[l.candidate].parsed # Null =>
              l.parsed = candidate[l.candidate].parsed

HiringSafe ==
    /\ Hiring!TypeOK /\ InTurn
    /\ \A c \in Calls : HirerKnows(call[c])
    /\ Hiring!SlugsAreFree /\ Hiring!ThankedIsTold /\ Hiring!ScoreFits

LEMMA IdleHirer ==
    ASSUME Hiring!RecruitingAssumption
    PROVE  Hiring!Idle \in Hiring!CallState /\ Hiring!Idle.pc = "idle"
BY DEF Hiring!RecruitingAssumption, Hiring!Idle, Hiring!CallState

LEMMA HiringInit == ASSUME Hiring!RecruitingAssumption PROVE Hiring!Init => HiringSafe
<1> SUFFICES ASSUME Hiring!Init PROVE HiringSafe
  OBVIOUS
<1>1. Hiring!TypeOK
  BY IdleHirer DEF Hiring!Init, Hiring!TypeOK
<1>2. InTurn /\ \A c \in Calls : HirerKnows(call[c])
  BY IdleHirer DEF Hiring!Init, InTurn, Busy, HirerKnows
<1>3. Hiring!SlugsAreFree /\ Hiring!ThankedIsTold /\ Hiring!ScoreFits
  BY DEF Hiring!Init, Hiring!SlugsAreFree, Hiring!ThankedIsTold, Hiring!ScoreFits
<1>4. QED
  BY <1>1, <1>2, <1>3 DEF HiringSafe

\* Who is at work, or may start, is alone where handlers do not overlap.
LEMMA HirerAlone ==
    ASSUME HiringSafe, NEW c \in Calls, Busy(c) \/ Hiring!MayStart(c)
    PROVE  ~overlap => \A d \in Calls \ {c} : ~Busy(d)
BY DEF HiringSafe, InTurn, Busy, Hiring!MayStart, Hiring!At

\* A handler goes on with the locals l; nobody else's rows are undone.
LEMMA HirerSafe ==
    ASSUME HiringSafe, NEW c \in Calls, NEW l \in Hiring!CallState,
           call' = [call EXCEPT ![c] = l], UNCHANGED overlap,
           ~overlap => \A d \in Calls \ {c} : ~Busy(d),
           HirerKnows(l)',
           job' \in [Jobs -> Hiring!Job \cup {Null}],
           candidate' \in [Candidates -> Hiring!Candidate \cup {Null}],
           told' \in [HR -> SUBSET Candidates],
           thanked' \subseteq Candidates, collided' \in BOOLEAN,
           \A k \in Candidates : candidate[k] \in Hiring!Candidate => candidate'[k] \in Hiring!Candidate,
           \A h \in HR : told[h] \subseteq told'[h],
           Hiring!SlugsAreFree', Hiring!ThankedIsTold', Hiring!ScoreFits'
    PROVE  HiringSafe'
<1>1. Hiring!TypeOK'
  BY DEF HiringSafe, Hiring!TypeOK
<1>2. ASSUME NEW d \in Calls PROVE call'[d] = IF d = c THEN l ELSE call[d]
  BY DEF HiringSafe, Hiring!TypeOK
<1>3. InTurn'
  BY <1>2 DEF HiringSafe, InTurn, Busy
<1>4. ASSUME NEW d \in Calls PROVE HirerKnows(call[d])'
  <2>1. CASE d = c
    BY <1>2, <2>1 DEF HirerKnows
  <2>2. CASE d # c /\ overlap
    BY <1>2, <2>2 DEF HiringSafe, HirerKnows
  <2>3. CASE d # c /\ ~overlap
    BY <1>2, <2>3 DEF Busy, HirerKnows
  <2>4. QED
    BY <2>1, <2>2, <2>3 DEF HiringSafe, Hiring!TypeOK
<1>5. QED
  BY <1>1, <1>3, <1>4 DEF HiringSafe

\* Steps that only read.
LEMMA HirerReads ==
    ASSUME HiringSafe, NEW c \in Calls, NEW l \in Hiring!CallState,
           Busy(c) \/ Hiring!MayStart(c),
           call' = [call EXCEPT ![c] = l], HirerKnows(l),
           UNCHANGED <<job, candidate, told, overlap, thanked, collided>>
    PROVE  HiringSafe'
<1>1. HirerKnows(l)'
  BY DEF HirerKnows, Hiring!Slugs
<1>2. Hiring!SlugsAreFree' /\ Hiring!ThankedIsTold' /\ Hiring!ScoreFits'
  BY DEF HiringSafe, Hiring!SlugsAreFree, Hiring!ThankedIsTold, Hiring!ScoreFits
<1>3. QED
  BY <1>1, <1>2, HirerAlone, HirerSafe DEF HiringSafe, Hiring!TypeOK

LEMMA CreateJobSafe ==
    ASSUME Hiring!RecruitingAssumption, HiringSafe, NEW c \in Calls,
           \/ \E title \in Titles : Hiring!CreateJob(c, title)
           \/ Hiring!UniqueJobSlug(c)
    PROVE  HiringSafe'
<1>1. CASE \E title \in Titles : Hiring!CreateJob(c, title)
  <2>1. PICK title \in Titles : Hiring!CreateJob(c, title)
    BY <1>1
  <2> DEFINE l == [Hiring!Idle EXCEPT !.pc = "slug", !.title = title]
  <2>2. l \in Hiring!CallState /\ HirerKnows(l)
    BY IdleHirer DEF Hiring!CallState, Hiring!Idle, HirerKnows
  <2>3. QED
    BY <2>1, <2>2, HirerReads DEF Hiring!CreateJob, Hiring!Start, Hiring!Rows, Hiring!History
<1>2. CASE Hiring!UniqueJobSlug(c)
  <2>1. /\ call[c] \in Hiring!CallState /\ Busy(c) /\ call[c].pc = "slug" /\ call[c].title \in Titles
        /\ call[c].number \in 1..MaxNumber
        /\ UNCHANGED <<job, candidate, told, overlap, thanked, collided>>
    BY <1>2 DEF HiringSafe, Hiring!TypeOK, Hiring!UniqueJobSlug, Hiring!At, Hiring!Rows, Hiring!History,
       Busy, HirerKnows, Hiring!CallState
  <2>2. CASE Hiring!SlugExists(call[c].title, call[c].number)
    <3> DEFINE l == [call[c] EXCEPT !.number = call[c].number + 1]
    <3>1. call[c].number < MaxNumber /\ call' = [call EXCEPT ![c] = l]
      BY <1>2, <2>2 DEF Hiring!UniqueJobSlug, HiringSafe, Hiring!TypeOK
    <3>2. call[c].number + 1 \in 1..MaxNumber
      BY <2>1, <3>1 DEF Hiring!RecruitingAssumption
    <3>3. l \in Hiring!CallState /\ HirerKnows(l)
      BY <2>1, <3>2 DEF Hiring!CallState, HirerKnows
    <3>4. QED
      BY <2>1, <3>1, <3>3, HirerReads
  <2>3. CASE ~Hiring!SlugExists(call[c].title, call[c].number)
    <3> DEFINE l == [call[c] EXCEPT !.pc = "insert"]
    <3>1. call' = [call EXCEPT ![c] = l]
      BY <1>2, <2>3 DEF Hiring!UniqueJobSlug, Hiring!Goto, HiringSafe, Hiring!TypeOK
    <3>2. l \in Hiring!CallState /\ HirerKnows(l)
      BY <2>1, <2>3 DEF Hiring!CallState, HirerKnows, Hiring!SlugExists
    <3>3. QED
      BY <2>1, <3>1, <3>2, HirerReads
  <2>4. QED
    BY <2>2, <2>3
<1>3. QED
  BY <1>1, <1>2

LEMMA InsertJobSafe ==
    ASSUME Hiring!RecruitingAssumption, HiringSafe, NEW c \in Calls, NEW j \in Jobs, Hiring!InsertJob(c, j)
    PROVE  HiringSafe'
<1> DEFINE slug == Hiring!Numbered(call[c].title, call[c].number)
<1>1. /\ Busy(c) /\ call[c].pc = "insert" /\ call' = [call EXCEPT ![c] = Hiring!Idle]
      /\ job' = IF slug \in Hiring!Slugs THEN job
                ELSE [job EXCEPT ![j] = [slug |-> slug, published |-> FALSE]]
      /\ collided' = (collided \/ slug \in Hiring!Slugs)
      /\ UNCHANGED <<candidate, told, overlap, thanked>>
  BY DEF Hiring!InsertJob, Hiring!At, Hiring!Return, Busy
<1>2. slug \in Hiring!Slug
  BY <1>1 DEF HiringSafe, HirerKnows, Hiring!TypeOK, Hiring!CallState, Hiring!Slug
<1>3. ~overlap => slug \notin Hiring!Slugs
  BY <1>1 DEF HiringSafe, HirerKnows
<1> HIDE DEF slug
<1>4. job' \in [Jobs -> Hiring!Job \cup {Null}] /\ collided' \in BOOLEAN
  BY <1>1, <1>2 DEF HiringSafe, Hiring!TypeOK, Hiring!Job
<1>5. Hiring!SlugsAreFree' /\ Hiring!ThankedIsTold' /\ Hiring!ScoreFits'
  BY <1>1, <1>3 DEF HiringSafe, Hiring!SlugsAreFree, Hiring!ThankedIsTold, Hiring!ScoreFits
<1>6. HirerKnows(Hiring!Idle)'
  BY IdleHirer DEF HirerKnows
<1>7. QED
  BY <1>1, <1>4, <1>5, <1>6, IdleHirer, HirerAlone, HirerSafe DEF HiringSafe, Hiring!TypeOK

LEMMA ApplySafe ==
    ASSUME Hiring!RecruitingAssumption, HiringSafe, NEW c \in Calls,
           \/ \E j \in Jobs : Hiring!PublishedJob(c, j)
           \/ \E k \in Candidates, resume \in BOOLEAN : Hiring!CreateCandidate(c, k, resume)
    PROVE  HiringSafe'
<1>1. CASE \E j \in Jobs : Hiring!PublishedJob(c, j)
  <2>1. PICK j \in Jobs : Hiring!PublishedJob(c, j)
    BY <1>1
  <2> DEFINE l == [Hiring!Idle EXCEPT !.pc = "apply", !.job = j]
  <2>2. l \in Hiring!CallState /\ HirerKnows(l)
    BY IdleHirer DEF Hiring!CallState, Hiring!Idle, HirerKnows
  <2>3. QED
    BY <2>1, <2>2, HirerReads DEF Hiring!PublishedJob, Hiring!Start, Hiring!Rows, Hiring!History
<1>2. CASE \E k \in Candidates, resume \in BOOLEAN : Hiring!CreateCandidate(c, k, resume)
  <2>1. PICK k \in Candidates, resume \in BOOLEAN : Hiring!CreateCandidate(c, k, resume)
    BY <1>2
  <2> DEFINE l == [Hiring!Idle EXCEPT !.pc = "tell", !.candidate = k, !.untold = HR]
             row == [job |-> call[c].job, resume |-> resume, parsed |-> Null, basis |-> "none"]
  <2>2. /\ Busy(c) /\ call[c].job \in Jobs /\ call' = [call EXCEPT ![c] = l]
        /\ candidate' = [candidate EXCEPT ![k] = row]
        /\ UNCHANGED <<job, told, overlap, thanked, collided>>
    BY <2>1 DEF Hiring!CreateCandidate, Hiring!At, Busy, HiringSafe, HirerKnows, Hiring!History
  <2>3. row \in Hiring!Candidate /\ row.basis = "none" /\ row.parsed = Null
    BY <2>2 DEF Hiring!Candidate
  <2>4. l \in Hiring!CallState /\ l.pc = "tell" /\ l.candidate = k /\ l.untold = HR
    BY IdleHirer DEF Hiring!CallState, Hiring!Idle
  <2> HIDE DEF l, row
  <2>5. /\ candidate' \in [Candidates -> Hiring!Candidate \cup {Null}]
        /\ \A x \in Candidates : candidate'[x] = IF x = k THEN row ELSE candidate[x]
    BY <2>2, <2>3 DEF HiringSafe, Hiring!TypeOK
  <2>6. HirerKnows(l)'
    BY <2>3, <2>4, <2>5 DEF HirerKnows
  <2>7. Hiring!SlugsAreFree' /\ Hiring!ThankedIsTold'
    BY <2>2 DEF HiringSafe, Hiring!SlugsAreFree, Hiring!ThankedIsTold
  <2>8. Hiring!ScoreFits'
    BY <2>3, <2>5 DEF HiringSafe, Hiring!ScoreFits, Hiring!RecruitingAssumption
  <2>9. QED
    BY <2>2, <2>3, <2>4, <2>5, <2>6, <2>7, <2>8, HirerAlone, HirerSafe DEF HiringSafe, Hiring!TypeOK
<1>3. QED
  BY <1>1, <1>2

LEMMA NotifySafe ==
    ASSUME Hiring!RecruitingAssumption, HiringSafe, NEW c \in Calls, NEW h \in HR, Hiring!NotifyHR(c, h)
    PROVE  HiringSafe'
<1>0. PICK k, left, l :
         /\ k = call[c].candidate /\ left = call[c].untold \ {h}
         /\ l = IF left = {} THEN Hiring!Idle ELSE [call[c] EXCEPT !.untold = left]
  OBVIOUS
<1>1. /\ call[c].pc = "tell" /\ Busy(c) /\ call' = [call EXCEPT ![c] = l]
      /\ told' = [told EXCEPT ![h] = @ \cup {k}]
      /\ thanked' = IF left = {} THEN thanked \cup {k} ELSE thanked
      /\ UNCHANGED <<job, candidate, overlap, collided>>
  BY <1>0 DEF Hiring!NotifyHR, Hiring!At, Busy, HiringSafe, Hiring!TypeOK
<1>2. /\ call[c] \in Hiring!CallState /\ k \in Candidates /\ candidate[k] \in Hiring!Candidate
      /\ \A x \in HR \ call[c].untold : k \in told[x]
  BY <1>0, <1>1 DEF HiringSafe, Hiring!TypeOK, HirerKnows
<1>3. l \in Hiring!CallState
  BY <1>0, <1>2, IdleHirer DEF Hiring!CallState
<1>4. /\ told' \in [HR -> SUBSET Candidates]
      /\ \A x \in HR : told[x] \subseteq told'[x] /\ (x \in HR \ left => k \in told'[x])
  BY <1>0, <1>1, <1>2 DEF HiringSafe, Hiring!TypeOK
<1>5. HirerKnows(l)'
  <2>1. CASE left = {}
    BY <1>0, <2>1, IdleHirer DEF HirerKnows
  <2>2. CASE left # {}
    <3>1. /\ l.pc = "tell" /\ l.candidate = k /\ l.untold = left
      BY <1>0, <1>1, <1>2, <2>2 DEF Hiring!CallState
    <3>2. QED
      BY <1>1, <1>2, <1>4, <3>1 DEF HirerKnows
  <2>3. QED
    BY <2>1, <2>2
<1>6. Hiring!ThankedIsTold'
  <2> SUFFICES ASSUME NEW x \in thanked', NEW y \in HR PROVE x \in told'[y]
    BY DEF Hiring!ThankedIsTold
  <2>1. CASE x \in thanked
    BY <1>4, <2>1 DEF HiringSafe, Hiring!ThankedIsTold
  <2>2. CASE x \notin thanked
    BY <1>0, <1>1, <1>4, <2>2
  <2>3. QED
    BY <2>1, <2>2
<1>7. Hiring!SlugsAreFree' /\ Hiring!ScoreFits' /\ thanked' \subseteq Candidates
  BY <1>1, <1>2 DEF HiringSafe, Hiring!TypeOK, Hiring!SlugsAreFree, Hiring!ScoreFits
<1>8. QED
  BY <1>1, <1>3, <1>4, <1>5, <1>6, <1>7, HirerAlone, HirerSafe DEF HiringSafe, Hiring!TypeOK

LEMMA ScoringSafe ==
    ASSUME Hiring!RecruitingAssumption, HiringSafe, NEW c \in Calls,
           \/ \E k \in Candidates : Hiring!ReadCandidate(c, k)
           \/ \E parsed \in Parses \cup {Null} : Hiring!ParseResume(c, parsed)
    PROVE  HiringSafe'
<1>1. CASE \E k \in Candidates : Hiring!ReadCandidate(c, k)
  <2>1. PICK k \in Candidates : Hiring!ReadCandidate(c, k)
    BY <1>1
  <2> DEFINE pc == IF candidate[k].parsed = Null /\ candidate[k].resume THEN "parse" ELSE "write"
             l == [Hiring!Idle EXCEPT !.pc = pc, !.candidate = k, !.parsed = candidate[k].parsed]
  <2>2. /\ candidate[k] \in Hiring!Candidate /\ call' = [call EXCEPT ![c] = l] /\ Hiring!MayStart(c)
        /\ UNCHANGED <<job, candidate, told, overlap, thanked, collided>>
    BY <2>1 DEF Hiring!ReadCandidate, Hiring!Start, Hiring!Rows, Hiring!History, HiringSafe, Hiring!TypeOK
  <2>3. candidate[k].parsed \in Parses \cup {Null}
    BY <2>2 DEF Hiring!Candidate
  <2>4. l \in Hiring!CallState /\ l.pc = pc /\ l.candidate = k /\ l.parsed = candidate[k].parsed
    BY <2>3, IdleHirer DEF Hiring!CallState, Hiring!Idle
  <2>5. pc \in {"parse", "write"} /\ (pc = "parse" => candidate[k].parsed = Null)
    OBVIOUS
  <2> HIDE DEF l, pc
  <2>6. HirerKnows(l)
    BY <2>2, <2>4, <2>5 DEF HirerKnows
  <2>7. QED
    BY <2>2, <2>4, <2>6, HirerReads
<1>2. CASE \E parsed \in Parses \cup {Null} : Hiring!ParseResume(c, parsed)
  <2>1. PICK parsed \in Parses \cup {Null} : Hiring!ParseResume(c, parsed)
    BY <1>2
  <2> DEFINE l == [call[c] EXCEPT !.pc = "write", !.parsed = parsed]
  <2>2. /\ call[c] \in Hiring!CallState /\ call[c].pc = "parse" /\ Busy(c)
        /\ call' = [call EXCEPT ![c] = l] /\ HirerKnows(call[c])
        /\ UNCHANGED <<job, candidate, told, overlap, thanked, collided>>
    BY <2>1 DEF Hiring!ParseResume, Hiring!At, Hiring!Rows, Hiring!History, HiringSafe, Hiring!TypeOK, Busy
  <2>3. l \in Hiring!CallState /\ l.pc = "write" /\ l.candidate = call[c].candidate
    BY <2>2 DEF Hiring!CallState
  <2> HIDE DEF l
  <2>4. HirerKnows(l)
    BY <2>2, <2>3 DEF HirerKnows
  <2>5. QED
    BY <2>2, <2>3, <2>4, HirerReads
<1>3. QED
  BY <1>1, <1>2

\* What the score is written into is a score of the parse written with it.
LEMMA ScoredFits ==
    ASSUME Hiring!RecruitingAssumption, NEW row \in Hiring!Candidate, NEW parsed \in Parses \cup {Null}
    PROVE  LET new == Hiring!Scored(row, parsed)
           IN  /\ new \in Hiring!Candidate /\ new.parsed = parsed
               /\ new.parsed = IF new.basis \in Parses THEN new.basis ELSE Null
<1>1. Hiring!Basis(parsed) \in Parses \cup {"none", "name", "hand"}
  BY DEF Hiring!Basis
<1>2. parsed = IF Hiring!Basis(parsed) \in Parses THEN Hiring!Basis(parsed) ELSE Null
  BY DEF Hiring!Basis, Hiring!RecruitingAssumption
<1>3. QED
  BY <1>1, <1>2 DEF Hiring!Scored, Hiring!Candidate

LEMMA WriteScoreSafe ==
    ASSUME Hiring!RecruitingAssumption, HiringSafe, NEW c \in Calls, Hiring!WriteScore(c)
    PROVE  HiringSafe'
<1> DEFINE k == call[c].candidate
           new == Hiring!Scored(candidate[k], call[c].parsed)
<1>1. /\ call[c].pc = "write" /\ Busy(c) /\ call' = [call EXCEPT ![c] = Hiring!Idle]
      /\ candidate' = [candidate EXCEPT ![k] = new]
      /\ UNCHANGED <<job, told, overlap, thanked, collided>>
  BY DEF Hiring!WriteScore, Hiring!At, Hiring!Return, Hiring!History, Busy
<1>2. k \in Candidates /\ candidate[k] \in Hiring!Candidate /\ call[c].parsed \in Parses \cup {Null}
  BY <1>1 DEF HiringSafe, Hiring!TypeOK, Hiring!CallState, HirerKnows
<1>3. /\ new \in Hiring!Candidate
      /\ new.parsed = IF new.basis \in Parses THEN new.basis ELSE Null
  BY <1>2, ScoredFits
<1> HIDE DEF k, new
<1>4. /\ candidate' \in [Candidates -> Hiring!Candidate \cup {Null}]
      /\ \A x \in Candidates : candidate'[x] = IF x = k THEN new ELSE candidate[x]
  BY <1>1, <1>2, <1>3 DEF HiringSafe, Hiring!TypeOK
<1>5. Hiring!ScoreFits'
  BY <1>3, <1>4 DEF HiringSafe, Hiring!ScoreFits
<1>6. HirerKnows(Hiring!Idle)' /\ Hiring!SlugsAreFree' /\ Hiring!ThankedIsTold'
  BY <1>1, IdleHirer DEF HirerKnows, HiringSafe, Hiring!SlugsAreFree, Hiring!ThankedIsTold
<1>7. QED
  BY <1>1, <1>3, <1>4, <1>5, <1>6, IdleHirer, HirerAlone, HirerSafe DEF HiringSafe, Hiring!TypeOK

LEMMA FailSafeHirer ==
    ASSUME Hiring!RecruitingAssumption, HiringSafe, NEW c \in Calls, Hiring!Fail(c)
    PROVE  HiringSafe'
<1>1. HirerKnows(Hiring!Idle)
  BY IdleHirer DEF HirerKnows
<1>2. QED
  BY <1>1, IdleHirer, HirerReads DEF Hiring!Fail, Hiring!At, Busy, Hiring!Return, Hiring!Rows, Hiring!History

\* Publishing writes no slug, and a score by hand no parse.
LEMMA ByHandSafe ==
    ASSUME Hiring!RecruitingAssumption, HiringSafe,
           \/ \E j \in Jobs, published \in BOOLEAN : Hiring!SetPublished(j, published)
           \/ \E k \in Candidates : Hiring!ScoreByHand(k)
    PROVE  HiringSafe'
<1>1. CASE \E j \in Jobs, published \in BOOLEAN : Hiring!SetPublished(j, published)
  <2>1. PICK j \in Jobs, published \in BOOLEAN : Hiring!SetPublished(j, published)
    BY <1>1
  <2>2. /\ job[j] \in Hiring!Job /\ job[j] # Null
        /\ job' = [job EXCEPT ![j] = [job[j] EXCEPT !.published = published]]
        /\ UNCHANGED <<candidate, told, call, overlap, thanked, collided>>
    BY <2>1 DEF Hiring!SetPublished, Hiring!History, HiringSafe, Hiring!TypeOK
  <2>3. [job[j] EXCEPT !.published = published] \in Hiring!Job
        /\ [job[j] EXCEPT !.published = published].slug = job[j].slug
    BY <2>2 DEF Hiring!Job
  <2>4. job' \in [Jobs -> Hiring!Job \cup {Null}]
    BY <2>2, <2>3 DEF HiringSafe, Hiring!TypeOK
  <2>5. Hiring!Slugs' \subseteq Hiring!Slugs
    BY <2>2, <2>3 DEF HiringSafe, Hiring!TypeOK, Hiring!Slugs
  <2>6. \A c \in Calls : HirerKnows(call[c])'
    BY <2>2, <2>5 DEF HiringSafe, HirerKnows
  <2>7. QED
    BY <2>2, <2>4, <2>6 DEF HiringSafe, Hiring!TypeOK, InTurn, Busy, Hiring!SlugsAreFree,
       Hiring!ThankedIsTold, Hiring!ScoreFits
<1>2. CASE \E k \in Candidates : Hiring!ScoreByHand(k)
  <2>1. PICK k \in Candidates : Hiring!ScoreByHand(k)
    BY <1>2
  <2> DEFINE new == [candidate[k] EXCEPT !.basis = "hand"]
  <2>2. /\ candidate[k] \in Hiring!Candidate
        /\ candidate' = [candidate EXCEPT ![k] = new]
        /\ UNCHANGED <<job, told, call, overlap, thanked, collided>>
    BY <2>1 DEF Hiring!ScoreByHand, Hiring!History, HiringSafe, Hiring!TypeOK
  <2>3. new \in Hiring!Candidate /\ new.basis = "hand" /\ new.parsed = candidate[k].parsed
    BY <2>2 DEF Hiring!Candidate
  <2> HIDE DEF new
  <2>4. /\ candidate' \in [Candidates -> Hiring!Candidate \cup {Null}]
        /\ \A x \in Candidates : candidate'[x] = IF x = k THEN new ELSE candidate[x]
    BY <2>2, <2>3 DEF HiringSafe, Hiring!TypeOK
  <2>5. ASSUME NEW c \in Calls PROVE HirerKnows(call[c])'
    <3>1. HirerKnows(call[c])
      BY DEF HiringSafe
    <3>2. QED
      BY <2>2, <2>3, <2>4, <3>1 DEF HirerKnows, Hiring!Slugs
  <2>6. Hiring!ScoreFits'
    BY <2>3, <2>4 DEF HiringSafe, Hiring!ScoreFits
  <2>7. QED
    BY <2>2, <2>4, <2>5, <2>6 DEF HiringSafe, Hiring!TypeOK, InTurn, Busy, Hiring!SlugsAreFree,
       Hiring!ThankedIsTold
<1>3. QED
  BY <1>1, <1>2

LEMMA HiringStep ==
    ASSUME Hiring!RecruitingAssumption
    PROVE  HiringSafe /\ [Hiring!Next]_Hiring!vars => HiringSafe'
<1> SUFFICES ASSUME HiringSafe, [Hiring!Next]_Hiring!vars PROVE HiringSafe'
  OBVIOUS
<1>1. CASE UNCHANGED Hiring!vars
  <2>1. UNCHANGED <<job, candidate, told, call, overlap, thanked, collided>>
    BY <1>1 DEF Hiring!vars
  <2>2. \A c \in Calls : HirerKnows(call[c])'
    BY <2>1 DEF HiringSafe, HirerKnows, Hiring!Slugs
  <2>3. QED
    BY <2>1, <2>2 DEF HiringSafe, Hiring!TypeOK, InTurn, Busy, Hiring!SlugsAreFree, Hiring!ThankedIsTold,
       Hiring!ScoreFits
<1>2. ASSUME NEW c \in Calls,
             \/ \E title \in Titles : Hiring!CreateJob(c, title)
             \/ Hiring!UniqueJobSlug(c)
             \/ \E j \in Jobs : Hiring!InsertJob(c, j) \/ Hiring!PublishedJob(c, j)
             \/ \E k \in Candidates, resume \in BOOLEAN : Hiring!CreateCandidate(c, k, resume)
             \/ \E h \in HR : Hiring!NotifyHR(c, h)
      PROVE  HiringSafe'
  BY <1>2, CreateJobSafe, InsertJobSafe, ApplySafe, NotifySafe
<1>3. ASSUME NEW c \in Calls,
             \/ \E k \in Candidates : Hiring!ReadCandidate(c, k)
             \/ \E parsed \in Parses \cup {Null} : Hiring!ParseResume(c, parsed)
             \/ Hiring!WriteScore(c)
             \/ Hiring!Fail(c)
      PROVE  HiringSafe'
  BY <1>3, ScoringSafe, WriteScoreSafe, FailSafeHirer
<1>4. CASE \/ \E j \in Jobs, published \in BOOLEAN : Hiring!SetPublished(j, published)
           \/ \E k \in Candidates : Hiring!ScoreByHand(k)
  BY <1>4, ByHandSafe
<1>5. QED
  BY <1>1, <1>2, <1>3, <1>4 DEF Hiring!Next

\* Where handlers do not overlap what was parsed of a resume stays (scoreCandidate).
LEMMA ParsedStays ==
    ASSUME HiringSafe, [Hiring!Next]_Hiring!vars PROVE Hiring!KeepsParsed
<1> SUFFICES ASSUME ~overlap, NEW k \in Candidates, candidate[k] # Null, candidate[k].parsed # Null
             PROVE  candidate'[k].parsed = candidate[k].parsed
  BY DEF Hiring!KeepsParsed
<1>1. candidate \in [Candidates -> Hiring!Candidate \cup {Null}] /\ candidate[k] \in Hiring!Candidate
  BY DEF HiringSafe, Hiring!TypeOK
<1>2. CASE candidate' = candidate
  BY <1>2
<1>3. ASSUME NEW x \in Candidates, Hiring!ScoreByHand(x)
      PROVE  candidate'[k].parsed = candidate[k].parsed
  BY <1>1, <1>3 DEF Hiring!ScoreByHand, Hiring!Candidate
<1>4. ASSUME NEW c \in Calls, Hiring!WriteScore(c)
      PROVE  candidate'[k].parsed = candidate[k].parsed
  <2>1. /\ candidate' = [candidate EXCEPT ![call[c].candidate] =
                                          Hiring!Scored(@, call[c].parsed)]
        /\ HirerKnows(call[c]) /\ call[c].pc = "write" /\ call[c].parsed \in Parses \cup {Null}
    BY <1>4 DEF Hiring!WriteScore, Hiring!At, HiringSafe, Hiring!TypeOK, Hiring!CallState
  <2>2. CASE call[c].candidate = k
    <3>1. call[c].parsed = candidate[k].parsed
      BY <2>1, <2>2 DEF HirerKnows
    <3>2. candidate'[k] = Hiring!Scored(candidate[k], call[c].parsed)
      BY <1>1, <2>1, <2>2
    <3>3. Hiring!RecruitingAssumption
      BY StaffAssumption
    <3>4. QED
      BY <1>1, <2>1, <3>1, <3>2, <3>3, ScoredFits
  <2>3. CASE call[c].candidate # k
    BY <1>1, <2>1, <2>3
  <2>4. QED
    BY <2>2, <2>3
<1>5. ASSUME NEW c \in Calls, NEW x \in Candidates, NEW resume \in BOOLEAN,
             Hiring!CreateCandidate(c, x, resume)
      PROVE  candidate'[k].parsed = candidate[k].parsed
  BY <1>1, <1>5 DEF Hiring!CreateCandidate
<1>6. CASE candidate' # candidate
  BY <1>3, <1>4, <1>5, <1>6 DEF Hiring!Next, Hiring!vars, Hiring!CreateJob, Hiring!UniqueJobSlug,
     Hiring!InsertJob, Hiring!PublishedJob, Hiring!NotifyHR, Hiring!ReadCandidate, Hiring!ParseResume,
     Hiring!Fail, Hiring!SetPublished, Hiring!Rows
<1>7. QED
  BY <1>2, <1>6

-----------------------------------------------------------------------------
(* Onboarding *)

\* What a handler with the locals l relies on: what it saw assigned is so, unless the task
\* is gone; alone, that nobody has what it saw missing.
AssignerKnows(l) ==
    /\ l.pc = "drop" =>
         l.group \in Groups /\ l.moved < Len(l.items) /\ Len(l.items) <= Cardinality(Tasks)
    /\ \A x \in l.existing : copies[x] >= 1 \/ task[x[2]] = Gone
    /\ ~overlap /\ l.pc = "insert" /\ l.onlyMissing =>
         \A x \in (l.employees \X l.tasks) \ l.existing : copies[x] = 0

\* A task is among those of the drop that put it in place.
DroppedWithOthers == \A t \in Lists!Present : task[t].drop # {} => t \in task[t].drop

ListsSafe ==
    /\ Lists!TypeOK /\ InTurn
    /\ \A c \in Calls : AssignerKnows(call[c])
    /\ DroppedWithOthers
    /\ Lists!AssignedIsThere /\ Lists!NothingTwice /\ Lists!DropsAreWhole

ListsAssumption == Lists!OnboardingAssumption /\ IsFiniteSet(Tasks)

LEMMA CountOfTasks ==
    ASSUME ListsAssumption
    PROVE  /\ Lists!Cardinality(Tasks) = Cardinality(Tasks) /\ Cardinality(Tasks) \in Nat
<1>1. Lists!Cardinality(Tasks) = Cardinality(Tasks)
  BY DEF Lists!Cardinality, Cardinality
<1>2. QED
  BY <1>1, FS_CardinalityType DEF ListsAssumption

LEMMA IdleAssigner ==
    ASSUME ListsAssumption
    PROVE  Lists!Idle \in Lists!CallState /\ Lists!Idle.pc = "idle" /\ Lists!Idle.existing = {}
BY CountOfTasks, EmptySeq DEF Lists!Idle, Lists!CallState

LEMMA ListsInit == ASSUME ListsAssumption PROVE Lists!Init => ListsSafe
<1> SUFFICES ASSUME Lists!Init PROVE ListsSafe
  OBVIOUS
<1>1. Lists!TypeOK
  BY IdleAssigner DEF Lists!Init, Lists!TypeOK, ListsAssumption, Lists!OnboardingAssumption
<1>2. InTurn /\ \A c \in Calls : AssignerKnows(call[c])
  BY IdleAssigner DEF Lists!Init, InTurn, Busy, AssignerKnows
<1>3. Lists!Present = {}
  BY DEF Lists!Init, Lists!Present, Lists!Exists
<1>4. Lists!NothingTwice
  BY DEF Lists!Init, Lists!NothingTwice
<1>5. DroppedWithOthers /\ Lists!AssignedIsThere /\ Lists!DropsAreWhole
  BY <1>3 DEF Lists!Init, DroppedWithOthers, Lists!AssignedIsThere, Lists!DropsAreWhole
<1>6. QED
  BY <1>1, <1>2, <1>4, <1>5 DEF ListsSafe

LEMMA AssignerAlone ==
    ASSUME ListsSafe, NEW c \in Calls, Busy(c) \/ \E what : Lists!MayStart(c, what)
    PROVE  ~overlap => \A d \in Calls \ {c} : ~Busy(d)
BY DEF ListsSafe, InTurn, Busy, Lists!MayStart, Lists!At

\* A handler goes on with the locals l; what others saw assigned is so, unless it is gone.
LEMMA AssignerSafe ==
    ASSUME ListsSafe, NEW c \in Calls, NEW l \in Lists!CallState,
           call' = [call EXCEPT ![c] = l], UNCHANGED <<group, overlap>>,
           ~overlap => \A d \in Calls \ {c} : ~Busy(d),
           AssignerKnows(l)',
           task' \in [Tasks -> Lists!Task \cup {Null, Gone}],
           copies' \in [Lists!Pairs -> 0..MaxCopies],
           promised' \subseteq Lists!Pairs, repeated' \subseteq Lists!Pairs,
           \A t \in Tasks : task[t] = Gone => task'[t] = Gone,
           \A x \in Lists!Pairs : copies'[x] >= copies[x],
           DroppedWithOthers', Lists!AssignedIsThere', Lists!NothingTwice', Lists!DropsAreWhole'
    PROVE  ListsSafe'
<1>1. Lists!TypeOK'
  BY DEF ListsSafe, Lists!TypeOK
<1>2. ASSUME NEW d \in Calls PROVE call'[d] = IF d = c THEN l ELSE call[d]
  BY DEF ListsSafe, Lists!TypeOK
<1>3. InTurn'
  BY <1>2 DEF ListsSafe, InTurn, Busy
<1>4. ASSUME NEW d \in Calls, d # c PROVE AssignerKnows(call[d])'
  <2>1. call'[d] = call[d] /\ AssignerKnows(call[d]) /\ (~overlap => call[d].pc = "idle")
        /\ call[d] \in Lists!CallState
    BY <1>2, <1>4 DEF ListsSafe, Busy, Lists!TypeOK
  <2>2. ASSUME NEW x \in call[d].existing PROVE copies'[x] >= 1 \/ task'[x[2]] = Gone
    <3>1. x \in Lists!Pairs /\ x[2] \in Tasks
      BY <2>1 DEF Lists!CallState, Lists!Pairs
    <3>2. copies[x] \in Nat /\ copies'[x] \in Nat
      BY <3>1 DEF ListsSafe, Lists!TypeOK
    <3>3. QED
      BY <2>1, <3>1, <3>2 DEF AssignerKnows
  <2>3. QED
    BY <2>1, <2>2 DEF AssignerKnows
<1>5. \A d \in Calls : AssignerKnows(call[d])'
  <2>1. AssignerKnows(call[c])'
    BY <1>2 DEF AssignerKnows
  <2>2. QED
    BY <1>4, <2>1
<1>6. QED
  BY <1>1, <1>3, <1>5 DEF ListsSafe

\* Steps that only read.
LEMMA AssignerReads ==
    ASSUME ListsSafe, NEW c \in Calls, NEW l \in Lists!CallState,
           Busy(c) \/ \E what : Lists!MayStart(c, what),
           call' = [call EXCEPT ![c] = l], AssignerKnows(l),
           UNCHANGED <<group, task, copies, overlap, promised, repeated>>
    PROVE  ListsSafe'
<1>1. AssignerKnows(l)'
  BY DEF AssignerKnows
<1>2. DroppedWithOthers' /\ Lists!AssignedIsThere' /\ Lists!NothingTwice' /\ Lists!DropsAreWhole'
  BY DEF ListsSafe, DroppedWithOthers, Lists!AssignedIsThere, Lists!NothingTwice, Lists!DropsAreWhole,
         Lists!Present, Lists!Exists
<1>3. \A x \in Lists!Pairs : copies'[x] >= copies[x]
  BY DEF ListsSafe, Lists!TypeOK
<1>4. QED
  BY <1>1, <1>2, <1>3, AssignerAlone, AssignerSafe DEF ListsSafe, Lists!TypeOK

LEMMA ListTasksSafe ==
    ASSUME ListsAssumption, ListsSafe, NEW c \in Calls, NEW employees \in SUBSET Newcomers,
           NEW twice \in SUBSET employees, NEW picked \in SUBSET Tasks, NEW listed \in Lists!Listings,
           NEW onlyMissing \in BOOLEAN,
           Lists!ListTasks(c, employees, twice, picked, listed, onlyMissing)
    PROVE  ListsSafe'
<1>1. PICK l : /\ l = [Lists!Idle EXCEPT !.pc = IF onlyMissing THEN "pairs" ELSE "insert",
                            !.employees = employees, !.twice = twice, !.onlyMissing = onlyMissing,
                            !.tasks = IF picked = {} THEN listed ELSE listed \cap picked]
  OBVIOUS
<1>2. listed \subseteq Tasks /\ twice \subseteq Newcomers
  BY DEF Lists!Listings, Lists!Present
<1>3. /\ l \in Lists!CallState /\ l.existing = {} /\ l.pc # "drop" /\ (l.pc = "insert" => ~l.onlyMissing)
  BY <1>1, <1>2, IdleAssigner DEF Lists!CallState, Lists!Idle
<1>4. AssignerKnows(l)
  BY <1>3 DEF AssignerKnows
<1>5. QED
  BY <1>1, <1>3, <1>4, AssignerReads DEF Lists!ListTasks

LEMMA ReorderSafe ==
    ASSUME ListsAssumption, ListsSafe, NEW c \in Calls, NEW shown \in (SUBSET Lists!Present) \ {{}},
           NEW g \in group, NEW items \in Lists!SetToSeqs(shown), Lists!ReorderTasks(c, items, g)
    PROVE  ListsSafe'
<1>1. PICK l : l = [Lists!Idle EXCEPT !.pc = "drop", !.items = items, !.group = g]
  OBVIOUS
<1>2. shown \in SUBSET Tasks /\ shown # {} /\ IsFiniteSet(shown)
  BY FS_Subset DEF Lists!Present, ListsAssumption
<1>3. /\ Lists!Cardinality(shown) = Cardinality(shown)
  BY DEF Lists!Cardinality, Cardinality
<1>4. /\ Cardinality(shown) \in Nat /\ Cardinality(shown) # 0 /\ Cardinality(shown) <= Cardinality(Tasks)
  BY <1>2, FS_CardinalityType, FS_EmptySet, FS_Subset DEF ListsAssumption
<1>5. items \in [1..Cardinality(shown) -> shown]
  BY <1>3 DEF Lists!SetToSeqs
<1>6. items \in Seq(Tasks) /\ Len(items) = Cardinality(shown)
  <2>1. items \in [1..Cardinality(shown) -> Tasks]
    BY <1>2, <1>5
  <2>2. items \in Seq(Tasks)
    BY <1>4, <2>1
  <2>3. QED
    BY <1>4, <2>1, <2>2, LenProperties
<1>7. g \in Groups
  BY DEF ListsSafe, Lists!TypeOK
<1>8. l \in Lists!CallState
  <2>1. 0 \in 0..Lists!Cardinality(Tasks)
    BY CountOfTasks
  <2>2. QED
    BY <1>1, <1>6, <1>7, <2>1 DEF Lists!CallState, Lists!Idle
<1>9. l.existing = {} /\ l.pc = "drop" /\ l.group = g /\ l.items = items /\ l.moved = 0
  BY <1>1 DEF Lists!Idle
<1>10. AssignerKnows(l)
  BY <1>4, <1>6, <1>7, <1>9 DEF AssignerKnows
<1>11. QED
  BY <1>1, <1>8, <1>10, AssignerReads DEF Lists!ReorderTasks

LEMMA ExistingSafe ==
    ASSUME ListsAssumption, ListsSafe, NEW c \in Calls, Lists!ExistingPairs(c)
    PROVE  ListsSafe'
<1>1. PICK l, found : /\ found = {x \in Lists!ToAssign(c) : copies[x] > 0}
                      /\ l = [call[c] EXCEPT !.pc = "insert", !.existing = found]
  OBVIOUS
<1>2. call[c] \in Lists!CallState /\ Busy(c)
  BY DEF ListsSafe, Lists!TypeOK, Lists!ExistingPairs, Lists!At, Busy
<1>3. found \subseteq Lists!Pairs /\ Lists!ToAssign(c) \subseteq Lists!Pairs
  BY <1>1, <1>2 DEF Lists!ToAssign, Lists!Pairs, Lists!CallState
<1>4. l \in Lists!CallState
  BY <1>1, <1>2, <1>3 DEF Lists!CallState
<1>5. l.pc = "insert" /\ l.existing = found /\ l.employees \X l.tasks = Lists!ToAssign(c)
  BY <1>1, <1>2 DEF Lists!CallState, Lists!ToAssign
<1>6. \A x \in Lists!Pairs : copies[x] \in Nat
  BY DEF ListsSafe, Lists!TypeOK
<1>7. AssignerKnows(l)
  BY <1>1, <1>3, <1>5, <1>6 DEF AssignerKnows
<1>8. call' = [call EXCEPT ![c] = l]
  BY <1>1 DEF Lists!ExistingPairs, ListsSafe, Lists!TypeOK
<1>9. QED
  BY <1>2, <1>4, <1>7, <1>8, AssignerReads DEF Lists!ExistingPairs

LEMMA FailSafeAssigner ==
    ASSUME ListsAssumption, ListsSafe, NEW c \in Calls, Lists!Fail(c)
    PROVE  ListsSafe'
<1>1. AssignerKnows(Lists!Idle)
  BY IdleAssigner DEF AssignerKnows
<1>2. QED
  BY <1>1, IdleAssigner, AssignerReads DEF Lists!Fail, Lists!Return, Lists!At, Busy

LEMMA InsertSafe ==
    ASSUME ListsAssumption, ListsSafe, NEW c \in Calls, Lists!InsertAssignments(c)
    PROVE  ListsSafe'
<1>1. PICK rows, wanted : rows = Lists!Missing(c) /\ wanted = Lists!ToAssign(c)
  OBVIOUS
<1>2. /\ call[c].pc = "insert" /\ Busy(c) /\ call[c] \in Lists!CallState /\ AssignerKnows(call[c])
      /\ \A x \in rows : Lists!Exists(x[2]) /\ copies[x] + Lists!Times(c, x) <= MaxCopies
      /\ copies' = [x \in Lists!Pairs |-> IF x \in rows THEN copies[x] + Lists!Times(c, x) ELSE copies[x]]
      /\ promised' = promised \cup {x \in wanted : Lists!Exists(x[2])}
      /\ repeated' = repeated \cup {x \in rows : Lists!Times(c, x) = 2 \/ ~call[c].onlyMissing}
      /\ \A x \in Lists!Pairs : Lists!Times(c, x) \in {1, 2}
      /\ call' = [call EXCEPT ![c] = Lists!Idle]
      /\ UNCHANGED <<group, task, overlap>>
  BY <1>1 DEF Lists!InsertAssignments, Lists!At, Lists!Return, Lists!Times, Busy, ListsSafe, Lists!TypeOK
<1>3. /\ wanted = call[c].employees \X call[c].tasks /\ wanted \subseteq Lists!Pairs
      /\ rows = wanted \ call[c].existing
  BY <1>1, <1>2 DEF Lists!ToAssign, Lists!Missing, Lists!Pairs, Lists!CallState
<1>4. MaxCopies \in Nat /\ copies \in [Lists!Pairs -> 0..MaxCopies]
  BY DEF ListsAssumption, Lists!OnboardingAssumption, ListsSafe, Lists!TypeOK
<1>5. /\ copies' \in [Lists!Pairs -> 0..MaxCopies]
      /\ \A x \in Lists!Pairs : copies'[x] >= copies[x]
  BY <1>2, <1>4
<1>6. Lists!AssignedIsThere'
  <2> SUFFICES ASSUME NEW x \in promised' PROVE copies'[x] >= 1
    BY DEF Lists!AssignedIsThere
  <2>1. CASE x \in promised
    <3>1. copies[x] >= 1 /\ x \in Lists!Pairs
      BY <2>1 DEF ListsSafe, Lists!AssignedIsThere, Lists!TypeOK
    <3>2. QED
      BY <1>4, <1>5, <3>1
  <2>2. CASE x \in rows
    <3>1. x \in Lists!Pairs
      BY <1>3, <2>2
    <3>2. QED
      BY <1>2, <1>4, <2>2, <3>1
  <2>3. CASE x \notin promised /\ x \notin rows
    <3>1. x \in call[c].existing /\ Lists!Exists(x[2]) /\ x \in Lists!Pairs
      BY <1>2, <1>3, <2>3
    <3>2. copies[x] >= 1
      BY <1>2, <3>1 DEF AssignerKnows, Lists!Exists
    <3>3. QED
      BY <1>4, <1>5, <3>1, <3>2
  <2>4. QED
    BY <2>1, <2>2, <2>3
<1>7. Lists!NothingTwice'
  <2> SUFFICES ASSUME ~overlap, NEW x \in Lists!Pairs, copies'[x] > 1 PROVE x \in repeated'
    BY <1>2 DEF Lists!NothingTwice
  <2>1. CASE x \in rows /\ (Lists!Times(c, x) = 2 \/ ~call[c].onlyMissing)
    BY <1>2, <2>1
  <2>2. CASE x \in rows /\ Lists!Times(c, x) # 2 /\ call[c].onlyMissing
    <3>1. copies[x] = 0
      BY <1>2, <1>3, <2>2 DEF AssignerKnows
    <3>2. copies'[x] = 1
      BY <1>2, <2>2, <3>1
    <3>3. QED
      BY <3>2
  <2>3. CASE x \notin rows
    <3>1. copies[x] > 1
      BY <1>2, <2>3
    <3>2. QED
      BY <1>2, <3>1 DEF ListsSafe, Lists!NothingTwice
  <2>4. QED
    BY <2>1, <2>2, <2>3
<1>8. DroppedWithOthers' /\ Lists!DropsAreWhole'
  BY <1>2 DEF ListsSafe, DroppedWithOthers, Lists!DropsAreWhole, Lists!Present, Lists!Exists
<1>9. AssignerKnows(Lists!Idle)'
  BY IdleAssigner DEF AssignerKnows
<1>10. promised' \subseteq Lists!Pairs /\ repeated' \subseteq Lists!Pairs
  BY <1>2, <1>3 DEF ListsSafe, Lists!TypeOK
<1>11. QED
  BY <1>2, <1>5, <1>6, <1>7, <1>8, <1>9, <1>10, IdleAssigner, AssignerAlone, AssignerSafe
     DEF ListsSafe, Lists!TypeOK

\* With the last of its updates a drop puts all its tasks in place, and before it none.
LEMMA MoveSafe ==
    ASSUME ListsAssumption, ListsSafe, NEW c \in Calls, Lists!MoveNext(c)
    PROVE  ListsSafe'
<1>1. PICK items, next, moved, g :
         /\ items = call[c].items /\ next = call[c].moved + 1 /\ g = call[c].group
         /\ moved = Lists!TakesEffect(c)
  OBVIOUS
<1>2. /\ call[c].pc = "drop" /\ Busy(c) /\ call[c] \in Lists!CallState
      /\ task' = [t \in Tasks |-> IF t \in moved /\ Lists!Exists(t)
                                  THEN [group |-> g, drop |-> Lists!ToSet(items),
                                        place |-> CHOOSE i \in DOMAIN items : items[i] = t]
                                  ELSE task[t]]
      /\ IF next = Len(items) THEN call' = [call EXCEPT ![c] = Lists!Idle]
         ELSE call' = [call EXCEPT ![c].moved = next]
      /\ UNCHANGED <<group, copies, overlap, promised, repeated>>
  BY <1>1 DEF Lists!MoveNext, Lists!At, Lists!Return, Busy, ListsSafe, Lists!TypeOK
<1>3. /\ AssignerKnows(call[c]) /\ g \in Groups /\ items \in Seq(Tasks) /\ Len(items) \in Nat
      /\ next \in Nat /\ next <= Len(items) /\ Len(items) <= Cardinality(Tasks)
      /\ call[c].moved \in Nat
  <2>1. call[c].moved \in 0..Lists!Cardinality(Tasks) /\ items \in Seq(Tasks)
    BY <1>1, <1>2 DEF Lists!CallState
  <2>2. AssignerKnows(call[c])
    BY DEF ListsSafe
  <2>3. g \in Groups /\ call[c].moved < Len(items) /\ Len(items) <= Cardinality(Tasks)
    BY <1>1, <1>2, <2>2 DEF AssignerKnows
  <2>4. QED
    BY <1>1, <2>1, <2>2, <2>3, CountOfTasks, LenProperties
<1>4. moved = IF next = Len(items) THEN Lists!ToSet(items) ELSE {}
  BY <1>1 DEF Lists!TakesEffect
<1>5. DOMAIN items = 1..Len(items) /\ \A i \in 1..Len(items) : items[i] \in Tasks
  BY <1>3, LenProperties, ElementOfSeq
<1>6. Lists!ToSet(items) = {items[i] : i \in 1..Len(items)} /\ Lists!ToSet(items) \subseteq Tasks
  BY <1>5 DEF Lists!ToSet
<1>7. ASSUME NEW t \in moved, Lists!Exists(t)
      PROVE  /\ t \in Tasks /\ task'[t] \in Lists!Task /\ task'[t].drop = Lists!ToSet(items)
             /\ task'[t].place \in 1..Len(items) /\ items[task'[t].place] = t
  <2>1. t \in Lists!ToSet(items)
    BY <1>4, <1>7
  <2>2. PICK place : place = CHOOSE i \in DOMAIN items : items[i] = t
    OBVIOUS
  <2>3. place \in 1..Len(items) /\ items[place] = t /\ t \in Tasks
    BY <1>5, <1>6, <2>1, <2>2
  <2>4. place \in 0..Lists!Cardinality(Tasks)
    BY <1>3, <2>3, CountOfTasks
  <2>5. task'[t] = [group |-> g, drop |-> Lists!ToSet(items), place |-> place]
    BY <1>2, <1>7, <2>2, <2>3
  <2>6. [group |-> g, drop |-> Lists!ToSet(items), place |-> place] \in Lists!Task
    BY <1>3, <1>6, <2>4 DEF Lists!Task
  <2>7. QED
    BY <2>3, <2>5, <2>6
<1>8. ASSUME NEW t \in Tasks, t \notin moved \/ ~Lists!Exists(t) PROVE task'[t] = task[t]
  BY <1>2, <1>8
<1>9. task' \in [Tasks -> Lists!Task \cup {Null, Gone}]
  BY <1>2, <1>7, <1>8 DEF ListsSafe, Lists!TypeOK
<1>10. \A t \in Tasks : (task'[t] = Gone <=> task[t] = Gone) /\ (t \in Lists!Present' <=> t \in Lists!Present)
  BY <1>7, <1>8 DEF Lists!Present, Lists!Exists, ListsAssumption, Lists!OnboardingAssumption
<1>11. DroppedWithOthers'
  BY <1>4, <1>7, <1>8, <1>10 DEF ListsSafe, DroppedWithOthers, Lists!Present
<1>12. Lists!DropsAreWhole'
  <2> SUFFICES ASSUME NEW t \in Lists!Present', NEW u \in Lists!Present', t # u,
                      task'[t].drop = task'[u].drop, task'[t].drop # {}
               PROVE  task'[t].place # task'[u].place
    BY DEF Lists!DropsAreWhole
  <2>1. t \in Lists!Present /\ u \in Lists!Present /\ t \in Tasks /\ u \in Tasks
    BY <1>10 DEF Lists!Present
  <2>2. Lists!Exists(t) /\ Lists!Exists(u)
    BY <2>1 DEF Lists!Present
  <2>3. CASE t \in moved /\ u \in moved
    BY <1>7, <2>2, <2>3
  <2>4. CASE t \notin moved /\ u \notin moved
    BY <1>8, <2>1, <2>4 DEF ListsSafe, Lists!DropsAreWhole
  <2>5. CASE t \in moved /\ u \notin moved
    <3>1. task'[u] = task[u] /\ task'[t].drop = moved
      BY <1>4, <1>7, <1>8, <2>1, <2>2, <2>5
    <3>2. u \in task[u].drop
      BY <2>1, <3>1 DEF ListsSafe, DroppedWithOthers
    <3>3. QED
      BY <2>5, <3>1, <3>2
  <2>6. CASE t \notin moved /\ u \in moved
    <3>1. task'[t] = task[t] /\ task'[u].drop = moved
      BY <1>4, <1>7, <1>8, <2>1, <2>2, <2>6
    <3>2. t \in task[t].drop
      BY <2>1, <3>1 DEF ListsSafe, DroppedWithOthers
    <3>3. QED
      BY <2>6, <3>1, <3>2
  <2>7. QED
    BY <2>3, <2>4, <2>5, <2>6
<1>13. Lists!AssignedIsThere' /\ Lists!NothingTwice' /\ \A x \in Lists!Pairs : copies'[x] >= copies[x]
  BY <1>2 DEF ListsSafe, Lists!AssignedIsThere, Lists!NothingTwice, Lists!TypeOK
<1>14. PICK l : l = IF next = Len(items) THEN Lists!Idle ELSE [call[c] EXCEPT !.moved = next]
  OBVIOUS
<1>15. call' = [call EXCEPT ![c] = l]
  BY <1>2, <1>14 DEF ListsSafe, Lists!TypeOK
<1>16. l \in Lists!CallState
  <2>1. next \in 0..Lists!Cardinality(Tasks)
    BY <1>3, CountOfTasks
  <2>2. QED
    BY <1>2, <1>14, <2>1, IdleAssigner DEF Lists!CallState
<1>17. AssignerKnows(l)'
  <2>1. CASE next = Len(items)
    BY <1>14, <2>1, IdleAssigner DEF AssignerKnows
  <2>2. CASE next # Len(items)
    <3>1. /\ l.pc = "drop" /\ l.group = g /\ l.items = items /\ l.moved = next
          /\ l.existing = call[c].existing
      BY <1>1, <1>2, <1>14, <2>2 DEF Lists!CallState
    <3>2. next < Len(items)
      BY <1>3, <2>2
    <3>3. ASSUME NEW x \in call[c].existing PROVE copies'[x] >= 1 \/ task'[x[2]] = Gone
      <4>1. x[2] \in Tasks
        BY <1>2 DEF Lists!CallState, Lists!Pairs
      <4>2. QED
        BY <1>2, <1>3, <1>10, <4>1 DEF AssignerKnows
    <3>4. QED
      BY <1>3, <3>1, <3>2, <3>3 DEF AssignerKnows
  <2>3. QED
    BY <2>1, <2>2
<1>18. QED
  BY <1>2, <1>9, <1>10, <1>11, <1>12, <1>13, <1>15, <1>16, <1>17, AssignerAlone, AssignerSafe
     DEF ListsSafe, Lists!TypeOK

\* The template: what is assigned of a task goes with it.
LEMMA CreateSafe ==
    ASSUME ListsAssumption, ListsSafe,
           \/ \E g \in Groups : Lists!CreateGroup(g)
           \/ \E t \in Tasks, g \in Groups : Lists!CreateTask(t, g)
    PROVE  ListsSafe'
<1>1. CASE \E g \in Groups : Lists!CreateGroup(g)
  <2>1. /\ UNCHANGED <<task, copies, call, overlap, promised, repeated>>
        /\ group' \subseteq Groups
    BY <1>1 DEF Lists!CreateGroup, ListsSafe, Lists!TypeOK
  <2>2. QED
    BY <2>1 DEF ListsSafe, Lists!TypeOK, InTurn, Busy, AssignerKnows, DroppedWithOthers,
       Lists!AssignedIsThere, Lists!NothingTwice, Lists!DropsAreWhole, Lists!Present, Lists!Exists
<1>2. ASSUME NEW t \in Tasks, NEW g \in Groups, Lists!CreateTask(t, g) PROVE ListsSafe'
  <2>1. PICK row : row = [group |-> g, place |-> 0, drop |-> {}]
    OBVIOUS
  <2>2. row \in Lists!Task /\ row.drop = {} /\ row \notin {Null, Gone}
    <3>1. 0 \in 0..Lists!Cardinality(Tasks)
      BY CountOfTasks
    <3>2. QED
      BY <2>1, <3>1 DEF Lists!Task, ListsAssumption, Lists!OnboardingAssumption
  <2>3. /\ task[t] = Null /\ task' = [task EXCEPT ![t] = row]
        /\ UNCHANGED <<group, copies, call, overlap, promised, repeated>>
    BY <1>2, <2>1 DEF Lists!CreateTask
  <2>4. /\ task' \in [Tasks -> Lists!Task \cup {Null, Gone}]
        /\ \A u \in Tasks : task'[u] = IF u = t THEN row ELSE task[u]
        /\ \A u \in Tasks : task[u] = Gone => task'[u] = Gone
    BY <2>2, <2>3 DEF ListsSafe, Lists!TypeOK, ListsAssumption, Lists!OnboardingAssumption
  <2>5. ASSUME NEW u \in Lists!Present', u # t PROVE u \in Lists!Present /\ task'[u] = task[u]
    BY <2>4, <2>5 DEF Lists!Present, Lists!Exists
  <2>6. DroppedWithOthers' /\ Lists!DropsAreWhole'
    BY <2>2, <2>4, <2>5 DEF ListsSafe, DroppedWithOthers, Lists!DropsAreWhole, Lists!Present
  <2>7. ASSUME NEW d \in Calls PROVE AssignerKnows(call[d])'
    <3>1. AssignerKnows(call[d]) /\ call[d] \in Lists!CallState
      BY DEF ListsSafe, Lists!TypeOK
    <3>2. \A x \in call[d].existing : x[2] \in Tasks
      BY <3>1 DEF Lists!CallState, Lists!Pairs
    <3>3. QED
      BY <2>3, <2>4, <3>1, <3>2 DEF AssignerKnows
  <2>8. QED
    BY <2>3, <2>4, <2>6, <2>7 DEF ListsSafe, Lists!TypeOK, InTurn, Busy,
       Lists!AssignedIsThere, Lists!NothingTwice
<1>3. QED
  BY <1>1, <1>2

LEMMA DeleteSafe ==
    ASSUME ListsAssumption, ListsSafe, NEW gone \in SUBSET Tasks, Lists!Delete(gone), group' \subseteq Groups
    PROVE  ListsSafe'
<1>1. /\ \A t \in Tasks : task'[t] = IF t \in gone THEN Gone ELSE task[t]
      /\ task' \in [Tasks -> Lists!Task \cup {Null, Gone}]
      /\ UNCHANGED <<call, overlap>>
  BY DEF Lists!Delete, ListsSafe, Lists!TypeOK
<1>2. /\ \A x \in Lists!Pairs : copies'[x] = IF x[2] \in gone THEN 0 ELSE copies[x]
      /\ copies' \in [Lists!Pairs -> 0..MaxCopies]
  BY DEF Lists!Delete, ListsSafe, Lists!TypeOK, ListsAssumption, Lists!OnboardingAssumption
<1>3. /\ \A x \in promised' : x \in promised /\ x[2] \notin gone
      /\ \A x \in repeated : x[2] \notin gone => x \in repeated'
      /\ promised' \subseteq Lists!Pairs /\ repeated' \subseteq Lists!Pairs
  BY DEF Lists!Delete, ListsSafe, Lists!TypeOK
<1>4. \A t \in Lists!Present' : t \in Lists!Present /\ task'[t] = task[t]
  BY <1>1 DEF Lists!Present, Lists!Exists
<1>5. DroppedWithOthers' /\ Lists!DropsAreWhole'
  BY <1>4 DEF ListsSafe, DroppedWithOthers, Lists!DropsAreWhole
<1>6. Lists!AssignedIsThere' /\ Lists!NothingTwice'
  BY <1>1, <1>2, <1>3 DEF ListsSafe, Lists!TypeOK, Lists!AssignedIsThere, Lists!NothingTwice
<1>7. ASSUME NEW d \in Calls PROVE AssignerKnows(call[d])'
  <2>1. AssignerKnows(call[d]) /\ call[d] \in Lists!CallState
    BY DEF ListsSafe, Lists!TypeOK
  <2>2. ASSUME NEW x \in call[d].existing PROVE copies'[x] >= 1 \/ task'[x[2]] = Gone
    <3>1. x \in Lists!Pairs /\ x[2] \in Tasks
      BY <2>1 DEF Lists!CallState, Lists!Pairs
    <3>2. QED
      BY <1>1, <1>2, <2>1, <3>1 DEF AssignerKnows
  <2>3. ASSUME ~overlap, call[d].pc = "insert", call[d].onlyMissing,
               NEW x \in (call[d].employees \X call[d].tasks) \ call[d].existing
        PROVE  copies'[x] = 0
    <3>1. x \in Lists!Pairs
      BY <2>1 DEF Lists!CallState, Lists!Pairs
    <3>2. QED
      BY <1>2, <2>1, <2>3, <3>1 DEF AssignerKnows
  <2>4. QED
    BY <1>1, <2>1, <2>2, <2>3 DEF AssignerKnows
<1>8. QED
  BY <1>1, <1>2, <1>3, <1>5, <1>6, <1>7 DEF ListsSafe, Lists!TypeOK, InTurn, Busy

LEMMA ListsStep ==
    ASSUME ListsAssumption
    PROVE  ListsSafe /\ [Lists!Next]_Lists!vars => ListsSafe'
<1> SUFFICES ASSUME ListsSafe, [Lists!Next]_Lists!vars PROVE ListsSafe'
  OBVIOUS
<1>1. CASE UNCHANGED Lists!vars
  <2>1. UNCHANGED <<group, task, copies, call, overlap, promised, repeated>>
    BY <1>1 DEF Lists!vars
  <2>2. QED
    BY <2>1 DEF ListsSafe, Lists!TypeOK, InTurn, Busy, AssignerKnows, DroppedWithOthers,
       Lists!AssignedIsThere, Lists!NothingTwice, Lists!DropsAreWhole, Lists!Present, Lists!Exists
<1>2. ASSUME NEW t \in Tasks, Lists!DeleteTask(t) PROVE ListsSafe'
  <2>1. Lists!Delete({t}) /\ {t} \in SUBSET Tasks /\ group' \subseteq Groups
    BY <1>2 DEF Lists!DeleteTask, ListsSafe, Lists!TypeOK
  <2>2. QED
    BY <2>1, DeleteSafe
<1>3. ASSUME NEW g \in Groups, Lists!DeleteGroup(g) PROVE ListsSafe'
  <2>1. PICK gone \in SUBSET Tasks : Lists!Delete(gone)
    BY <1>3 DEF Lists!DeleteGroup, Lists!Present
  <2>2. group' \subseteq Groups
    BY <1>3 DEF Lists!DeleteGroup, ListsSafe, Lists!TypeOK
  <2>3. QED
    BY <2>1, <2>2, DeleteSafe
<1>4. CASE \/ \E g \in Groups : Lists!CreateGroup(g)
           \/ \E t \in Tasks, g \in Groups : Lists!CreateTask(t, g)
  BY <1>4, CreateSafe
<1>5. ASSUME NEW c \in Calls, NEW shown \in (SUBSET Lists!Present) \ {{}}, NEW g \in group,
             NEW items \in Lists!SetToSeqs(shown), Lists!ReorderTasks(c, items, g)
      PROVE  ListsSafe'
  BY <1>5, ReorderSafe
<1>6. ASSUME NEW c \in Calls, NEW employees \in SUBSET Newcomers, NEW picked \in SUBSET Tasks,
             NEW listed \in Lists!Listings, NEW twice \in SUBSET employees, NEW onlyMissing \in BOOLEAN,
             Lists!ListTasks(c, employees, twice, picked, listed, onlyMissing)
      PROVE  ListsSafe'
  BY <1>6, ListTasksSafe
<1>7. ASSUME NEW c \in Calls,
             Lists!MoveNext(c) \/ Lists!ExistingPairs(c) \/ Lists!InsertAssignments(c) \/ Lists!Fail(c)
      PROVE  ListsSafe'
  BY <1>7, MoveSafe, ExistingSafe, InsertSafe, FailSafeAssigner
<1>8. QED
  BY <1>1, <1>2, <1>3, <1>4, <1>5, <1>6, <1>7 DEF Lists!Next

-----------------------------------------------------------------------------
(* Messaging *)

MessagesAssumption == G!MessagingAssumption /\ IsFiniteSet(Talkers)

\* What a handler with the locals p has done so far.
Two(people) == \E u, v \in people : u # v
TalkerKnows(p) ==
    /\ p.pc \in {"idle", "create", "members"} => p.message = 0
    /\ p.pc \in {"create", "members"} /\ p.kind = "dm" => Two(p.people)
    /\ p.pc = "members" =>
          /\ p.in \in DOMAIN conversation
          /\ conversation[p.in].kind = p.kind /\ conversation[p.in].members = {}
    /\ p.pc \in {"read", "others", "emit"} =>
          /\ p.message \in DOMAIN message /\ message[p.message].in = p.in /\ message[p.message].sender = p.user
          /\ G!IsMember(p.in, p.user) /\ due[p.message] \subseteq conversation[p.in].members
    /\ p.pc = "emit" =>
          /\ p.people \subseteq G!Others(p.in, p.user)
          /\ \A u \in due[p.message] \ {p.user} : u \in p.people \/ p.message \in heard[u]

OthersIdle == \A c \in Talkers \ world.calls : chat[c].pc = "idle"
OwnRow ==
    \A c, d \in Talkers :
        G!At(c, "members") /\ G!At(d, "members") /\ chat[c].in = chat[d].in => c = d

\* A direct message has its members all at once, two or more.
TwoInDm == \A k \in G!Dms : conversation[k].members = {} \/ Two(conversation[k].members)

\* Where handlers do not overlap, what is not yet marked as read by its sender is the
\* newest message, and all others that they sent are.
NewestUnmarked ==
    ~G!Overlap => \A c \in Talkers : G!At(c, "read") => chat[c].message = Len(message)
OwnIsRead ==
    ~G!Overlap => \A own \in DOMAIN message :
        \/ <<message[own].in, message[own].sender>> \in back
        \/ own <= marker[message[own].in, message[own].sender]
        \/ \E c \in Talkers : G!At(c, "read") /\ chat[c].message = own

ToldOfMessages == \A u \in Users : \A m \in heard[u] : m \in DOMAIN message

TalkSafe ==
    /\ G!TypeOK /\ (\A c \in Talkers : TalkerKnows(chat[c])) /\ OthersIdle /\ OwnRow /\ TwoInDm
    /\ NewestUnmarked /\ OwnIsRead /\ ToldOfMessages
    /\ G!EveryoneIsTold /\ G!OnlyMembersAreTold

\* What every step keeps: rows, their senders and members, and what users are told.
TalkGrows ==
    /\ \A k \in DOMAIN conversation :
          /\ k \in DOMAIN conversation' /\ conversation'[k].kind = conversation[k].kind
          /\ conversation[k].members \subseteq conversation'[k].members
    /\ \A m \in DOMAIN message :
          m \in DOMAIN message' /\ message'[m] = message[m] /\ due'[m] \subseteq due[m]
    /\ \A u \in Users : heard[u] \subseteq heard'[u]

LEMMA IdleTalker ==
    ASSUME MessagesAssumption
    PROVE  G!Idle \in G!CallState /\ G!Idle.pc = "idle" /\ G!Idle.message = 0
BY DEF G!Idle, G!CallState, MessagesAssumption, G!MessagingAssumption

LEMMA MarkerIs ==
    ASSUME MessagesAssumption, G!TypeOK, NEW k \in 1..MaxConversations, NEW u \in Users
    PROVE  marker[k, u] \in Nat
<1>1. <<k, u>> \in (1..MaxConversations) \X Users
  OBVIOUS
<1>2. PICK at : at = <<k, u>>
  OBVIOUS
<1>3. marker[at] \in 0..MaxMessages /\ MaxMessages \in Nat
  BY <1>1, <1>2 DEF G!TypeOK, G!Marker, MessagesAssumption, G!MessagingAssumption
<1>4. marker[at] \in Nat
  BY <1>3
<1>5. QED
  BY <1>2, <1>4

LEMMA TalkInit == ASSUME MessagesAssumption PROVE G!Init => TalkSafe
<1> SUFFICES ASSUME G!Init PROVE TalkSafe
  OBVIOUS
<1>1. G!TypeOK
  BY IdleTalker, EmptySeq
     DEF G!Init, G!TypeOK, G!Marker, MessagesAssumption, G!MessagingAssumption
<1>2. DOMAIN message = {} /\ DOMAIN conversation = {}
  BY DEF G!Init
<1>3. /\ \A c \in Talkers : TalkerKnows(chat[c])
      /\ OthersIdle /\ OwnRow /\ NewestUnmarked /\ ToldOfMessages
  BY IdleTalker DEF G!Init, TalkerKnows, OthersIdle, OwnRow, NewestUnmarked, ToldOfMessages, G!At
<1>4. TwoInDm /\ OwnIsRead /\ G!EveryoneIsTold /\ G!OnlyMembersAreTold
  BY <1>2 DEF G!Init, TwoInDm, G!Dms, OwnIsRead, G!EveryoneIsTold, G!OnlyMembersAreTold
<1>5. QED
  BY <1>1, <1>3, <1>4 DEF TalkSafe

\* Rows and lengths of what is there.
LEMMA TalkRows ==
    ASSUME TalkSafe
    PROVE  /\ conversation \in Seq(G!Conversation) /\ message \in Seq(G!Message)
           /\ Len(conversation) \in Nat /\ DOMAIN conversation = 1..Len(conversation)
           /\ Len(message) \in Nat /\ DOMAIN message = 1..Len(message)
           /\ due \in Seq(SUBSET Users) /\ DOMAIN due = DOMAIN message /\ Len(due) = Len(message)
           /\ \A k \in DOMAIN conversation : conversation[k] \in G!Conversation
           /\ \A m \in DOMAIN message : message[m] \in G!Message /\ due[m] \in SUBSET Users
<1>1. /\ conversation \in Seq(G!Conversation) /\ message \in Seq(G!Message)
      /\ due \in Seq(SUBSET Users) /\ Len(due) = Len(message)
  BY DEF TalkSafe, G!TypeOK
<1>2. /\ Len(conversation) \in Nat /\ DOMAIN conversation = 1..Len(conversation)
      /\ Len(message) \in Nat /\ DOMAIN message = 1..Len(message) /\ DOMAIN due = 1..Len(due)
  BY <1>1, LenProperties
<1>3. QED
  BY <1>1, <1>2, ElementOfSeq

\* Where handlers do not overlap there is one.
LEMMA OneTalks ==
    ASSUME MessagesAssumption, TalkSafe, ~G!Overlap, NEW c \in world.calls
    PROVE  \A d \in Talkers : d # c => chat[d].pc = "idle"
<1>1. world.calls \subseteq Talkers /\ IsFiniteSet(world.calls)
  <2>1. world.calls \in SUBSET Talkers
    BY DEF TalkSafe, G!TypeOK, MessagesAssumption, G!MessagingAssumption
  <2>2. QED
    BY <2>1, FS_Subset DEF MessagesAssumption
<1>2. Cardinality(world.calls) <= 1
  <2>1. G!Cardinality(world.calls) = Cardinality(world.calls)
    BY DEF G!Cardinality, Cardinality
  <2>2. Cardinality(world.calls) \in Nat
    BY <1>1, FS_CardinalityType
  <2>3. QED
    BY <2>1, <2>2 DEF G!Overlap
<1>3. ASSUME NEW d \in world.calls, d # c PROVE FALSE
  <2>1. {c, d} \in SUBSET world.calls
    BY <1>3
  <2>2. Cardinality({c, d}) <= Cardinality(world.calls)
    BY <1>1, <2>1, FS_Subset
  <2>3. IsFiniteSet({c}) /\ Cardinality({c}) = 1
    BY FS_Singleton
  <2>4. Cardinality({c} \cup {d}) = 2
    <3>1. PICK S : S = {c}
      OBVIOUS
    <3>2. IsFiniteSet(S) /\ Cardinality(S) = 1 /\ d \notin S
      BY <1>3, <2>3, <3>1
    <3>3. Cardinality(S \cup {d}) = Cardinality(S) + 1
      BY <3>2, FS_AddElement
    <3>4. QED
      BY <3>1, <3>2, <3>3
  <2>5. {c, d} = {c} \cup {d}
    OBVIOUS
  <2>6. Cardinality(world.calls) \in Nat
    BY <1>1, FS_CardinalityType
  <2>7. QED
    BY <1>2, <2>2, <2>4, <2>5, <2>6
<1>4. QED
  BY <1>3 DEF TalkSafe, OthersIdle

LEMMA TalkerKept ==
    ASSUME TalkSafe, NEW p \in G!CallState, TalkerKnows(p), TalkGrows,
           p.pc = "members" => conversation'[p.in].members = {}
    PROVE  TalkerKnows(p)'
<1>1. p.pc = "members" =>
         p.in \in DOMAIN conversation' /\ conversation'[p.in].kind = p.kind
  BY DEF TalkerKnows, TalkGrows
<1>2. p.pc \in {"read", "others", "emit"} =>
         /\ p.message \in DOMAIN message' /\ message'[p.message].in = p.in /\ message'[p.message].sender = p.user
         /\ p.in \in DOMAIN conversation' /\ p.user \in conversation'[p.in].members
         /\ due'[p.message] \subseteq conversation'[p.in].members
  BY DEF TalkerKnows, TalkGrows, G!IsMember
<1>3. p.pc = "emit" =>
         /\ p.people \subseteq conversation'[p.in].members \ {p.user}
         /\ \A u \in due'[p.message] \ {p.user} : u \in p.people \/ p.message \in heard'[u]
  <2>1. SUFFICES ASSUME p.pc = "emit"
                 PROVE  /\ p.people \subseteq conversation'[p.in].members \ {p.user}
                        /\ \A u \in due'[p.message] \ {p.user} : u \in p.people \/ p.message \in heard'[u]
    OBVIOUS
  <2>2. /\ p.people \subseteq conversation[p.in].members \ {p.user}
        /\ p.in \in DOMAIN conversation /\ p.message \in DOMAIN message
        /\ \A u \in due[p.message] \ {p.user} : u \in p.people \/ p.message \in heard[u]
    BY <2>1 DEF TalkerKnows, G!Others, G!IsMember
  <2>3. ASSUME NEW u \in due'[p.message] \ {p.user} PROVE u \in p.people \/ p.message \in heard'[u]
    <3>1. u \in due[p.message] \ {p.user}
      BY <2>2, <2>3 DEF TalkGrows
    <3>2. u \in Users
      BY <2>2, <3>1, TalkRows
    <3>3. QED
      BY <2>2, <3>1, <3>2 DEF TalkGrows
  <2>4. QED
    BY <2>2, <2>3 DEF TalkGrows
<1>4. QED
  BY <1>1, <1>2, <1>3 DEF TalkerKnows, G!IsMember, G!Others

\* What is to be shown of a step: one handler moves, or none.
LEMMA TalkGlue ==
    ASSUME MessagesAssumption, TalkSafe, G!TypeOK', world' = world, TalkGrows,
           NEW C \in SUBSET world.calls,
           \A d \in Talkers \ C : chat'[d] = chat[d],
           \A c \in C : TalkerKnows(chat[c])',
           \A d \in Talkers \ C : chat[d].pc = "members" => conversation'[chat[d].in].members = {},
           OwnRow', TwoInDm', NewestUnmarked', OwnIsRead',
           \A u \in Users : \A m \in heard'[u] : m \in heard[u] \/
               /\ m \in DOMAIN message' /\ message'[m].in \in DOMAIN conversation'
               /\ u \in conversation'[message'[m].in].members /\ message'[m].sender # u,
           \A m \in DOMAIN message' :
               /\ \A c \in C : chat'[c].message # m
               /\ m \notin DOMAIN message \/ \E c \in C : chat[c].message = m
               => \A u \in due'[m] \ {message'[m].sender} : m \in heard'[u]
    PROVE  TalkSafe'
<1>1. ASSUME NEW d \in Talkers PROVE TalkerKnows(chat[d])'
  <2>1. CASE d \in C
    BY <2>1
  <2>2. CASE d \notin C
    <3>1. PICK p : p = chat[d]
      OBVIOUS
    <3>2. p \in G!CallState /\ TalkerKnows(p)
      BY <3>1 DEF TalkSafe, G!TypeOK
    <3>3. p.pc = "members" => conversation'[p.in].members = {}
      BY <2>2, <3>1
    <3>4. TalkerKnows(p)'
      BY <3>2, <3>3, TalkerKept
    <3>5. chat'[d] = p
      BY <2>2, <3>1
    <3>6. QED
      BY <3>4, <3>5
  <2>3. QED
    BY <2>1, <2>2
<1>2. OthersIdle'
  BY DEF TalkSafe, OthersIdle
<1>3. ToldOfMessages'
  BY DEF TalkSafe, ToldOfMessages, TalkGrows
<1>4. G!OnlyMembersAreTold'
  <2>1. SUFFICES ASSUME NEW u \in Users, NEW m \in heard'[u]
                 PROVE  /\ message'[m].in \in DOMAIN conversation'
                        /\ u \in conversation'[message'[m].in].members /\ message'[m].sender # u
    BY DEF G!OnlyMembersAreTold, G!IsMember
  <2>2. CASE m \in heard[u]
    <3>1. m \in DOMAIN message /\ message[m].in \in DOMAIN conversation
          /\ u \in conversation[message[m].in].members /\ message[m].sender # u
      BY <2>2 DEF TalkSafe, ToldOfMessages, G!OnlyMembersAreTold, G!IsMember
    <3>2. message'[m] = message[m]
      BY <3>1 DEF TalkGrows
    <3>3. QED
      BY <3>1, <3>2 DEF TalkGrows
  <2>3. QED
    BY <2>2
<1>5. G!EveryoneIsTold'
  <2>1. SUFFICES ASSUME NEW m \in DOMAIN message', \A d \in Talkers : chat'[d].message # m
                 PROVE  \A u \in due'[m] \ {message'[m].sender} : m \in heard'[u]
    BY DEF G!EveryoneIsTold
  <2>2. C \subseteq Talkers
    BY DEF TalkSafe, G!TypeOK, MessagesAssumption, G!MessagingAssumption
  <2>3. CASE m \in DOMAIN message /\ \A c \in C : chat[c].message # m
    <3>1. \A d \in Talkers : chat[d].message # m
      BY <2>1, <2>3
    <3>2. \A u \in due[m] \ {message[m].sender} : m \in heard[u]
      BY <2>3, <3>1 DEF TalkSafe, G!EveryoneIsTold
    <3>3. due[m] \subseteq Users /\ due'[m] \subseteq due[m] /\ message'[m] = message[m]
      BY <2>3, TalkRows DEF TalkGrows
    <3>4. QED
      BY <3>2, <3>3 DEF TalkGrows
  <2>4. QED
    BY <2>1, <2>2, <2>3
<1>6. QED
  BY <1>1, <1>2, <1>3, <1>4, <1>5 DEF TalkSafe

\* Of a step that writes no message and moves no marker.
LEMMA UpToKept ==
    ASSUME TalkSafe, world' = world, message' = message, marker' = marker,
           back \subseteq back',
           \A d \in Talkers : chat'[d].pc = "read" => chat'[d] = chat[d],
           \A d \in Talkers : chat[d].pc = "read" =>
               chat'[d] = chat[d] \/ <<chat[d].in, chat[d].user>> \in back'
    PROVE  NewestUnmarked' /\ OwnIsRead'
<1>1. NewestUnmarked'
  BY DEF TalkSafe, NewestUnmarked, G!Overlap, G!At
<1>2. ASSUME ~G!Overlap, NEW own \in DOMAIN message
      PROVE  \/ <<message[own].in, message[own].sender>> \in back'
             \/ own <= marker[message[own].in, message[own].sender]
             \/ \E c \in Talkers : chat'[c].pc = "read" /\ chat'[c].message = own
  <2>1. \/ <<message[own].in, message[own].sender>> \in back
        \/ own <= marker[message[own].in, message[own].sender]
        \/ \E c \in Talkers : chat[c].pc = "read" /\ chat[c].message = own
    BY <1>2 DEF TalkSafe, OwnIsRead, G!At
  <2>2. ASSUME NEW c \in Talkers, chat[c].pc = "read", chat[c].message = own
        PROVE  \/ <<message[own].in, message[own].sender>> \in back'
               \/ chat'[c].pc = "read" /\ chat'[c].message = own
    <3>1. message[own].in = chat[c].in /\ message[own].sender = chat[c].user
      BY <2>2 DEF TalkSafe, TalkerKnows
    <3>2. QED
      BY <2>2, <3>1
  <2>3. QED
    BY <2>1, <2>2
<1>3. OwnIsRead'
  BY <1>2 DEF OwnIsRead, G!Overlap, G!At
<1>4. QED
  BY <1>1, <1>3

\* Where handlers come to no row, and none gets one, rows stay their own.
LEMMA OwnRowKept ==
    ASSUME TalkSafe, \A d \in Talkers : chat'[d].pc = "members" => chat'[d] = chat[d]
    PROVE  OwnRow'
BY DEF TalkSafe, OwnRow, G!At

\* A step of the handler c, which has the locals q after it.
LEMMA TalkStep ==
    ASSUME MessagesAssumption, TalkSafe, G!TypeOK', world' = world, TalkGrows,
           NEW c \in world.calls, NEW q \in G!CallState, chat' = [chat EXCEPT ![c] = q],
           TalkerKnows(q)',
           \A d \in Talkers \ {c} : chat[d].pc = "members" => conversation'[chat[d].in].members = {},
           OwnRow', TwoInDm', NewestUnmarked', OwnIsRead',
           \A u \in Users : \A m \in heard'[u] : m \in heard[u] \/
               /\ m \in DOMAIN message' /\ message'[m].in \in DOMAIN conversation'
               /\ u \in conversation'[message'[m].in].members /\ message'[m].sender # u,
           \A m \in DOMAIN message' :
               q.message # m /\ (m \notin DOMAIN message \/ chat[c].message = m)
               => \A u \in due'[m] \ {message'[m].sender} : m \in heard'[u]
    PROVE  TalkSafe'
<1> DEFINE C == {c}
<1>1. C \in SUBSET world.calls /\ c \in Talkers
  BY DEF TalkSafe, G!TypeOK, MessagesAssumption, G!MessagingAssumption
<1>2. chat'[c] = q /\ \A d \in Talkers \ C : chat'[d] = chat[d]
  BY <1>1 DEF TalkSafe, G!TypeOK
<1>3. \A d \in C : TalkerKnows(chat[d])'
  <2>1. TalkerKnows(chat[c])'
    BY <1>2
  <2>2. QED
    BY <2>1
<1>4. \A d \in Talkers \ C : chat[d].pc = "members" => conversation'[chat[d].in].members = {}
  OBVIOUS
<1>5. \A m \in DOMAIN message' :
         /\ \A d \in C : chat'[d].message # m
         /\ m \notin DOMAIN message \/ \E d \in C : chat[d].message = m
         => \A u \in due'[m] \ {message'[m].sender} : m \in heard'[u]
  BY <1>2
<1>6. \A d \in Talkers \ C : chat'[d] = chat[d]
  BY <1>2
<1> HIDE DEF C
<1>7. QED
  BY <1>1, <1>3, <1>4, <1>5, <1>6, TalkGlue, Zenon

\* A step of a handler that writes no message and tells nobody.
LEMMA QuietStep ==
    ASSUME MessagesAssumption, TalkSafe, G!TypeOK', world' = world, TalkGrows,
           NEW c \in world.calls, NEW q \in G!CallState, chat' = [chat EXCEPT ![c] = q],
           TalkerKnows(q)', message' = message, heard' = heard,
           \A d \in Talkers \ {c} : chat[d].pc = "members" => conversation'[chat[d].in].members = {},
           OwnRow', TwoInDm', NewestUnmarked', OwnIsRead',
           q.message = chat[c].message \/ chat[c].message = 0 \/
               \A u \in due'[chat[c].message] \ {message[chat[c].message].sender} :
                   chat[c].message \in heard[u]
    PROVE  TalkSafe'
<1>1. \A u \in Users : \A m \in heard'[u] : m \in heard[u] \/
               /\ m \in DOMAIN message' /\ message'[m].in \in DOMAIN conversation'
               /\ u \in conversation'[message'[m].in].members /\ message'[m].sender # u
  OBVIOUS
<1>2. \A m \in DOMAIN message' :
         q.message # m /\ (m \notin DOMAIN message \/ chat[c].message = m)
         => \A u \in due'[m] \ {message'[m].sender} : m \in heard'[u]
  BY TalkRows
<1>3. QED
  BY <1>1, <1>2, TalkStep, Zenon

\* A handler at work is one of Calls, with locals it knows about.
LEMMA TalkerIs ==
    ASSUME MessagesAssumption, TalkSafe, NEW c \in world.calls
    PROVE  /\ c \in Talkers /\ chat[c] \in G!CallState /\ TalkerKnows(chat[c])
           /\ chat \in [Talkers -> G!CallState]
           /\ world.calls \subseteq Talkers /\ world.users \subseteq Users
           /\ \A d \in Talkers : chat[d].pc = "members" => conversation[chat[d].in].members = {}
           /\ world.conversations \in Nat /\ world.conversations <= MaxConversations
           /\ world.messages \in Nat /\ world.messages <= MaxMessages
<1>1. /\ chat \in [Talkers -> G!CallState] /\ world \in Worlds
      /\ \A d \in Talkers : TalkerKnows(chat[d])
  BY DEF TalkSafe, G!TypeOK
<1>2. /\ world.calls \subseteq Talkers /\ world.users \subseteq Users
      /\ world.conversations \in 0..MaxConversations /\ world.messages \in 0..MaxMessages
      /\ MaxConversations \in Nat /\ MaxMessages \in Nat
  BY <1>1 DEF MessagesAssumption, G!MessagingAssumption
<1>3. \A d \in Talkers : chat[d].pc = "members" => conversation[chat[d].in].members = {}
  BY <1>1 DEF TalkerKnows
<1>4. QED
  BY <1>1, <1>2, <1>3

\* createConversation: the handler has all that are named, of a direct message two.
LEMMA ProveCreate ==
    ASSUME MessagesAssumption, TalkSafe, NEW c \in world.calls, NEW q \in G!CallState,
           chat[c].pc = "idle", chat' = [chat EXCEPT ![c] = q],
           q.pc = "create", q.message = 0, q.kind = "dm" => Two(q.people),
           UNCHANGED <<conversation, message, marker, heard, world, due, back>>
    PROVE  TalkSafe'
<1>1. /\ G!TypeOK' /\ TalkGrows /\ TwoInDm'
      /\ chat'[c] = q /\ \A d \in Talkers \ {c} : chat'[d] = chat[d]
  BY TalkerIs DEF TalkSafe, G!TypeOK, TalkGrows, TwoInDm, G!Dms
<1>2. TalkerKnows(q)'
  BY DEF TalkerKnows, Two
<1>3. NewestUnmarked' /\ OwnIsRead'
  BY <1>1, UpToKept
<1>4. OwnRow'
  BY <1>1, OwnRowKept
<1>5. chat[c].message = 0
  BY TalkerIs DEF TalkerKnows
<1>6. \A d \in Talkers \ {c} : chat[d].pc = "members" => conversation'[chat[d].in].members = {}
  BY TalkerIs
<1>7. world' = world /\ message' = message /\ heard' = heard
  OBVIOUS
<1>8. QED
  BY <1>1, <1>2, <1>3, <1>4, <1>5, <1>6, <1>7, QuietStep, Zenon

LEMMA ProveCreateDm ==
    ASSUME MessagesAssumption, TalkSafe, NEW c \in world.calls, NEW u \in world.users,
           NEW v \in world.users, NEW people \in SUBSET world.users, G!CreateDm(c, u, v, people)
    PROVE  TalkSafe'
<1> DEFINE people2 == people \cup {u, v}
           q == [G!Idle EXCEPT !.pc = "create", !.user = u, !.people = people2]
<1>1. /\ chat[c].pc = "idle" /\ chat' = [chat EXCEPT ![c] = q] /\ u # v
      /\ UNCHANGED <<conversation, message, marker, heard, world, due, back>>
  BY DEF G!CreateDm, G!MayStart, G!At, G!Rest
<1>2. people2 \in SUBSET Users /\ u \in Users /\ Two(people2)
  BY <1>1, TalkerIs DEF Two
<1> HIDE DEF people2
<1>3. q \in G!CallState
  BY <1>2, IdleTalker DEF G!CallState
<1>4. q.pc = "create" /\ q.message = 0 /\ q.people = people2
  BY DEF G!Idle
<1> HIDE DEF q
<1>5. QED
  BY <1>1, <1>2, <1>3, <1>4, ProveCreate

LEMMA ProveCreateChannel ==
    ASSUME MessagesAssumption, TalkSafe, NEW c \in world.calls, NEW u \in world.users,
           NEW people \in SUBSET world.users, G!CreateChannel(c, u, people)
    PROVE  TalkSafe'
<1> DEFINE people2 == people \cup {u}
           q == [G!Idle EXCEPT !.pc = "create", !.user = u, !.people = people2, !.kind = "channel"]
<1>1. /\ chat[c].pc = "idle" /\ chat' = [chat EXCEPT ![c] = q]
      /\ UNCHANGED <<conversation, message, marker, heard, world, due, back>>
  BY DEF G!CreateChannel, G!MayStart, G!At, G!Rest
<1>2. people2 \in SUBSET Users /\ u \in Users
  BY <1>1, TalkerIs DEF Two
<1> HIDE DEF people2
<1>3. q \in G!CallState
  BY <1>2, IdleTalker DEF G!CallState
<1>4. q.pc = "create" /\ q.message = 0 /\ q.people = people2 /\ q.kind = "channel"
  BY DEF G!Idle
<1> HIDE DEF q
<1>5. QED
  BY <1>1, <1>2, <1>3, <1>4, ProveCreate

LEMMA ProveInsertConversation ==
    ASSUME MessagesAssumption, TalkSafe, NEW c \in world.calls, G!InsertConversation(c)
    PROVE  TalkSafe'
<1>1. PICK p \in G!CallState : p = chat[c]
  BY TalkerIs
<1>0. PICK new, q : new = Len(conversation) + 1 /\ q = [p EXCEPT !.pc = "members", !.in = new]
  OBVIOUS
<1> DEFINE row == [kind |-> p.kind, members |-> {}]
<1>2. /\ p.pc = "create" /\ Len(conversation) < world.conversations
      /\ conversation' = Append(conversation, row) /\ chat' = [chat EXCEPT ![c] = q]
      /\ UNCHANGED <<message, marker, heard, world, due, back>>
  BY <1>0, <1>1 DEF G!InsertConversation, G!At, G!Rest
<1>3. /\ row \in G!Conversation /\ TalkerKnows(p)
      /\ chat \in [Talkers -> G!CallState] /\ c \in Talkers
  BY <1>1, TalkerIs DEF G!CallState, G!Conversation
<1>4. /\ conversation' \in Seq(G!Conversation) /\ Len(conversation') = new
      /\ DOMAIN conversation' = 1..new /\ conversation'[new] = row
      /\ \A k \in 1..Len(conversation) : conversation'[k] = conversation[k]
  BY <1>0, <1>2, <1>3, TalkRows, AppendProperties, LenProperties
<1>5. /\ q \in G!CallState /\ q.pc = "members" /\ q.in = new /\ q.message = 0
      /\ q.kind = p.kind /\ q.people = p.people /\ p.message = 0
      /\ Len(conversation') <= MaxConversations
  <2>1. new \in 1..MaxConversations /\ Len(conversation') <= MaxConversations
    BY <1>0, <1>2, <1>4, TalkerIs, TalkRows DEF MessagesAssumption, G!MessagingAssumption
  <2>2. q \in G!CallState
    <3>1. new \in 0..MaxConversations
      BY <2>1 DEF MessagesAssumption, G!MessagingAssumption
    <3>2. QED
      BY <1>0, <3>1 DEF G!CallState
  <2>3. q.pc = "members" /\ q.in = new /\ q.message = p.message /\ q.kind = p.kind /\ q.people = p.people
    BY <1>0 DEF G!CallState
  <2>4. p.message = 0
    BY <1>2, <1>3 DEF TalkerKnows
  <2>5. QED
    BY <2>1, <2>2, <2>3, <2>4
<1>6. row.kind = p.kind /\ row.members = {}
  OBVIOUS
<1> HIDE DEF row
<1>7. chat'[c] = q /\ \A d \in Talkers \ {c} : chat'[d] = chat[d]
  BY <1>2, <1>3
<1>8. G!TypeOK'
  <2>1. chat' \in [Talkers -> G!CallState]
    BY <1>2, <1>3, <1>5
  <2>2. QED
    BY <1>2, <1>4, <1>5, <2>1 DEF TalkSafe, G!TypeOK
<1>9. TalkGrows
  BY <1>0, <1>2, <1>4, TalkRows DEF TalkGrows
<1>10. TwoInDm'
  <2>1. ASSUME NEW k \in DOMAIN conversation', conversation'[k].kind = "dm"
        PROVE  conversation'[k].members = {} \/ Two(conversation'[k].members)
    <3>1. CASE k \in DOMAIN conversation
      BY <1>0, <1>4, <2>1, <3>1, TalkRows DEF TalkSafe, TwoInDm, G!Dms
    <3>2. CASE k \notin DOMAIN conversation
      BY <1>0, <1>4, <1>6, <3>2, TalkRows
    <3>3. QED
      BY <3>1, <3>2
  <2>2. QED
    BY <2>1 DEF TwoInDm, G!Dms
<1>11. TalkerKnows(q)'
  <2>1. q.kind = "dm" => Two(q.people)
    BY <1>2, <1>3, <1>5 DEF TalkerKnows
  <2>2. /\ q.in \in DOMAIN conversation'
        /\ conversation'[q.in].kind = q.kind /\ conversation'[q.in].members = {}
    BY <1>0, <1>4, <1>5, <1>6, TalkRows
  <2>3. QED
    <3>1. q.pc = "members" /\ q.message = 0
      BY <1>5
    <3>2. QED
      BY <3>1, <2>1, <2>2 DEF TalkerKnows, Two
<1>12. NewestUnmarked' /\ OwnIsRead'
  BY <1>1, <1>2, <1>5, <1>7, UpToKept
<1>13. ASSUME NEW d \in Talkers \ {c}, chat[d].pc = "members"
       PROVE  chat[d].in \in DOMAIN conversation /\ chat[d].in # q.in /\ conversation'[chat[d].in].members = {}
  <2>1. TalkerKnows(chat[d])
    BY DEF TalkSafe
  <2>2. chat[d].in \in DOMAIN conversation /\ conversation[chat[d].in].members = {}
    BY <1>13, <2>1 DEF TalkerKnows
  <2>3. QED
    BY <1>0, <1>4, <1>5, <2>2, TalkRows
<1>14. OwnRow'
  BY <1>7, <1>13 DEF TalkSafe, OwnRow, G!At
<1>15. q.message = chat[c].message /\ world' = world /\ message' = message /\ heard' = heard
  BY <1>1, <1>2, <1>5
<1>16. \A d \in Talkers \ {c} : chat[d].pc = "members" => conversation'[chat[d].in].members = {}
  BY <1>13
<1>17. chat' = [chat EXCEPT ![c] = q] /\ q \in G!CallState
  BY <1>2, <1>5
<1>18. G!TypeOK' /\ OwnRow' /\ TwoInDm' /\ NewestUnmarked' /\ OwnIsRead'
  BY <1>8, <1>10, <1>12, <1>14
<1>19. QED
  BY <1>18, <1>8, <1>9, <1>10, <1>11, <1>12, <1>14, <1>15, <1>16, <1>17, QuietStep, Zenon

LEMMA ProveInsertMembers ==
    ASSUME MessagesAssumption, TalkSafe, NEW c \in world.calls, G!InsertMembers(c)
    PROVE  TalkSafe'
<1>1. PICK p \in G!CallState : p = chat[c]
  BY TalkerIs
<1> DEFINE q == G!Idle
<1>2. /\ p.pc = "members" /\ chat' = [chat EXCEPT ![c] = q]
      /\ conversation' = [conversation EXCEPT ![p.in].members = @ \cup p.people]
      /\ UNCHANGED <<message, marker, heard, world, due, back>>
  BY <1>1 DEF G!InsertMembers, G!At, G!Return, G!Rest
<1>3. TalkerKnows(p) /\ chat \in [Talkers -> G!CallState] /\ c \in Talkers
  BY <1>1, TalkerIs
<1>4. /\ p.message = 0 /\ (p.kind = "dm" => Two(p.people)) /\ p.people \subseteq Users
      /\ p.in \in DOMAIN conversation /\ conversation[p.in].kind = p.kind
      /\ conversation[p.in].members = {}
  BY <1>2, <1>3 DEF TalkerKnows, G!CallState
<1> DEFINE row == [conversation[p.in] EXCEPT !.members = p.people]
<1>5. conversation[p.in] \in G!Conversation
  BY <1>4, TalkRows
<1>6. row \in G!Conversation /\ row.kind = p.kind /\ row.members = p.people
  BY <1>4, <1>5 DEF G!Conversation
<1>7. conversation' = [conversation EXCEPT ![p.in] = row]
  BY <1>2, <1>4
<1> HIDE DEF row
<1>8. /\ conversation' \in Seq(G!Conversation) /\ Len(conversation') = Len(conversation)
      /\ DOMAIN conversation' = DOMAIN conversation /\ conversation'[p.in] = row
      /\ \A k \in DOMAIN conversation : k # p.in => conversation'[k] = conversation[k]
  BY <1>4, <1>6, <1>7, TalkRows, ExceptSeq
<1>9. q \in G!CallState /\ q.pc = "idle" /\ q.message = 0
  BY IdleTalker
<1> HIDE DEF q
<1>10. chat'[c] = q /\ \A d \in Talkers \ {c} : chat'[d] = chat[d]
  BY <1>2, <1>3
<1>11. G!TypeOK'
  BY <1>2, <1>3, <1>8, <1>9 DEF TalkSafe, G!TypeOK
<1>12. TalkGrows
  BY <1>2, <1>4, <1>6, <1>8 DEF TalkGrows
<1>13. TwoInDm'
  BY <1>4, <1>6, <1>8 DEF TalkSafe, TwoInDm, G!Dms, Two
<1>14. TalkerKnows(q)'
  BY <1>9 DEF TalkerKnows
<1>15. NewestUnmarked' /\ OwnIsRead'
  BY <1>1, <1>2, <1>9, <1>10, UpToKept
<1>16. OwnRow'
  BY <1>9, <1>10, OwnRowKept
<1>17. ASSUME NEW d \in Talkers \ {c}, chat[d].pc = "members"
       PROVE  conversation'[chat[d].in].members = {}
  <2>1. TalkerKnows(chat[d])
    BY DEF TalkSafe
  <2>2. chat[d].in # p.in
    BY <1>1, <1>2, <1>3, <1>17 DEF TalkSafe, OwnRow, G!At
  <2>3. QED
    BY <1>8, <1>17, <2>1, <2>2 DEF TalkerKnows
<1>18. q.message = chat[c].message /\ world' = world /\ message' = message /\ heard' = heard
  BY <1>1, <1>2, <1>4, <1>9
<1>19. \A d \in Talkers \ {c} : chat[d].pc = "members" => conversation'[chat[d].in].members = {}
  BY <1>17
<1>20. chat' = [chat EXCEPT ![c] = q]
  BY <1>2
<1>21. QED
  BY <1>9, <1>11, <1>12, <1>13, <1>14, <1>15, <1>16, <1>18, <1>19, <1>20, QuietStep, Zenon

\* A row that gets members.
LEMMA MoreMembers ==
    ASSUME MessagesAssumption, TalkSafe, NEW k \in DOMAIN conversation, NEW people \in SUBSET Users,
           conversation' = [conversation EXCEPT ![k].members = @ \cup people]
    PROVE  /\ conversation' \in Seq(G!Conversation) /\ Len(conversation') = Len(conversation)
           /\ DOMAIN conversation' = DOMAIN conversation
           /\ \A j \in DOMAIN conversation : j # k => conversation'[j] = conversation[j]
           /\ conversation'[k].kind = conversation[k].kind
           /\ conversation'[k].members = conversation[k].members \cup people
<1> DEFINE row == [conversation[k] EXCEPT !.members = conversation[k].members \cup people]
<1>1. conversation[k] \in G!Conversation
  BY TalkRows
<1>2. /\ row \in G!Conversation /\ row.kind = conversation[k].kind
      /\ row.members = conversation[k].members \cup people
  BY <1>1 DEF G!Conversation
<1>3. conversation' = [conversation EXCEPT ![k] = row]
  OBVIOUS
<1> HIDE DEF row
<1>4. /\ conversation' \in Seq(G!Conversation) /\ Len(conversation') = Len(conversation)
      /\ DOMAIN conversation' = DOMAIN conversation /\ conversation'[k] = row
      /\ \A j \in DOMAIN conversation : j # k => conversation'[j] = conversation[j]
  <2>1. PICK rows \in Seq(G!Conversation) : rows = conversation
    BY TalkRows
  <2>2. k \in 1..Len(rows) /\ DOMAIN rows = 1..Len(rows)
    BY <2>1, TalkRows
  <2>3. PICK next : next = [rows EXCEPT ![k] = row]
    OBVIOUS
  <2>4. /\ next \in Seq(G!Conversation) /\ Len(next) = Len(rows) /\ next[k] = row
        /\ \A j \in 1..Len(rows) : j # k => next[j] = rows[j]
    BY <1>2, <2>2, <2>3, ExceptSeq
  <2>5. conversation' = next /\ DOMAIN next = DOMAIN rows
    BY <1>3, <2>1, <2>3
  <2>6. QED
    BY <2>1, <2>2, <2>4, <2>5
<1>5. QED
  BY <1>2, <1>4

LEMMA ProveAddMembers ==
    ASSUME MessagesAssumption, TalkSafe, NEW u \in world.users, NEW v \in world.users,
           NEW k \in DOMAIN conversation, G!AddMembers(u, k, v)
    PROVE  TalkSafe'
<1>1. /\ u \in conversation[k].members
      /\ conversation' = [conversation EXCEPT ![k].members = @ \cup {v}]
      /\ UNCHANGED <<message, marker, heard, chat, world, due, back>>
  BY DEF G!AddMembers, G!IsMember, G!Rest
<1>2. {v} \in SUBSET Users
  BY DEF TalkSafe, G!TypeOK, MessagesAssumption, G!MessagingAssumption
<1>3. /\ conversation' \in Seq(G!Conversation) /\ Len(conversation') = Len(conversation)
      /\ DOMAIN conversation' = DOMAIN conversation
      /\ \A j \in DOMAIN conversation : j # k => conversation'[j] = conversation[j]
      /\ conversation'[k].kind = conversation[k].kind
      /\ conversation'[k].members = conversation[k].members \cup {v}
  BY <1>1, <1>2, MoreMembers
<1>4. G!TypeOK' /\ TalkGrows
  BY <1>1, <1>3 DEF TalkSafe, G!TypeOK, TalkGrows
<1>5. TwoInDm'
  BY <1>1, <1>3 DEF TalkSafe, TwoInDm, G!Dms, Two
<1>6. NewestUnmarked' /\ OwnIsRead' /\ OwnRow'
  BY <1>1, UpToKept, OwnRowKept
<1>7. \A d \in Talkers : chat[d].pc = "members" => conversation'[chat[d].in].members = {}
  <2>1. SUFFICES ASSUME NEW d \in Talkers, chat[d].pc = "members"
                 PROVE  conversation'[chat[d].in].members = {}
    OBVIOUS
  <2>2. TalkerKnows(chat[d])
    BY DEF TalkSafe
  <2>3. QED
    BY <1>1, <1>3, <2>1, <2>2 DEF TalkerKnows
<1> DEFINE C == {}
<1>8. /\ C \in SUBSET world.calls
      /\ \A d \in Talkers \ C : chat'[d] = chat[d]
      /\ \A c \in C : TalkerKnows(chat[c])'
      /\ \A d \in Talkers \ C : chat[d].pc = "members" => conversation'[chat[d].in].members = {}
  BY <1>1, <1>7
<1>9. \A u1 \in Users : \A m \in heard'[u1] : m \in heard[u1] \/
         /\ m \in DOMAIN message' /\ message'[m].in \in DOMAIN conversation'
         /\ u1 \in conversation'[message'[m].in].members /\ message'[m].sender # u1
  BY <1>1
<1>10. \A m \in DOMAIN message' :
         /\ \A c \in C : chat'[c].message # m
         /\ m \notin DOMAIN message \/ \E c \in C : chat[c].message = m
         => \A u1 \in due'[m] \ {message'[m].sender} : m \in heard'[u1]
  BY <1>1
<1>11. world' = world
  BY <1>1
<1> HIDE DEF C
<1>12. QED
  BY <1>4, <1>5, <1>6, <1>8, <1>9, <1>10, <1>11, TalkGlue, Zenon

LEMMA ProveCreateMessage ==
    ASSUME MessagesAssumption, TalkSafe, NEW c \in world.calls, NEW u \in world.users,
           NEW k \in DOMAIN conversation, NEW ms \in 1..(Len(message) + 1), NEW past \in BOOLEAN,
           G!CreateMessage(c, u, k, ms, past)
    PROVE  TalkSafe'
<1>1. PICK new, q : /\ new = Len(message) + 1
                    /\ q = [G!Idle EXCEPT !.pc = "read", !.user = u, !.in = k, !.message = new]
  OBVIOUS
<1> DEFINE row == [in |-> k, sender |-> u, ms |-> ms, past |-> past]
<1>2. /\ chat[c].pc = "idle" /\ u \in conversation[k].members /\ Len(message) < world.messages
      /\ message' = Append(message, row) /\ due' = Append(due, conversation[k].members)
      /\ chat' = [chat EXCEPT ![c] = q]
      /\ UNCHANGED <<conversation, marker, heard, world, back>>
  BY <1>1 DEF G!CreateMessage, G!MayStart, G!At, G!IsMember
<1>3. /\ k \in 1..MaxConversations /\ u \in Users /\ new \in 1..MaxMessages /\ new \in Nat
      /\ ms \in 1..MaxMessages
      /\ conversation[k].members \in SUBSET Users
  <2>1. k \in 1..Len(conversation) /\ Len(conversation) \in Nat /\ Len(conversation) <= MaxConversations
    BY TalkRows DEF TalkSafe, G!TypeOK
  <2>2. conversation[k].members \in SUBSET Users
    BY TalkRows DEF G!Conversation
  <2>3. u \in Users
    BY <1>2, <2>2
  <2>4. MaxConversations \in Nat /\ MaxMessages \in Nat
    BY DEF MessagesAssumption, G!MessagingAssumption
  <2>5. Len(message) \in Nat /\ world.messages \in Nat /\ world.messages <= MaxMessages
    BY TalkRows, TalkerIs
  <2>6. QED
    BY <1>1, <1>2, <2>1, <2>2, <2>3, <2>4, <2>5
<1>4. q \in G!CallState
  <2>1. k \in 0..MaxConversations /\ new \in 0..MaxMessages
    BY <1>3 DEF MessagesAssumption, G!MessagingAssumption
  <2>2. QED
    BY <1>1, <1>3, <2>1, IdleTalker DEF G!CallState
<1>5. q.pc = "read" /\ q.user = u /\ q.in = k /\ q.message = new
  BY <1>1 DEF G!Idle
<1>6. row \in G!Message /\ row.in = k /\ row.sender = u
  BY <1>3 DEF G!Message
<1>7. /\ message' \in Seq(G!Message) /\ Len(message') = new
      /\ DOMAIN message' = 1..new /\ message'[new] = row
      /\ \A m \in 1..Len(message) : message'[m] = message[m]
  BY <1>1, <1>2, <1>6, TalkRows, AppendProperties, LenProperties
<1>8. /\ due' \in Seq(SUBSET Users) /\ Len(due') = new /\ due'[new] = conversation[k].members
      /\ \A m \in 1..Len(message) : due'[m] = due[m]
  <2>1. due \in Seq(SUBSET Users) /\ Len(due) = Len(message)
    BY TalkRows
  <2>2. PICK all : all = conversation[k].members
    OBVIOUS
  <2>3. all \in SUBSET Users /\ due' = Append(due, all)
    BY <1>2, <1>3, <2>2
  <2>4. /\ due' \in Seq(SUBSET Users) /\ Len(due') = Len(due) + 1 /\ due'[Len(due) + 1] = all
        /\ \A m \in 1..Len(due) : due'[m] = due[m]
    BY <2>1, <2>3, AppendProperties
  <2>5. QED
    BY <1>1, <2>1, <2>2, <2>4
<1>9. row.in = q.in /\ row.sender = q.user
  BY <1>5
<1> HIDE DEF row
<1>10. chat \in [Talkers -> G!CallState] /\ c \in Talkers
  BY TalkerIs
<1>11. chat'[c] = q /\ \A d \in Talkers \ {c} : chat'[d] = chat[d]
  BY <1>2, <1>10
<1>12. G!TypeOK'
  <2>1. chat' \in [Talkers -> G!CallState]
    BY <1>2, <1>4, <1>10
  <2>2. Len(message') <= MaxMessages
    BY <1>3, <1>7 DEF MessagesAssumption, G!MessagingAssumption
  <2>3. QED
    BY <1>2, <1>7, <1>8, <2>1, <2>2 DEF TalkSafe, G!TypeOK
<1>13. TalkGrows
  BY <1>1, <1>2, <1>7, <1>8, TalkRows DEF TalkGrows
<1>14. OwnRow' /\ TwoInDm'
  <2>1. \A d \in Talkers : chat'[d].pc = "members" => chat'[d] = chat[d]
    BY <1>5, <1>11
  <2>2. OwnRow'
    BY <2>1, OwnRowKept
  <2>3. QED
    BY <1>2, <2>2 DEF TalkSafe, TwoInDm, G!Dms
<1>15. new \in DOMAIN message' /\ TalkerKnows(q)'
  <2>1. new \in DOMAIN message'
    BY <1>3, <1>7
  <2>2. k \in DOMAIN conversation' /\ u \in conversation'[k].members /\ due'[new] \subseteq conversation'[k].members
    BY <1>2, <1>8
  <2>3. QED
    BY <1>5, <1>7, <1>9, <2>1, <2>2 DEF TalkerKnows, G!IsMember
<1>16. NewestUnmarked'
  <2>1. ASSUME ~G!Overlap, NEW d \in Talkers, chat'[d].pc = "read"
        PROVE  chat'[d].message = Len(message')
    BY <1>5, <1>7, <1>11, <2>1, OneTalks
  <2>2. QED
    BY <1>2, <2>1 DEF NewestUnmarked, G!Overlap, G!At
<1>17. OwnIsRead'
  <2>1. ASSUME ~G!Overlap, NEW own \in DOMAIN message'
        PROVE  \/ <<message'[own].in, message'[own].sender>> \in back
               \/ own <= marker[message'[own].in, message'[own].sender]
               \/ chat'[c].pc = "read" /\ chat'[c].message = own
    <3>1. CASE own = new
      BY <1>5, <1>11, <3>1
    <3>2. CASE own # new
      <4>0. own \in 1..new
        BY <1>7, <3>2
      <4>1. own \in 1..Len(message)
        BY <1>1, <3>2, <4>0, TalkRows
      <4>5. own \in DOMAIN message /\ message'[own] = message[own]
        BY <1>7, <4>1, TalkRows
      <4>2. \A d \in Talkers : chat[d].pc # "read"
        BY <1>2, <2>1, OneTalks
      <4>3. QED
        BY <2>1, <4>5, <4>2 DEF TalkSafe, OwnIsRead, G!At
    <3>3. QED
      BY <3>1, <3>2
  <2>2. QED
    BY <1>2, <1>10, <2>1 DEF OwnIsRead, G!Overlap, G!At
<1>18. \A d \in Talkers \ {c} : chat[d].pc = "members" => conversation'[chat[d].in].members = {}
  BY <1>2, TalkerIs
<1>19. chat[c].message = 0
  BY <1>2, TalkerIs DEF TalkerKnows
<1>20. \A m \in DOMAIN message' :
         q.message # m /\ (m \notin DOMAIN message \/ chat[c].message = m)
         => \A w \in due'[m] \ {message'[m].sender} : m \in heard'[w]
  <2>1. \A m \in DOMAIN message' : m \in DOMAIN message \/ m = new
    BY <1>1, <1>7, TalkRows
  <2>2. \A m \in DOMAIN message' : m # 0
    BY <1>7
  <2>3. QED
    BY <1>5, <1>19, <2>1, <2>2
<1>21. \A w \in Users : \A m \in heard'[w] : m \in heard[w] \/
         /\ m \in DOMAIN message' /\ message'[m].in \in DOMAIN conversation'
         /\ w \in conversation'[message'[m].in].members /\ message'[m].sender # w
  BY <1>2
<1>22. chat' = [chat EXCEPT ![c] = q] /\ world' = world
  BY <1>2
<1>23. QED
  BY <1>4, <1>12, <1>13, <1>14, <1>15, <1>16, <1>17, <1>18, <1>20, <1>21, <1>22, TalkStep, Zenon

\* The newest message is the one being marked, where handlers do not overlap.
LEMMA ProveReadOwn ==
    ASSUME MessagesAssumption, TalkSafe, NEW c \in world.calls, G!ReadOwn(c)
    PROVE  TalkSafe'
<1>1. PICK p \in G!CallState : p = chat[c]
  BY TalkerIs
<1>2. PICK q : q = [p EXCEPT !.pc = "others"]
  OBVIOUS
<1>3. /\ p.pc = "read" /\ chat' = [chat EXCEPT ![c] = q]
      /\ marker' = [marker EXCEPT ![<<p.in, p.user>>] = p.message]
      /\ UNCHANGED <<conversation, message, heard, world, due, back>>
  BY <1>1, <1>2 DEF G!ReadOwn, G!At, G!UpsertRead, G!Rest
<1>4. TalkerKnows(p) /\ chat \in [Talkers -> G!CallState] /\ c \in Talkers
  BY <1>1, TalkerIs
<1>5. /\ q \in G!CallState /\ q.pc = "others" /\ q.message = p.message
      /\ q.in = p.in /\ q.user = p.user /\ q.people = p.people
  BY <1>2 DEF G!CallState
<1>6. chat'[c] = q /\ \A d \in Talkers \ {c} : chat'[d] = chat[d]
  BY <1>3, <1>4
<1>7. /\ p.message \in DOMAIN message /\ message[p.message].in = p.in /\ message[p.message].sender = p.user
      /\ p.in \in DOMAIN conversation
  BY <1>3, <1>4 DEF TalkerKnows, G!IsMember
<1>8. message[p.message].in = p.in /\ message[p.message].sender = p.user
  BY <1>7
<1>9. /\ p.in \in 1..MaxConversations /\ p.user \in Users /\ p.message \in 0..MaxMessages
      /\ marker \in [(1..MaxConversations) \X Users -> 0..MaxMessages]
  BY <1>7, <1>8, TalkRows DEF TalkSafe, G!TypeOK, G!Marker, G!Message, G!CallState
<1>10. /\ marker' \in [(1..MaxConversations) \X Users -> 0..MaxMessages]
       /\ marker'[p.in, p.user] = p.message
       /\ \A k \in 1..MaxConversations, u \in Users :
             k # p.in \/ u # p.user => marker'[k, u] = marker[k, u]
  BY <1>3, <1>9
<1>11. G!TypeOK'
  <2>1. chat' \in [Talkers -> G!CallState]
    BY <1>3, <1>4, <1>5
  <2>2. QED
    BY <1>3, <1>10, <2>1 DEF TalkSafe, G!TypeOK, G!Marker
<1>12. TalkGrows /\ TwoInDm'
  BY <1>3 DEF TalkSafe, TalkGrows, TwoInDm, G!Dms
<1>13. OwnRow'
  BY <1>5, <1>6, OwnRowKept
<1>14. TalkerKnows(q)'
  BY <1>3, <1>4, <1>5 DEF TalkerKnows, G!IsMember
<1>15. NewestUnmarked'
  BY <1>3, <1>5, <1>6 DEF TalkSafe, NewestUnmarked, G!Overlap, G!At
<1>16. OwnIsRead'
  <2>1. ASSUME ~G!Overlap, NEW own \in DOMAIN message
        PROVE  \/ <<message[own].in, message[own].sender>> \in back
               \/ own <= marker'[message[own].in, message[own].sender]
    <3>1. message[own].in \in 1..MaxConversations /\ message[own].sender \in Users
      BY TalkRows DEF G!Message
    <3>2. own \in 1..Len(message) /\ Len(message) \in Nat
      BY TalkRows
    <3>3. p.message = Len(message)
      BY <1>1, <1>3, <1>4, <2>1 DEF TalkSafe, NewestUnmarked, G!At
    <3>4. CASE message[own].in = p.in /\ message[own].sender = p.user
      <4>1. own <= marker'[p.in, p.user]
        <5>1. marker'[p.in, p.user] = Len(message)
          BY <1>10, <3>3
        <5>2. own <= Len(message)
          BY <3>2
        <5>3. QED
          BY <5>1, <5>2
      <4>2. QED
        BY <3>4, <4>1
    <3>5. CASE message[own].in # p.in \/ message[own].sender # p.user
      <4>1. own # p.message
        BY <1>8, <3>5
      <4>2. ~\E d \in Talkers : chat[d].pc = "read" /\ chat[d].message = own
        BY <1>1, <2>1, <4>1, OneTalks
      <4>3. QED
        BY <1>10, <2>1, <3>1, <3>5, <4>2 DEF TalkSafe, OwnIsRead, G!At
    <3>6. QED
      BY <3>4, <3>5
  <2>2. QED
    BY <1>3, <2>1 DEF OwnIsRead, G!Overlap
<1>17. \A d \in Talkers \ {c} : chat[d].pc = "members" => conversation'[chat[d].in].members = {}
  BY <1>3, TalkerIs
<1>18. q.message = chat[c].message /\ world' = world /\ message' = message /\ heard' = heard
  BY <1>1, <1>3, <1>5
<1>19. chat' = [chat EXCEPT ![c] = q] /\ q \in G!CallState
  BY <1>3, <1>5
<1>20. QED
  BY <1>11, <1>12, <1>13, <1>14, <1>15, <1>16, <1>17, <1>18, <1>19, QuietStep, Zenon

LEMMA ProveMemberIds ==
    ASSUME MessagesAssumption, TalkSafe, NEW c \in world.calls, G!MemberIds(c)
    PROVE  TalkSafe'
<1>1. PICK p \in G!CallState : p = chat[c]
  BY TalkerIs
<1>2. PICK others : others = conversation[p.in].members \ {p.user}
  OBVIOUS
<1>3. PICK q : q = IF others = {} THEN G!Idle ELSE [p EXCEPT !.pc = "emit", !.people = others]
  OBVIOUS
<1>4. /\ p.pc = "others" /\ chat' = [chat EXCEPT ![c] = q]
      /\ UNCHANGED <<conversation, message, marker, heard, world, due, back>>
  BY <1>1, <1>2, <1>3 DEF G!MemberIds, G!At, G!Others, G!Return, G!Rest
<1>5. TalkerKnows(p) /\ chat \in [Talkers -> G!CallState] /\ c \in Talkers
  BY <1>1, TalkerIs
<1>6. /\ p.message \in DOMAIN message /\ message[p.message].in = p.in /\ message[p.message].sender = p.user
      /\ p.in \in DOMAIN conversation /\ p.user \in conversation[p.in].members
      /\ due[p.message] \subseteq conversation[p.in].members
  BY <1>4, <1>5 DEF TalkerKnows, G!IsMember
<1>7. message[p.message].sender = p.user
  BY <1>6
<1>8. others \in SUBSET Users
  <2>1. conversation[p.in] \in G!Conversation
    BY <1>6, TalkRows
  <2>2. QED
    BY <1>2, <2>1 DEF G!Conversation
<1>9. /\ q \in G!CallState /\ q.pc \in {"idle", "emit"}
      /\ others = {} => q = G!Idle
      /\ others # {} => /\ q.pc = "emit" /\ q.message = p.message
                        /\ q.in = p.in /\ q.user = p.user /\ q.people = others
  <2>1. CASE others = {}
    BY <1>3, <2>1, IdleTalker
  <2>2. CASE others # {}
    BY <1>3, <1>8, <2>2 DEF G!CallState
  <2>3. QED
    BY <2>1, <2>2
<1>10. chat'[c] = q /\ \A d \in Talkers \ {c} : chat'[d] = chat[d]
  BY <1>4, <1>5
<1>11. G!TypeOK' /\ TalkGrows /\ TwoInDm'
  BY <1>4, <1>5, <1>9 DEF TalkSafe, G!TypeOK, TalkGrows, TwoInDm, G!Dms
<1>12. NewestUnmarked' /\ OwnIsRead' /\ OwnRow'
  BY <1>1, <1>4, <1>9, <1>10, UpToKept, OwnRowKept
<1>13. TalkerKnows(q)'
  <2>1. CASE others = {}
    BY <1>9, <2>1, IdleTalker DEF TalkerKnows
  <2>2. CASE others # {}
    <3>1. \A u \in due[p.message] \ {p.user} : u \in others
      BY <1>2, <1>6
    <3>2. QED
      BY <1>2, <1>4, <1>6, <1>9, <2>2, <3>1 DEF TalkerKnows, G!IsMember, G!Others
  <2>3. QED
    BY <2>1, <2>2
<1>14. \A d \in Talkers \ {c} : chat[d].pc = "members" => conversation'[chat[d].in].members = {}
  BY <1>4, TalkerIs
<1>15. q.message = chat[c].message \/ chat[c].message = 0 \/
          \A u \in due'[chat[c].message] \ {message[chat[c].message].sender} :
             chat[c].message \in heard[u]
  <2>1. CASE others = {}
    BY <1>1, <1>2, <1>4, <1>6, <1>7, <2>1
  <2>2. CASE others # {}
    BY <1>1, <1>9, <2>2
  <2>3. QED
    BY <2>1, <2>2
<1>16. /\ chat' = [chat EXCEPT ![c] = q] /\ q \in G!CallState
       /\ world' = world /\ message' = message /\ heard' = heard
  BY <1>4, <1>9
<1>17. QED
  BY <1>11, <1>12, <1>13, <1>14, <1>15, <1>16, QuietStep, Zenon

\* A member is told: of a message of their conversation, and not their own.
LEMMA TalkTold ==
    ASSUME MessagesAssumption, TalkSafe, NEW c \in world.calls, NEW v \in world.users,
           NEW p \in G!CallState, p = chat[c], p.pc = "emit", v \in p.people,
           NEW q \in G!CallState, chat' = [chat EXCEPT ![c] = q],
           \/ /\ q.pc = "emit" /\ q.message = p.message /\ q.in = p.in /\ q.user = p.user
              /\ q.people = p.people \ {v}
              /\ due' = due
           \/ /\ q = G!Idle
              /\ \/ due' = due /\ p.people = {v}
                 \/ due' = [due EXCEPT ![p.message] = {}],
           heard' = [heard EXCEPT ![v] = @ \cup {p.message}],
           UNCHANGED <<conversation, message, marker, world, back>>
    PROVE  TalkSafe'
<1>1. TalkerKnows(p) /\ chat \in [Talkers -> G!CallState] /\ c \in Talkers /\ v \in Users
  BY TalkerIs
<1>2. /\ p.message \in DOMAIN message /\ message[p.message].in = p.in /\ message[p.message].sender = p.user
      /\ p.in \in DOMAIN conversation /\ p.user \in conversation[p.in].members
      /\ due[p.message] \subseteq conversation[p.in].members
      /\ p.people \subseteq conversation[p.in].members \ {p.user}
      /\ \A u \in due[p.message] \ {p.user} : u \in p.people \/ p.message \in heard[u]
  BY <1>1 DEF TalkerKnows, G!IsMember, G!Others
<1>3. message[p.message].in = p.in /\ message[p.message].sender = p.user
  BY <1>2
<1>4. chat'[c] = q /\ \A d \in Talkers \ {c} : chat'[d] = chat[d]
  BY <1>1
<1>5. /\ heard \in [Users -> SUBSET (1..MaxMessages)] /\ p.message \in 1..MaxMessages
      /\ MaxMessages \in Nat
  BY <1>2, TalkRows DEF TalkSafe, G!TypeOK, MessagesAssumption, G!MessagingAssumption
<1>6. /\ heard' \in [Users -> SUBSET (1..MaxMessages)] /\ heard'[v] = heard[v] \cup {p.message}
      /\ \A u \in Users : u # v => heard'[u] = heard[u]
  BY <1>1, <1>5
<1>7. /\ due' \in Seq(SUBSET Users) /\ Len(due') = Len(due)
      /\ \A m \in DOMAIN message : due'[m] \subseteq due[m]
      /\ due' = due \/ due'[p.message] = {}
  <2>1. due \in Seq(SUBSET Users) /\ DOMAIN due = DOMAIN message /\ DOMAIN due = 1..Len(due)
    BY TalkRows
  <2>2. CASE due' = due
    BY <2>1, <2>2
  <2>3. CASE due' = [due EXCEPT ![p.message] = {}]
    <3>1. {} \in SUBSET Users /\ p.message \in 1..Len(due)
      BY <1>2, <2>1
    <3>2. /\ due' \in Seq(SUBSET Users) /\ Len(due') = Len(due) /\ due'[p.message] = {}
          /\ \A m \in 1..Len(due) : m # p.message => due'[m] = due[m]
      BY <2>1, <2>3, <3>1, ExceptSeq
    <3>3. QED
      BY <2>1, <3>2
  <2>4. QED
    BY <2>2, <2>3
<1>8. G!TypeOK'
  <2>1. chat' \in [Talkers -> G!CallState]
    BY <1>1
  <2>2. QED
    BY <1>6, <1>7, <2>1 DEF TalkSafe, G!TypeOK
<1>9. TalkGrows /\ TwoInDm'
  BY <1>6, <1>7 DEF TalkSafe, TalkGrows, TwoInDm, G!Dms
<1>10. q.pc \in {"emit", "idle"}
  BY IdleTalker
<1>11. NewestUnmarked' /\ OwnIsRead' /\ OwnRow'
  <2>1. p.pc # "read" /\ \A d \in Talkers : chat[d].pc = "read" => chat'[d] = chat[d]
    BY <1>4
  <2>2. /\ \A d \in Talkers : chat'[d].pc = "read" => chat'[d] = chat[d]
        /\ \A d \in Talkers : chat'[d].pc = "members" => chat'[d] = chat[d]
    BY <1>4, <1>10
  <2>3. QED
    BY <2>1, <2>2, UpToKept, OwnRowKept
<1>12. TalkerKnows(q)'
  <2>1. CASE q = G!Idle
    BY <2>1, IdleTalker DEF TalkerKnows
  <2>2. CASE /\ q.pc = "emit" /\ q.message = p.message /\ q.in = p.in /\ q.user = p.user
             /\ q.people = p.people \ {v} /\ due' = due
    <3>1. \A u \in due[p.message] \ {p.user} : u \in p.people \ {v} \/ p.message \in heard'[u]
      <4>1. due[p.message] \subseteq Users
        BY <1>2, TalkRows
      <4>2. QED
        BY <1>2, <1>6, <4>1
    <3>2. QED
      BY <1>2, <2>2, <3>1 DEF TalkerKnows, G!IsMember, G!Others
  <2>3. QED
    BY <2>1, <2>2
<1>13. \A d \in Talkers \ {c} : chat[d].pc = "members" => conversation'[chat[d].in].members = {}
  BY TalkerIs
<1>14. \A u \in Users : \A m \in heard'[u] : m \in heard[u] \/
          /\ m \in DOMAIN message' /\ message'[m].in \in DOMAIN conversation'
          /\ u \in conversation'[message'[m].in].members /\ message'[m].sender # u
  BY <1>2, <1>3, <1>6
<1>15. \A m \in DOMAIN message' :
          q.message # m /\ (m \notin DOMAIN message \/ chat[c].message = m)
          => \A u \in due'[m] \ {message'[m].sender} : m \in heard'[u]
  <2>1. SUFFICES ASSUME q.message # p.message
                 PROVE  \A u \in due'[p.message] \ {p.user} : p.message \in heard'[u]
    BY <1>2, <1>3
  <2>2. CASE due' = due /\ p.people = {v}
    <3>1. due[p.message] \subseteq Users
      BY <1>2, TalkRows
    <3>2. QED
      BY <1>2, <1>6, <2>2, <3>1
  <2>3. CASE due'[p.message] = {}
    BY <2>3
  <2>4. CASE due' = [due EXCEPT ![p.message] = {}]
    <3>1. p.message \in DOMAIN due
      BY <1>2, TalkRows
    <3>2. QED
      BY <2>3, <2>4, <3>1
  <2>5. QED
    BY <2>1, <2>2, <2>4
<1>16. world' = world
  OBVIOUS
<1>17. QED
  BY <1>8, <1>9, <1>11, <1>12, <1>13, <1>14, <1>15, <1>16, TalkStep, Zenon

LEMMA ProveEmit ==
    ASSUME MessagesAssumption, TalkSafe, NEW c \in world.calls, NEW v \in world.users, G!Emit(c, v)
    PROVE  TalkSafe'
<1>1. PICK p \in G!CallState : p = chat[c]
  BY TalkerIs
<1>2. /\ p.pc = "emit" /\ v \in p.people /\ due' = due
      /\ heard' = [heard EXCEPT ![v] = @ \cup {p.message}]
      /\ UNCHANGED <<conversation, message, marker, world, back>>
  BY <1>1 DEF G!Emit, G!At, G!Rest
<1>3. CASE p.people = {v}
  <2>1. chat' = [chat EXCEPT ![c] = G!Idle]
    BY <1>1, <1>3 DEF G!Emit, G!Return
  <2>2. QED
    BY <1>1, <1>2, <1>3, <2>1, IdleTalker, TalkTold
<1>4. CASE p.people # {v}
  <2>1. PICK q : q = [p EXCEPT !.people = p.people \ {v}]
    OBVIOUS
  <2>2. /\ q \in G!CallState /\ q.pc = p.pc /\ q.message = p.message /\ q.in = p.in
        /\ q.user = p.user /\ q.people = p.people \ {v}
    BY <2>1 DEF G!CallState
  <2>3. chat' = [chat EXCEPT ![c] = q]
    BY <1>1, <1>4, <2>1 DEF G!Emit
  <2>4. QED
    BY <1>1, <1>2, <2>2, <2>3, TalkTold
<1>5. QED
  BY <1>3, <1>4

LEMMA ProveEmitFails ==
    ASSUME MessagesAssumption, TalkSafe, NEW c \in world.calls, NEW v \in world.users,
           G!EmitFails(c, v)
    PROVE  TalkSafe'
<1>1. PICK p \in G!CallState : p = chat[c]
  BY TalkerIs
<1>2. /\ p.pc = "emit" /\ v \in p.people /\ due' = [due EXCEPT ![p.message] = {}]
      /\ chat' = [chat EXCEPT ![c] = G!Idle]
      /\ heard' = [heard EXCEPT ![v] = @ \cup {p.message}]
      /\ UNCHANGED <<conversation, message, marker, world, back>>
  BY <1>1 DEF G!EmitFails, G!At, G!Return
<1>3. QED
  BY <1>1, <1>2, IdleTalker, TalkTold

\* What its handler has not done by then is owed to nobody.
LEMMA ProveTalkCrash ==
    ASSUME MessagesAssumption, TalkSafe, NEW c \in world.calls, G!Crash(c)
    PROVE  TalkSafe'
<1>1. PICK p \in G!CallState : p = chat[c]
  BY TalkerIs
<1>2. PICK q : q = G!Idle
  OBVIOUS
<1>3. /\ p.pc # "idle" /\ chat' = [chat EXCEPT ![c] = q]
      /\ due' = IF p.message = 0 THEN due ELSE [due EXCEPT ![p.message] = {}]
      /\ back' = IF p.pc = "read" THEN back \cup {<<p.in, p.user>>} ELSE back
      /\ UNCHANGED <<conversation, message, marker, heard, world>>
  BY <1>1, <1>2 DEF G!Crash, G!At, G!Return
<1>4. TalkerKnows(p) /\ chat \in [Talkers -> G!CallState] /\ c \in Talkers
  BY <1>1, TalkerIs
<1>5. q \in G!CallState /\ q.pc = "idle" /\ q.message = 0
  BY <1>2, IdleTalker
<1>6. chat'[c] = q /\ \A d \in Talkers \ {c} : chat'[d] = chat[d]
  BY <1>3, <1>4
<1>7. p.message = 0 \/ p.message \in DOMAIN message
  BY <1>3, <1>4 DEF TalkerKnows, G!CallState
<1>8. /\ due' \in Seq(SUBSET Users) /\ Len(due') = Len(due)
      /\ \A m \in DOMAIN message : due'[m] \subseteq due[m]
      /\ p.message # 0 => due'[p.message] = {}
  <2>1. due \in Seq(SUBSET Users) /\ DOMAIN due = DOMAIN message /\ DOMAIN due = 1..Len(due)
    BY TalkRows
  <2>2. CASE p.message = 0
    BY <1>3, <2>1, <2>2
  <2>3. CASE p.message # 0
    <3>1. {} \in SUBSET Users /\ p.message \in 1..Len(due)
      BY <1>7, <2>1, <2>3
    <3>2. due' = [due EXCEPT ![p.message] = {}]
      BY <1>3, <2>3
    <3>3. /\ due' \in Seq(SUBSET Users) /\ Len(due') = Len(due) /\ due'[p.message] = {}
          /\ \A m \in 1..Len(due) : m # p.message => due'[m] = due[m]
      BY <2>1, <3>1, <3>2, ExceptSeq
    <3>4. QED
      BY <2>1, <3>3
  <2>4. QED
    BY <2>2, <2>3
<1>9. back \subseteq back' /\ (p.pc = "read" => <<p.in, p.user>> \in back')
  BY <1>3
<1>10. back' \subseteq (1..MaxConversations) \X Users
  <2>1. back \subseteq (1..MaxConversations) \X Users
    BY DEF TalkSafe, G!TypeOK
  <2>2. CASE p.pc = "read"
    <3>1. message[p.message].in = p.in /\ message[p.message].sender = p.user /\ p.message \in DOMAIN message
      BY <1>4, <2>2 DEF TalkerKnows
    <3>2. message[p.message].in = p.in /\ message[p.message].sender = p.user
      BY <3>1
    <3>3. p.in \in 1..MaxConversations /\ p.user \in Users
      BY <3>1, <3>2, TalkRows DEF G!Message
    <3>4. QED
      BY <1>3, <2>1, <3>3
  <2>3. QED
    BY <1>3, <2>1, <2>2
<1>11. G!TypeOK'
  BY <1>3, <1>4, <1>5, <1>8, <1>10 DEF TalkSafe, G!TypeOK
<1>12. TalkGrows /\ TwoInDm'
  BY <1>3, <1>8 DEF TalkSafe, TalkGrows, TwoInDm, G!Dms
<1>13. NewestUnmarked' /\ OwnIsRead' /\ OwnRow'
  BY <1>1, <1>3, <1>5, <1>6, <1>9, UpToKept, OwnRowKept
<1>14. TalkerKnows(q)'
  BY <1>5 DEF TalkerKnows
<1>15. \A d \in Talkers \ {c} : chat[d].pc = "members" => conversation'[chat[d].in].members = {}
  BY <1>3, TalkerIs
<1>16. q.message = chat[c].message \/ chat[c].message = 0 \/
          \A u \in due'[chat[c].message] \ {message[chat[c].message].sender} :
             chat[c].message \in heard[u]
  BY <1>1, <1>8
<1>17. /\ chat' = [chat EXCEPT ![c] = q] /\ q \in G!CallState
       /\ world' = world /\ message' = message /\ heard' = heard
  BY <1>3, <1>5
<1>18. QED
  BY <1>11, <1>12, <1>13, <1>14, <1>15, <1>16, <1>17, QuietStep, Zenon

\* Who marks an older message than before has gone back.
LEMMA ProveMarkRead ==
    ASSUME MessagesAssumption, TalkSafe, NEW u \in world.users, NEW k \in DOMAIN conversation,
           NEW m \in DOMAIN message, G!MarkRead(u, k, m)
    PROVE  TalkSafe'
<1>1. /\ k \in DOMAIN conversation /\ u \in conversation[k].members
      /\ marker' = [marker EXCEPT ![<<k, u>>] = m]
      /\ back' = IF m < marker[k, u] THEN back \cup {<<k, u>>} ELSE back
      /\ UNCHANGED <<conversation, message, heard, chat, world, due>>
  BY DEF G!MarkRead, G!IsMember, G!UpsertRead
<1>2. /\ k \in 1..MaxConversations /\ u \in Users /\ m \in 0..MaxMessages
      /\ marker \in [(1..MaxConversations) \X Users -> 0..MaxMessages]
      /\ MaxMessages \in Nat
  <2>1. k \in 1..Len(conversation) /\ Len(conversation) \in Nat /\ Len(conversation) <= MaxConversations
    BY TalkRows DEF TalkSafe, G!TypeOK
  <2>2. m \in 1..Len(message) /\ Len(message) \in Nat /\ Len(message) <= MaxMessages
    BY TalkRows DEF TalkSafe, G!TypeOK
  <2>3. u \in Users
    BY <1>1, TalkRows DEF G!Conversation
  <2>4. MaxConversations \in Nat /\ MaxMessages \in Nat
    BY DEF MessagesAssumption, G!MessagingAssumption
  <2>5. QED
    BY <2>1, <2>2, <2>3, <2>4 DEF TalkSafe, G!TypeOK, G!Marker
<1>3. /\ marker' \in [(1..MaxConversations) \X Users -> 0..MaxMessages]
      /\ marker'[k, u] = m
      /\ \A j \in 1..MaxConversations, w \in Users :
            j # k \/ w # u => marker'[j, w] = marker[j, w]
  BY <1>1, <1>2
<1>4. back \subseteq back' /\ (m < marker[k, u] => <<k, u>> \in back')
  BY <1>1
<1>5. G!TypeOK'
  <2>1. back' \subseteq (1..MaxConversations) \X Users
    BY <1>1, <1>2 DEF TalkSafe, G!TypeOK
  <2>2. QED
    BY <1>1, <1>3, <2>1 DEF TalkSafe, G!TypeOK, G!Marker
<1>6. TalkGrows /\ TwoInDm'
  BY <1>1 DEF TalkSafe, TalkGrows, TwoInDm, G!Dms
<1>7. NewestUnmarked'
  BY <1>1 DEF TalkSafe, NewestUnmarked, G!Overlap, G!At
<1>8. OwnRow'
  BY <1>1, OwnRowKept
<1>9. OwnIsRead'
  <2>1. ASSUME ~G!Overlap, NEW own \in DOMAIN message
        PROVE  \/ <<message[own].in, message[own].sender>> \in back'
               \/ own <= marker'[message[own].in, message[own].sender]
               \/ \E d \in Talkers : chat[d].pc = "read" /\ chat[d].message = own
    <3>1. PICK j \in 1..MaxConversations, w \in Users : message[own].in = j /\ message[own].sender = w
      BY TalkRows DEF G!Message
    <3>2. \/ <<j, w>> \in back \/ own <= marker[j, w]
          \/ \E d \in Talkers : chat[d].pc = "read" /\ chat[d].message = own
      BY <2>1, <3>1 DEF TalkSafe, OwnIsRead, G!At
    <3>3. own \in Nat /\ m \in Nat /\ marker[k, u] \in Nat
      <4>1. own \in Nat /\ m \in Nat
        BY TalkRows
      <4>2. marker[k, u] \in Nat
        BY <1>2, MarkerIs DEF TalkSafe
      <4>3. QED
        BY <4>1, <4>2
    <3>4. ASSUME own <= marker[j, w] PROVE <<j, w>> \in back' \/ own <= marker'[j, w]
      <4>1. CASE j = k /\ w = u
        <5>1. own <= marker[k, u] /\ marker'[j, w] = m
          BY <1>3, <3>4, <4>1
        <5>2. m < marker[k, u] \/ own <= m
          <6>1. PICK old : old = marker[k, u]
            OBVIOUS
          <6>2. old \in Nat /\ own <= old
            BY <3>3, <5>1, <6>1
          <6>3. m < old \/ own <= m
            <7>1. \A i, j1, n \in Nat : i <= j1 => n < j1 \/ i <= n
              OBVIOUS
            <7>2. own \in Nat /\ m \in Nat
              BY <3>3
            <7>3. QED
              BY <6>2, <7>1, <7>2, Zenon
          <6>4. QED
            BY <6>1, <6>3
        <5>3. QED
          BY <1>4, <4>1, <5>1, <5>2
      <4>2. CASE j # k \/ w # u
        BY <1>3, <3>4, <4>2
      <4>3. QED
        BY <4>1, <4>2
    <3>5. QED
      BY <1>4, <3>1, <3>2, <3>4
  <2>2. QED
    BY <1>1, <2>1 DEF OwnIsRead, G!Overlap, G!At
<1> DEFINE C == {}
<1>10. /\ C \in SUBSET world.calls
       /\ \A d \in Talkers \ C : chat'[d] = chat[d]
       /\ \A c \in C : TalkerKnows(chat[c])'
  BY <1>1
<1>11. \A d \in Talkers \ C : chat[d].pc = "members" => conversation'[chat[d].in].members = {}
  BY <1>1 DEF TalkSafe, TalkerKnows
<1>12. \A w \in Users : \A n \in heard'[w] : n \in heard[w] \/
          /\ n \in DOMAIN message' /\ message'[n].in \in DOMAIN conversation'
          /\ w \in conversation'[message'[n].in].members /\ message'[n].sender # w
  BY <1>1
<1>13. \A n \in DOMAIN message' :
          /\ \A c \in C : chat'[c].message # n
          /\ n \notin DOMAIN message \/ \E c \in C : chat[c].message = n
          => \A w \in due'[n] \ {message'[n].sender} : n \in heard'[w]
  BY <1>1
<1>14. world' = world
  BY <1>1
<1> HIDE DEF C
<1>15. QED
  BY <1>5, <1>6, <1>7, <1>8, <1>9, <1>10, <1>11, <1>12, <1>13, <1>14, TalkGlue, Zenon

LEMMA TalkStepSafe == ASSUME MessagesAssumption PROVE TalkSafe /\ [G!Next]_G!vars => TalkSafe'
<1> SUFFICES ASSUME TalkSafe, [G!Next]_G!vars PROVE TalkSafe'
  OBVIOUS
<1>1. CASE UNCHANGED G!vars
  <2>1. UNCHANGED <<conversation, message, marker, heard, chat, world, due, back>>
    BY <1>1 DEF G!vars
  <2>2. G!TypeOK'
    BY <2>1 DEF TalkSafe, G!TypeOK
  <2>3. (\A c \in Talkers : TalkerKnows(chat[c]))'
    BY <2>1 DEF TalkSafe, TalkerKnows, Two, G!IsMember, G!Others
  <2>4. OthersIdle' /\ OwnRow' /\ TwoInDm'
    BY <2>1 DEF TalkSafe, OthersIdle, OwnRow, TwoInDm, Two, G!At, G!Dms
  <2>5. NewestUnmarked' /\ OwnIsRead' /\ ToldOfMessages'
    BY <2>1 DEF TalkSafe, NewestUnmarked, OwnIsRead, ToldOfMessages, G!At, G!Overlap
  <2>6. G!EveryoneIsTold' /\ G!OnlyMembersAreTold'
    BY <2>1 DEF TalkSafe, G!EveryoneIsTold, G!OnlyMembersAreTold, G!IsMember
  <2>7. QED
    BY <2>2, <2>3, <2>4, <2>5, <2>6 DEF TalkSafe
<1>2. ASSUME NEW c \in world.calls, NEW u \in world.users,
             NEW v \in world.users, NEW people \in SUBSET world.users, G!CreateDm(c, u, v, people)
      PROVE  TalkSafe'
  BY <1>2, ProveCreateDm
<1>3. ASSUME NEW c \in world.calls, NEW u \in world.users,
             NEW people \in SUBSET world.users, G!CreateChannel(c, u, people)
      PROVE  TalkSafe'
  BY <1>3, ProveCreateChannel
<1>4. ASSUME NEW c \in world.calls, NEW u \in world.users,
             NEW k \in DOMAIN conversation, NEW ms \in 1..(Len(message) + 1), NEW past \in BOOLEAN,
             G!CreateMessage(c, u, k, ms, past)
      PROVE  TalkSafe'
  BY <1>4, ProveCreateMessage
<1>5. ASSUME NEW c \in world.calls, NEW v \in world.users, G!Emit(c, v) \/ G!EmitFails(c, v)
      PROVE  TalkSafe'
  BY <1>5, ProveEmit, ProveEmitFails
<1>6. ASSUME NEW c \in world.calls,
             \/ G!InsertConversation(c) \/ G!InsertMembers(c) \/ G!ReadOwn(c)
             \/ G!MemberIds(c) \/ G!Crash(c)
      PROVE  TalkSafe'
  BY <1>6, ProveInsertConversation, ProveInsertMembers, ProveReadOwn, ProveMemberIds, ProveTalkCrash
<1>7. ASSUME NEW u \in world.users, NEW v \in world.users, NEW k \in DOMAIN conversation,
             G!AddMembers(u, k, v)
      PROVE  TalkSafe'
  BY <1>7, ProveAddMembers
<1>8. ASSUME NEW u \in world.users, NEW k \in DOMAIN conversation, NEW m \in DOMAIN message,
             G!MarkRead(u, k, m)
      PROVE  TalkSafe'
  BY <1>8, ProveMarkRead
<1>9. QED
  BY <1>1, <1>2, <1>3, <1>4, <1>5, <1>6, <1>7, <1>8 DEF G!Next

\* Messages are in the order of their milliseconds, and a marker is at a message that is
\* there: without that one's own message could be of a later millisecond than the marker.
TalkTimes ==
    /\ \A m, n \in DOMAIN message : m <= n => message[m].ms <= message[n].ms
    /\ \A k \in 1..MaxConversations, u \in Users : marker[k, u] = 0 \/ marker[k, u] \in DOMAIN message

LEMMA TimesInit == ASSUME MessagesAssumption PROVE G!Init => TalkTimes
<1> SUFFICES ASSUME G!Init PROVE TalkTimes
  OBVIOUS
<1>1. DOMAIN message = {}
  BY DEF G!Init
<1>2. \A k \in 1..MaxConversations, u \in Users : marker[k, u] = 0
  BY DEF G!Init
<1>3. QED
  BY <1>1, <1>2 DEF TalkTimes

LEMMA TimesNew ==
    ASSUME MessagesAssumption, TalkSafe, TalkTimes, NEW c, NEW u, NEW k, NEW ms \in Nat, NEW past,
           G!CreateMessage(c, u, k, ms, past)
    PROVE  TalkTimes'
<1>1. PICK n \in Nat : n = Len(message)
  BY TalkRows
<1>2. PICK row : row = [in |-> k, sender |-> u, ms |-> ms, past |-> past]
  OBVIOUS
<1>3. message' = Append(message, row) /\ marker' = marker /\ row.ms = ms
  BY <1>2 DEF G!CreateMessage
<1>4. \A m \in DOMAIN message : message[m].ms < ms \/ message[m].ms = ms
  BY DEF G!CreateMessage
<1>5. /\ DOMAIN message = 1..n /\ DOMAIN message' = 1..(n + 1) /\ message'[n + 1] = row
      /\ \A m \in 1..n : message'[m] = message[m]
  BY <1>1, <1>3, TalkRows, AppendProperties, LenProperties
<1>6. \A m \in 1..n : message[m].ms \in Nat
  BY <1>5, TalkRows DEF G!Message
<1>7. ASSUME NEW m \in 1..(n + 1), NEW o \in 1..(n + 1), m <= o
      PROVE  message'[m].ms <= message'[o].ms
  <2>1. CASE o = n + 1 /\ m \in 1..n
    <3>1. message'[o].ms = ms /\ message'[m].ms = message[m].ms
      BY <1>3, <1>5, <2>1
    <3>2. message[m].ms \in Nat /\ (message[m].ms < ms \/ message[m].ms = ms)
      BY <1>4, <1>5, <1>6, <2>1
    <3>3. QED
      BY <3>1, <3>2
  <2>2. CASE o = n + 1 /\ m = n + 1
    BY <1>3, <1>5, <2>2
  <2>3. CASE o \in 1..n
    <3>1. m \in 1..n
      BY <1>7, <2>3
    <3>2. QED
      BY <1>5, <1>7, <2>3, <3>1 DEF TalkTimes
  <2>4. QED
    BY <2>1, <2>2, <2>3
<1>8. \A j \in 1..MaxConversations, w \in Users : marker'[j, w] = 0 \/ marker'[j, w] \in DOMAIN message'
  <2>1. 1..n \subseteq 1..(n + 1)
    OBVIOUS
  <2>2. ASSUME NEW j \in 1..MaxConversations, NEW w \in Users
        PROVE  marker[j, w] = 0 \/ marker[j, w] \in 1..(n + 1)
    BY <1>5, <2>1 DEF TalkTimes
  <2>3. QED
    BY <1>3, <1>5, <2>2
<1>9. QED
  BY <1>5, <1>7, <1>8 DEF TalkTimes

LEMMA TimesMarked ==
    ASSUME MessagesAssumption, TalkSafe, TalkTimes, NEW k, NEW u, NEW m \in DOMAIN message,
           marker' = [marker EXCEPT ![<<k, u>>] = m], message' = message
    PROVE  TalkTimes'
<1>1. marker \in [(1..MaxConversations) \X Users -> 0..MaxMessages]
  BY DEF TalkSafe, G!TypeOK, G!Marker
<1>2. \A j \in 1..MaxConversations, w \in Users :
         marker'[j, w] = marker[j, w] \/ marker'[j, w] = m
  BY <1>1
<1>3. QED
  BY <1>2 DEF TalkTimes

LEMMA TimesStep ==
    ASSUME MessagesAssumption
    PROVE  TalkSafe /\ TalkTimes /\ [G!Next]_G!vars => TalkTimes'
<1> SUFFICES ASSUME TalkSafe, TalkTimes, [G!Next]_G!vars PROVE TalkTimes'
  OBVIOUS
<1>1. CASE UNCHANGED <<message, marker>>
  BY <1>1 DEF TalkTimes
<1>2. ASSUME NEW c, NEW u, NEW k, NEW ms \in 1..(Len(message) + 1), NEW past,
             G!CreateMessage(c, u, k, ms, past)
      PROVE  TalkTimes'
  BY <1>2, TimesNew
<1>3. ASSUME NEW c \in world.calls, G!ReadOwn(c) PROVE TalkTimes'
  <2>1. PICK p \in G!CallState : p = chat[c]
    BY TalkerIs
  <2>2. /\ p.pc = "read" /\ message' = message
        /\ marker' = [marker EXCEPT ![<<p.in, p.user>>] = p.message]
    BY <1>3, <2>1 DEF G!ReadOwn, G!At, G!UpsertRead
  <2>3. p.message \in DOMAIN message
    BY <2>1, <2>2, TalkerIs DEF TalkerKnows
  <2>4. QED
    BY <2>2, <2>3, TimesMarked
<1>4. ASSUME NEW u, NEW k, NEW m, G!MarkRead(u, k, m) PROVE TalkTimes'
  BY <1>4, TimesMarked DEF G!MarkRead, G!UpsertRead
<1>5. ASSUME NEW c \in world.calls,
             \/ \E u, v, people : G!CreateDm(c, u, v, people)
             \/ \E u, people : G!CreateChannel(c, u, people)
             \/ \E u : G!Emit(c, u) \/ G!EmitFails(c, u)
             \/ G!InsertConversation(c) \/ G!InsertMembers(c) \/ G!MemberIds(c) \/ G!Crash(c)
      PROVE  UNCHANGED <<message, marker>>
  BY <1>5 DEF G!CreateDm, G!CreateChannel, G!Emit, G!EmitFails, G!InsertConversation,
              G!InsertMembers, G!MemberIds, G!Crash
<1>6. ASSUME NEW u, NEW k, NEW v, G!AddMembers(u, k, v) PROVE UNCHANGED <<message, marker>>
  BY <1>6 DEF G!AddMembers
<1>7. CASE UNCHANGED G!vars
  BY <1>1, <1>7 DEF G!vars
<1>8. QED
  BY <1>1, <1>2, <1>3, <1>4, <1>5, <1>6, <1>7 DEF G!Next

LEMMA TalkUnread == ASSUME MessagesAssumption, TalkSafe, TalkTimes PROVE G!UnreadIsNewer
<1> SUFFICES ASSUME ~G!Overlap, NEW k \in DOMAIN conversation, NEW u \in Users
             PROVE  <<k, u>> \in back \/ \A counted \in G!Unread(k, u) :
                       \A m \in counted, own \in DOMAIN message :
                          message[own].in = k /\ message[own].sender = u
                             /\ message[own].ms > message[m].ms
                          => \E c \in Talkers : G!At(c, "read") /\ chat[c].message = own
  BY DEF G!UnreadIsNewer
<1>1. SUFFICES ASSUME <<k, u>> \notin back, NEW counted \in G!Unread(k, u), NEW m \in counted,
                      NEW own \in DOMAIN message,
                      message[own].in = k, message[own].sender = u, message[own].ms > message[m].ms
               PROVE  \E c \in Talkers : G!At(c, "read") /\ chat[c].message = own
  OBVIOUS
<1>2. PICK old : old = marker[k, u]
  OBVIOUS
<1>3. m \in DOMAIN message /\ G!After(m, old)
  <2>1. PICK rows \in SUBSET G!Newer(k, u) : counted = {n \in rows : message[n].sender # u}
    BY DEF G!Unread
  <2>2. m \in G!Newer(k, u)
    BY <2>1
  <2>3. QED
    BY <1>2, <2>2 DEF G!Newer
<1>4. k \in 1..MaxConversations
  <2>1. k \in 1..Len(conversation) /\ Len(conversation) \in Nat /\ Len(conversation) <= MaxConversations
    BY TalkRows DEF TalkSafe, G!TypeOK
  <2>2. QED
    BY <2>1 DEF MessagesAssumption, G!MessagingAssumption
<1>5. ASSUME old # 0, own <= old PROVE FALSE
  <2>1. old \in DOMAIN message
    BY <1>2, <1>4, <1>5 DEF TalkTimes
  <2>2. message[own].ms <= message[old].ms
    BY <1>5, <2>1 DEF TalkTimes
  <2>3. message[m].ms > message[old].ms \/ message[m].ms = message[old].ms
    BY <1>3, <1>5 DEF G!After
  <2>4. message[m].ms \in Nat /\ message[own].ms \in Nat /\ message[old].ms \in Nat
    BY <1>3, <2>1, TalkRows DEF G!Message
  <2>5. QED
    BY <1>1, <2>2, <2>3, <2>4
<1>6. ~(own <= old)
  <2>1. own \in Nat /\ own # 0
    BY TalkRows
  <2>2. QED
    BY <1>5, <2>1
<1>7. \/ <<message[own].in, message[own].sender>> \in back
      \/ own <= marker[message[own].in, message[own].sender]
      \/ \E c \in Talkers : G!At(c, "read") /\ chat[c].message = own
  BY <1>1 DEF TalkSafe, OwnIsRead
<1>8. <<k, u>> \in back \/ own <= marker[k, u]
         \/ \E c \in Talkers : G!At(c, "read") /\ chat[c].message = own
  BY <1>1, <1>7
<1>9. QED
  BY <1>1, <1>2, <1>6, <1>8

\* The direct messages of just these people, and the handlers that bring another.
Named(people) == {k \in G!Dms : conversation[k].members = people}
Coming(people) ==
    {c \in world.calls : chat[c].pc \in {"create", "members"} /\ chat[c].kind = "dm"
                         /\ chat[c].people = people}

\* While all rows are looked at, one handler finds none and each other may overlook its own.
DmBound ==
    Cardinality(G!Dms) <= world.limit => \A u, v \in Users : u # v =>
        Cardinality(Named({u, v})) + Cardinality(Coming({u, v})) <= Cardinality(world.calls)

LEMMA DmSets ==
    ASSUME MessagesAssumption, G!TypeOK
    PROVE  /\ world.calls \in SUBSET Talkers /\ IsFiniteSet(world.calls)
           /\ Cardinality(world.calls) \in Nat /\ world.limit \in Nat
           /\ IsFiniteSet(G!Dms) /\ Cardinality(G!Dms) \in Nat
           /\ \A people : /\ IsFiniteSet(Named(people)) /\ Cardinality(Named(people)) \in Nat
                          /\ IsFiniteSet(Coming(people)) /\ Cardinality(Coming(people)) \in Nat
                          /\ Cardinality(Coming(people)) <= Cardinality(world.calls)
<1>1. world.calls \in SUBSET Talkers /\ world.limit \in Nat
  BY DEF G!TypeOK, MessagesAssumption, G!MessagingAssumption
<1>2. IsFiniteSet(world.calls)
  BY <1>1, FS_Subset DEF MessagesAssumption
<1>3. IsFiniteSet(G!Dms)
  <2>1. Len(conversation) \in Nat /\ DOMAIN conversation = 1..Len(conversation)
    BY LenProperties DEF G!TypeOK
  <2>2. IsFiniteSet(DOMAIN conversation)
    BY <2>1, FS_Interval
  <2>3. G!Dms \in SUBSET DOMAIN conversation
    BY DEF G!Dms
  <2>4. QED
    BY <2>2, <2>3, FS_Subset
<1>4. ASSUME NEW people
      PROVE  /\ IsFiniteSet(Named(people)) /\ IsFiniteSet(Coming(people))
             /\ Cardinality(Coming(people)) <= Cardinality(world.calls)
  <2>1. Named(people) \in SUBSET G!Dms /\ Coming(people) \in SUBSET world.calls
    BY DEF Named, Coming
  <2>2. QED
    BY <1>2, <1>3, <2>1, FS_Subset
<1>5. QED
  BY <1>1, <1>2, <1>3, <1>4, FS_CardinalityType

LEMMA Fewer ==
    ASSUME NEW A, NEW B, IsFiniteSet(A), IsFiniteSet(B), NEW n \in Nat,
           Cardinality(A) + Cardinality(B) <= n, NEW A2, NEW B2,
           \/ A2 \subseteq A /\ B2 \subseteq B
           \/ \E a, b : A2 \subseteq A \cup {a} /\ b \in B /\ B2 \subseteq B \ {b}
    PROVE  Cardinality(A2) + Cardinality(B2) <= n
<1>1. Cardinality(A) \in Nat /\ Cardinality(B) \in Nat
  BY FS_CardinalityType
<1>2. CASE A2 \subseteq A /\ B2 \subseteq B
  <2>1. /\ IsFiniteSet(A2) /\ IsFiniteSet(B2)
        /\ Cardinality(A2) <= Cardinality(A) /\ Cardinality(B2) <= Cardinality(B)
    BY <1>2, FS_Subset
  <2>2. QED
    BY <1>1, <2>1, FS_CardinalityType
<1>3. ASSUME NEW a, NEW b, A2 \subseteq A \cup {a}, b \in B, B2 \subseteq B \ {b}
      PROVE  Cardinality(A2) + Cardinality(B2) <= n
  <2>1. /\ IsFiniteSet(A \cup {a}) /\ Cardinality(A \cup {a}) <= Cardinality(A) + 1
        /\ IsFiniteSet(B \ {b}) /\ Cardinality(B \ {b}) = Cardinality(B) - 1
    <3>1. IsFiniteSet(A \cup {a}) /\ Cardinality(A \cup {a}) <= Cardinality(A) + 1
      <4>1. Cardinality(A \cup {a}) = IF a \in A THEN Cardinality(A) ELSE Cardinality(A) + 1
        BY FS_AddElement
      <4>2. QED
        BY <1>1, <4>1, FS_AddElement
    <3>2. IsFiniteSet(B \ {b}) /\ Cardinality(B \ {b}) = Cardinality(B) - 1
      BY <1>3, FS_RemoveElement
    <3>3. QED
      BY <3>1, <3>2
  <2>2. /\ IsFiniteSet(A2) /\ IsFiniteSet(B2)
        /\ Cardinality(A2) <= Cardinality(A \cup {a}) /\ Cardinality(B2) <= Cardinality(B \ {b})
    BY <1>3, <2>1, FS_Subset
  <2>3. Cardinality(A2) \in Nat /\ Cardinality(B2) \in Nat /\ Cardinality(A \cup {a}) \in Nat
    BY <2>1, <2>2, FS_CardinalityType
  <2>4. QED
    BY <1>1, <2>1, <2>2, <2>3
<1>4. QED
  BY <1>2, <1>3

LEMMA DmGlue ==
    ASSUME MessagesAssumption, TalkSafe, TalkSafe', DmBound, world' = world, G!Dms \subseteq G!Dms',
           Cardinality(G!Dms) <= world.limit => \A u, v \in Users : u # v =>
               \/ Named({u, v})' \subseteq Named({u, v}) /\ Coming({u, v})' \subseteq Coming({u, v})
               \/ \E k, c : /\ Named({u, v})' \subseteq Named({u, v}) \cup {k} /\ c \in Coming({u, v})
                            /\ Coming({u, v})' \subseteq Coming({u, v}) \ {c}
               \/ Named({u, v})' = {}
    PROVE  DmBound'
<1>1. SUFFICES ASSUME Cardinality(G!Dms') <= world.limit, NEW u \in Users, NEW v \in Users, u # v
               PROVE  Cardinality(Named({u, v})') + Cardinality(Coming({u, v})') <= Cardinality(world.calls)
  BY DEF DmBound
<1>2. /\ IsFiniteSet(G!Dms') /\ Cardinality(G!Dms') \in Nat
      /\ Cardinality(Coming({u, v})') \in Nat
      /\ Cardinality(Coming({u, v})') <= Cardinality(world'.calls)
  <2>1. Len(conversation') \in Nat /\ DOMAIN conversation' = 1..Len(conversation')
    BY LenProperties DEF TalkSafe, G!TypeOK
  <2>2. IsFiniteSet(DOMAIN conversation')
    BY <2>1, FS_Interval
  <2>3. G!Dms' \in SUBSET DOMAIN conversation'
    BY DEF G!Dms
  <2>4. IsFiniteSet(world.calls) /\ Coming({u, v})' \in SUBSET world.calls
    BY DmSets DEF TalkSafe, Coming
  <2>5. /\ IsFiniteSet(G!Dms') /\ IsFiniteSet(Coming({u, v})')
        /\ Cardinality(Coming({u, v})') <= Cardinality(world.calls)
    BY <2>2, <2>3, <2>4, FS_Subset
  <2>6. QED
    BY <2>5, FS_CardinalityType
<1>3. /\ IsFiniteSet(Named({u, v})) /\ IsFiniteSet(Coming({u, v}))
      /\ Cardinality(world.calls) \in Nat /\ world.limit \in Nat /\ Cardinality(G!Dms) \in Nat
  BY DmSets DEF TalkSafe
<1>4. Cardinality(G!Dms) <= world.limit
  <2>1. Cardinality(G!Dms) <= Cardinality(G!Dms')
    BY <1>2, FS_Subset
  <2>2. QED
    BY <1>1, <1>2, <1>3, <2>1
<1>5. Cardinality(Named({u, v})) + Cardinality(Coming({u, v})) <= Cardinality(world.calls)
  BY <1>1, <1>4 DEF DmBound
<1>6. CASE Named({u, v})' = {}
  <2>1. Cardinality(Named({u, v})') = 0
    BY <1>6, FS_EmptySet
  <2>2. QED
    BY <1>2, <1>3, <2>1
<1>7. CASE ~(Named({u, v})' = {})
  <2>1. \/ Named({u, v})' \subseteq Named({u, v}) /\ Coming({u, v})' \subseteq Coming({u, v})
        \/ \E k, c : /\ Named({u, v})' \subseteq Named({u, v}) \cup {k} /\ c \in Coming({u, v})
                     /\ Coming({u, v})' \subseteq Coming({u, v}) \ {c}
    BY <1>1, <1>4, <1>7
  <2>2. PICK A, B, A2, B2, n :
           /\ A = Named({u, v}) /\ B = Coming({u, v})
           /\ A2 = Named({u, v})' /\ B2 = Coming({u, v})' /\ n = Cardinality(world.calls)
    OBVIOUS
  <2>3. /\ IsFiniteSet(A) /\ IsFiniteSet(B) /\ n \in Nat /\ Cardinality(A) + Cardinality(B) <= n
    BY <1>3, <1>5, <2>2
  <2>4. Cardinality(A2) + Cardinality(B2) <= n
    <3>1. CASE A2 \subseteq A /\ B2 \subseteq B
      BY <2>3, <3>1, Fewer
    <3>2. CASE \E a, b : A2 \subseteq A \cup {a} /\ b \in B /\ B2 \subseteq B \ {b}
      BY <2>3, <3>2, Fewer
    <3>3. QED
      BY <2>1, <2>2, <3>1, <3>2
  <2>5. QED
    BY <2>2, <2>4
<1>8. QED
  BY <1>6, <1>7

\* A step that brings no direct message of two, neither a row nor a handler.
LEMMA DmKept ==
    ASSUME MessagesAssumption, TalkSafe, TalkSafe', DmBound, world' = world,
           \A k \in DOMAIN conversation : k \in DOMAIN conversation' /\ conversation'[k].kind = conversation[k].kind,
           \A k \in DOMAIN conversation' :
               \/ k \in DOMAIN conversation /\ conversation'[k].members = conversation[k].members
               \/ conversation'[k].kind # "dm"
               \/ \A u, v \in Users : u # v => conversation'[k].members # {u, v},
           \A c \in Talkers :
               chat'[c].pc \in {"create", "members"} /\ chat'[c].kind = "dm" =>
                   /\ chat[c].pc \in {"create", "members"} /\ chat[c].kind = "dm"
                   /\ chat[c].people = chat'[c].people
    PROVE  DmBound'
<1>1. G!Dms \subseteq G!Dms'
  BY DEF G!Dms
<1>2. world.calls \subseteq Talkers
  BY DmSets DEF TalkSafe
<1>3. ASSUME NEW u \in Users, NEW v \in Users, u # v
      PROVE  Named({u, v})' \subseteq Named({u, v}) /\ Coming({u, v})' \subseteq Coming({u, v})
  <2>1. Coming({u, v})' \subseteq Coming({u, v})
    BY <1>2 DEF Coming
  <2>2. Named({u, v})' \subseteq Named({u, v})
    BY <1>3 DEF Named, G!Dms
  <2>3. QED
    BY <2>1, <2>2
<1>4. QED
  BY <1>1, <1>3, DmGlue

LEMMA DmCreate ==
    ASSUME MessagesAssumption, TalkSafe, TalkSafe', DmBound, NEW c \in world.calls, NEW u \in world.users,
           NEW v \in world.users, NEW people \in SUBSET world.users, G!CreateDm(c, u, v, people)
    PROVE  DmBound'
<1>1. PICK all, q : all = people \cup {u, v}
         /\ q = [G!Idle EXCEPT !.pc = "create", !.user = u, !.people = all]
  OBVIOUS
<1>2. /\ u # v /\ chat' = [chat EXCEPT ![c] = q]
      /\ \E rows \in G!kSubset(G!Min({world.limit, G!Cardinality(G!Dms)}), G!Dms) :
            \A k \in rows : conversation[k].members # {u, v}
      /\ conversation' = conversation /\ world' = world
  BY <1>1 DEF G!CreateDm, G!FoundDm, G!Rest
<1>3. q.people = all
  BY <1>1 DEF G!Idle
<1>4. chat'[c] = q /\ \A d \in Talkers \ {c} : chat'[d] = chat[d]
  BY <1>2, TalkerIs
<1>5. G!Dms' = G!Dms /\ \A few : Named(few)' = Named(few)
  BY <1>2 DEF G!Dms, Named
<1>6. \A few : few # all => Coming(few)' \subseteq Coming(few)
  BY <1>2, <1>3, <1>4, DmSets DEF Coming, TalkSafe
<1>7. Cardinality(G!Dms) <= world.limit => Named({u, v}) = {}
  <2>1. SUFFICES ASSUME Cardinality(G!Dms) <= world.limit PROVE Named({u, v}) = {}
    OBVIOUS
  <2>2. PICK n, limit : n = Cardinality(G!Dms) /\ limit = world.limit
    OBVIOUS
  <2>3. n \in Nat /\ limit \in Nat /\ n <= limit
    BY <2>1, <2>2, DmSets DEF TalkSafe
  <2>4. G!Min({limit, n}) = n
    BY <2>3 DEF G!Min
  <2>5. \A S : G!Cardinality(S) = Cardinality(S)
    BY DEF G!Cardinality, Cardinality
  <2>6. PICK rows \in G!kSubset(n, G!Dms) : \A k \in rows : conversation[k].members # {u, v}
    BY <1>2, <2>2, <2>4, <2>5
  <2>7. rows \in SUBSET G!Dms /\ Cardinality(rows) = Cardinality(G!Dms)
    BY <2>2, <2>5, <2>6 DEF G!kSubset
  <2>8. rows = G!Dms
    BY <2>7, DmSets, FS_Subset DEF TalkSafe
  <2>9. QED
    BY <2>6, <2>8 DEF Named
<1>8. ASSUME Cardinality(G!Dms) <= world.limit, NEW w \in Users, NEW z \in Users, w # z
      PROVE  \/ Named({w, z})' \subseteq Named({w, z}) /\ Coming({w, z})' \subseteq Coming({w, z})
             \/ Named({w, z})' = {}
  <2>1. CASE {w, z} = all
    <3>1. {w, z} = {u, v}
      BY <1>1, <1>2, <1>8, <2>1
    <3>2. QED
      BY <1>5, <1>7, <1>8, <3>1
  <2>2. CASE {w, z} # all
    BY <1>5, <1>6, <2>2
  <2>3. QED
    BY <2>1, <2>2
<1>9. G!Dms \subseteq G!Dms' /\ world' = world
  BY <1>2, <1>5
<1>10. QED
  BY <1>8, <1>9, DmGlue

LEMMA DmInsertMembers ==
    ASSUME MessagesAssumption, TalkSafe, TalkSafe', DmBound, NEW c \in world.calls, G!InsertMembers(c)
    PROVE  DmBound'
<1>1. PICK p \in G!CallState : p = chat[c]
  BY TalkerIs
<1>2. /\ p.pc = "members" /\ chat' = [chat EXCEPT ![c] = G!Idle] /\ world' = world
      /\ conversation' = [conversation EXCEPT ![p.in].members = @ \cup p.people]
  BY <1>1 DEF G!InsertMembers, G!At, G!Return, G!Rest
<1>3. /\ p.in \in DOMAIN conversation /\ conversation[p.in].kind = p.kind
      /\ conversation[p.in].members = {} /\ p.people \in SUBSET Users
  BY <1>1, <1>2, TalkerIs DEF TalkerKnows, G!CallState
<1>4. /\ DOMAIN conversation' = DOMAIN conversation
      /\ \A j \in DOMAIN conversation : j # p.in => conversation'[j] = conversation[j]
      /\ conversation'[p.in].kind = p.kind /\ conversation'[p.in].members = p.people
  <2>1. /\ DOMAIN conversation' = DOMAIN conversation
        /\ \A j \in DOMAIN conversation : j # p.in => conversation'[j] = conversation[j]
        /\ conversation'[p.in].kind = conversation[p.in].kind
        /\ conversation'[p.in].members = conversation[p.in].members \cup p.people
    BY <1>2, <1>3, MoreMembers
  <2>2. QED
    BY <1>3, <2>1
<1>5. /\ chat'[c].pc = "idle" /\ (\A d \in Talkers \ {c} : chat'[d] = chat[d])
      /\ c \in Talkers /\ world.calls \subseteq Talkers
  BY <1>2, IdleTalker, TalkerIs
<1>6. G!Dms' = G!Dms
  BY <1>3, <1>4 DEF G!Dms
<1>7. ASSUME NEW people
      PROVE  \/ Named(people)' \subseteq Named(people) /\ Coming(people)' \subseteq Coming(people)
             \/ \E k, d : /\ Named(people)' \subseteq Named(people) \cup {k} /\ d \in Coming(people)
                          /\ Coming(people)' \subseteq Coming(people) \ {d}
  <2>1. Coming(people)' \subseteq Coming(people) \ {c}
    BY <1>2, <1>5 DEF Coming
  <2>2. Named(people)' \subseteq Named(people) \cup {p.in}
    BY <1>4, <1>6 DEF Named, G!Dms
  <2>3. CASE people = p.people /\ p.kind = "dm"
    <3>1. c \in Coming(people)
      BY <1>1, <1>2, <2>3 DEF Coming
    <3>2. QED
      BY <2>1, <2>2, <3>1
  <2>4. CASE people # p.people \/ p.kind # "dm"
    <3>1. p.in \notin Named(people)'
      BY <1>4, <2>4 DEF Named, G!Dms
    <3>2. QED
      BY <2>1, <2>2, <3>1
  <2>5. QED
    BY <2>3, <2>4
<1>8. G!Dms \subseteq G!Dms' /\ world' = world
  BY <1>2, <1>6
<1>9. QED
  BY <1>7, <1>8, DmGlue

LEMMA DmInsertConversation ==
    ASSUME MessagesAssumption, TalkSafe, TalkSafe', DmBound, NEW c \in world.calls,
           G!InsertConversation(c)
    PROVE  DmBound'
<1>1. PICK p \in G!CallState : p = chat[c]
  BY TalkerIs
<1>2. PICK q : q = [p EXCEPT !.pc = "members", !.in = Len(conversation) + 1]
  OBVIOUS
<1>3. PICK row : row = [kind |-> p.kind, members |-> {}]
  OBVIOUS
<1>4. /\ p.pc = "create" /\ chat' = [chat EXCEPT ![c] = q] /\ world' = world
      /\ conversation' = Append(conversation, row)
  BY <1>1, <1>2, <1>3 DEF G!InsertConversation, G!At, G!Rest
<1>5. q.kind = p.kind /\ q.people = p.people
  BY <1>2 DEF G!CallState
<1>6. chat'[c] = q /\ \A d \in Talkers \ {c} : chat'[d] = chat[d]
  BY <1>4, TalkerIs
<1>7. row \in G!Conversation /\ row.members = {}
  BY <1>3 DEF G!CallState, G!Conversation
<1>8. /\ DOMAIN conversation' = 1..(Len(conversation) + 1)
      /\ conversation'[Len(conversation) + 1] = row
      /\ \A k \in 1..Len(conversation) : conversation'[k] = conversation[k]
  BY <1>4, <1>7, TalkRows, AppendProperties, LenProperties
<1>9. \A k \in DOMAIN conversation : k \in DOMAIN conversation' /\ conversation'[k] = conversation[k]
  BY <1>8, TalkRows
<1>10. \A k \in DOMAIN conversation' : k \in DOMAIN conversation \/ conversation'[k].members = {}
  BY <1>7, <1>8, TalkRows
<1>11. \A d \in Talkers : chat'[d].pc \in {"create", "members"} /\ chat'[d].kind = "dm" =>
          /\ chat[d].pc \in {"create", "members"} /\ chat[d].kind = "dm"
          /\ chat[d].people = chat'[d].people
  BY <1>1, <1>4, <1>5, <1>6
<1>12. \A k \in DOMAIN conversation' :
          \/ k \in DOMAIN conversation /\ conversation'[k].members = conversation[k].members
          \/ conversation'[k].kind # "dm"
          \/ \A u, v \in Users : u # v => conversation'[k].members # {u, v}
  BY <1>9, <1>10
<1>13. \A k \in DOMAIN conversation :
          k \in DOMAIN conversation' /\ conversation'[k].kind = conversation[k].kind
  BY <1>9
<1>14. world' = world
  BY <1>4
<1>15. QED
  BY <1>11, <1>12, <1>13, <1>14, DmKept

LEMMA DmAddMembers ==
    ASSUME MessagesAssumption, TalkSafe, TalkSafe', DmBound, NEW u \in world.users, NEW v \in world.users,
           NEW k \in DOMAIN conversation, G!AddMembers(u, k, v)
    PROVE  DmBound'
<1>1. /\ u \in conversation[k].members
      /\ conversation' = [conversation EXCEPT ![k].members = @ \cup {v}]
      /\ chat' = chat /\ world' = world
  BY DEF G!AddMembers, G!IsMember, G!Rest
<1>2. {v} \in SUBSET Users
  BY DEF TalkSafe, G!TypeOK, MessagesAssumption, G!MessagingAssumption
<1>3. /\ DOMAIN conversation' = DOMAIN conversation
      /\ \A j \in DOMAIN conversation : j # k => conversation'[j] = conversation[j]
      /\ conversation'[k].kind = conversation[k].kind
      /\ conversation'[k].members = conversation[k].members \cup {v}
  BY <1>1, <1>2, MoreMembers
<1>4. \/ conversation'[k].members = conversation[k].members
      \/ conversation'[k].kind # "dm"
      \/ \A w, z \in Users : w # z => conversation'[k].members # {w, z}
  <2>1. SUFFICES ASSUME conversation[k].kind = "dm", NEW w \in Users, NEW z \in Users, w # z,
                        conversation[k].members \cup {v} = {w, z}
                 PROVE  conversation[k].members \cup {v} = conversation[k].members
    BY <1>3
  <2>2. k \in G!Dms
    BY <2>1 DEF G!Dms
  <2>3. PICK a \in conversation[k].members, b \in conversation[k].members : a # b
    BY <1>1, <2>2 DEF TalkSafe, TwoInDm, Two
  <2>4. QED
    BY <2>1, <2>3
<1>5. \A j \in DOMAIN conversation' :
         \/ j \in DOMAIN conversation /\ conversation'[j].members = conversation[j].members
         \/ conversation'[j].kind # "dm"
         \/ \A w, z \in Users : w # z => conversation'[j].members # {w, z}
  BY <1>3, <1>4
<1>6. \A j \in DOMAIN conversation :
         j \in DOMAIN conversation' /\ conversation'[j].kind = conversation[j].kind
  BY <1>3
<1>7. \A d \in Talkers : chat'[d].pc \in {"create", "members"} /\ chat'[d].kind = "dm" =>
         /\ chat[d].pc \in {"create", "members"} /\ chat[d].kind = "dm"
         /\ chat[d].people = chat'[d].people
  BY <1>1
<1>8. world' = world
  BY <1>1
<1>9. QED
  BY <1>5, <1>6, <1>7, <1>8, DmKept

\* A handler that comes to create no direct message, and no row.
LEMMA DmElsewhere ==
    ASSUME MessagesAssumption, TalkSafe, TalkSafe', DmBound, UNCHANGED <<conversation, world>>,
           \A d \in Talkers : chat'[d] = chat[d] \/ chat'[d].pc \notin {"create", "members"}
                            \/ chat'[d].kind = "channel"
    PROVE  DmBound'
<1>1. \A d \in Talkers : chat'[d].pc \in {"create", "members"} /\ chat'[d].kind = "dm" =>
         /\ chat[d].pc \in {"create", "members"} /\ chat[d].kind = "dm"
         /\ chat[d].people = chat'[d].people
  OBVIOUS
<1>2. QED
  BY <1>1, DmKept

LEMMA DmStepOther ==
    ASSUME MessagesAssumption, TalkSafe, TalkSafe', DmBound, NEW c \in world.calls,
           \/ \E u \in world.users :
                 \/ \E people \in SUBSET world.users : G!CreateChannel(c, u, people)
                 \/ \E k \in DOMAIN conversation, ms \in 1..(Len(message) + 1), past \in BOOLEAN :
                       G!CreateMessage(c, u, k, ms, past)
                 \/ G!Emit(c, u) \/ G!EmitFails(c, u)
           \/ G!ReadOwn(c) \/ G!MemberIds(c) \/ G!Crash(c)
    PROVE  DmBound'
<1>1. PICK p \in G!CallState : p = chat[c]
  BY TalkerIs
<1>2. /\ UNCHANGED <<conversation, world>>
      /\ \E q : /\ chat' = [chat EXCEPT ![c] = q]
                /\ q.pc \notin {"create", "members"} \/ q.kind = "channel"
  <2>1. ASSUME NEW u \in world.users, NEW people \in SUBSET world.users, G!CreateChannel(c, u, people)
        PROVE  /\ UNCHANGED <<conversation, world>>
               /\ \E q : /\ chat' = [chat EXCEPT ![c] = q]
                         /\ q.pc \notin {"create", "members"} \/ q.kind = "channel"
    <3>1. PICK q : q = [G!Idle EXCEPT !.pc = "create", !.user = u, !.people = people \cup {u},
                                         !.kind = "channel"]
      OBVIOUS
    <3>2. q.kind = "channel"
      BY <3>1 DEF G!Idle
    <3>3. chat' = [chat EXCEPT ![c] = q] /\ UNCHANGED <<conversation, world>>
      BY <2>1, <3>1 DEF G!CreateChannel, G!Rest
    <3>4. QED
      BY <3>2, <3>3
  <2>2. ASSUME NEW u \in world.users, NEW k \in DOMAIN conversation, NEW ms, NEW past,
               G!CreateMessage(c, u, k, ms, past)
        PROVE  /\ UNCHANGED <<conversation, world>>
               /\ \E q : /\ chat' = [chat EXCEPT ![c] = q]
                         /\ q.pc \notin {"create", "members"} \/ q.kind = "channel"
    <3>1. PICK q : q = [G!Idle EXCEPT !.pc = "read", !.user = u, !.in = k, !.message = Len(message) + 1]
      OBVIOUS
    <3>2. q.pc = "read"
      BY <3>1 DEF G!Idle
    <3>3. chat' = [chat EXCEPT ![c] = q] /\ UNCHANGED <<conversation, world>>
      BY <2>2, <3>1 DEF G!CreateMessage
    <3>4. QED
      BY <3>2, <3>3
  <2>3. ASSUME NEW u \in world.users, G!Emit(c, u) \/ G!EmitFails(c, u)
        PROVE  /\ UNCHANGED <<conversation, world>>
               /\ \E q : /\ chat' = [chat EXCEPT ![c] = q]
                         /\ q.pc \notin {"create", "members"} \/ q.kind = "channel"
    <3>1. PICK q : q = [p EXCEPT !.people = p.people \ {u}]
      OBVIOUS
    <3>2. p.pc = "emit" /\ q.pc = p.pc
      BY <1>1, <2>3, <3>1 DEF G!Emit, G!EmitFails, G!At, G!CallState
    <3>3. chat' = [chat EXCEPT ![c] = q] \/ chat' = [chat EXCEPT ![c] = G!Idle]
      BY <1>1, <2>3, <3>1 DEF G!Emit, G!EmitFails, G!Return
    <3>4. UNCHANGED <<conversation, world>>
      BY <2>3 DEF G!Emit, G!EmitFails, G!Rest
    <3>5. QED
      BY <3>2, <3>3, <3>4, IdleTalker
  <2>4. CASE G!ReadOwn(c)
    <3>1. PICK q : q = [p EXCEPT !.pc = "others"]
      OBVIOUS
    <3>2. q.pc = "others"
      BY <3>1 DEF G!CallState
    <3>3. chat' = [chat EXCEPT ![c] = q] /\ UNCHANGED <<conversation, world>>
      BY <1>1, <2>4, <3>1 DEF G!ReadOwn, G!Rest
    <3>4. QED
      BY <3>2, <3>3
  <2>5. CASE G!MemberIds(c)
    <3>1. PICK others : others = conversation[p.in].members \ {p.user}
      OBVIOUS
    <3>2. PICK q : q = [p EXCEPT !.pc = "emit", !.people = others]
      OBVIOUS
    <3>3. q.pc = "emit"
      BY <3>2 DEF G!CallState
    <3>4. /\ chat' = [chat EXCEPT ![c] = q] \/ chat' = [chat EXCEPT ![c] = G!Idle]
          /\ UNCHANGED <<conversation, world>>
      BY <1>1, <2>5, <3>1, <3>2 DEF G!MemberIds, G!Others, G!Return, G!Rest
    <3>5. QED
      BY <3>3, <3>4, IdleTalker
  <2>6. CASE G!Crash(c)
    BY <2>6, IdleTalker DEF G!Crash, G!Return
  <2>7. QED
    BY <2>1, <2>2, <2>3, <2>4, <2>5, <2>6
<1>3. PICK q : /\ chat' = [chat EXCEPT ![c] = q]
               /\ q.pc \notin {"create", "members"} \/ q.kind = "channel"
  BY <1>2
<1>4. chat'[c] = q /\ \A d \in Talkers \ {c} : chat'[d] = chat[d]
  BY <1>3, TalkerIs
<1>5. QED
  BY <1>2, <1>3, <1>4, DmElsewhere

LEMMA DmInit == ASSUME MessagesAssumption PROVE G!Init => DmBound
<1> SUFFICES ASSUME G!Init PROVE DmBound
  OBVIOUS
<1>1. TalkSafe
  BY TalkInit
<1>2. G!Dms = {} /\ \A c \in Talkers : chat[c].pc = "idle"
  BY IdleTalker DEF G!Init, G!Dms
<1>3. \A people : Named(people) = {} /\ Coming(people) = {}
  BY <1>1, <1>2, DmSets DEF Named, Coming, TalkSafe
<1>4. Cardinality(world.calls) \in Nat
  BY <1>1, DmSets DEF TalkSafe
<1>5. \A people : Cardinality(Named(people)) + Cardinality(Coming(people)) <= Cardinality(world.calls)
  BY <1>3, <1>4, FS_EmptySet
<1>6. QED
  BY <1>5 DEF DmBound

LEMMA DmStep ==
    ASSUME MessagesAssumption
    PROVE  TalkSafe /\ TalkSafe' /\ DmBound /\ [G!Next]_G!vars => DmBound'
<1> SUFFICES ASSUME TalkSafe, TalkSafe', DmBound, [G!Next]_G!vars PROVE DmBound'
  OBVIOUS
<1>1. CASE UNCHANGED G!vars
  BY <1>1, DmElsewhere DEF G!vars
<1>2. ASSUME NEW c \in world.calls, NEW u \in world.users,
             NEW v \in world.users, NEW people \in SUBSET world.users, G!CreateDm(c, u, v, people)
      PROVE  DmBound'
  BY <1>2, DmCreate
<1>3. ASSUME NEW c \in world.calls, G!InsertConversation(c) \/ G!InsertMembers(c)
      PROVE  DmBound'
  BY <1>3, DmInsertConversation, DmInsertMembers
<1>4. ASSUME NEW c \in world.calls,
             \/ \E u \in world.users :
                   \/ \E people \in SUBSET world.users : G!CreateChannel(c, u, people)
                   \/ \E k \in DOMAIN conversation, ms \in 1..(Len(message) + 1), past \in BOOLEAN :
                       G!CreateMessage(c, u, k, ms, past)
                   \/ G!Emit(c, u) \/ G!EmitFails(c, u)
             \/ G!ReadOwn(c) \/ G!MemberIds(c) \/ G!Crash(c)
      PROVE  DmBound'
  BY <1>4, DmStepOther
<1>5. ASSUME NEW u \in world.users, NEW v \in world.users, NEW k \in DOMAIN conversation,
             G!AddMembers(u, k, v)
      PROVE  DmBound'
  BY <1>5, DmAddMembers
<1>6. ASSUME NEW u \in world.users, NEW k \in DOMAIN conversation, NEW m \in DOMAIN message,
             G!MarkRead(u, k, m)
      PROVE  DmBound'
  BY <1>6, DmElsewhere DEF G!MarkRead
<1>7. QED
  BY <1>1, <1>2, <1>3, <1>4, <1>5, <1>6 DEF G!Next

LEMMA DmFound == ASSUME MessagesAssumption, TalkSafe, DmBound PROVE G!OneDm
<1>1. \A S : G!Cardinality(S) = Cardinality(S)
  BY DEF G!Cardinality, Cardinality
<1>2. SUFFICES ASSUME Cardinality(G!Dms) <= world.limit, NEW u \in Users, NEW v \in Users, u # v
               PROVE  Cardinality(Named({u, v})) <= Cardinality(world.calls)
  BY <1>1 DEF G!OneDm, Named
<1>3. /\ Cardinality(Named({u, v})) \in Nat /\ Cardinality(Coming({u, v})) \in Nat
      /\ Cardinality(world.calls) \in Nat
  BY DmSets DEF TalkSafe
<1>4. Cardinality(Named({u, v})) + Cardinality(Coming({u, v})) <= Cardinality(world.calls)
  BY <1>2 DEF DmBound
<1>5. QED
  BY <1>3, <1>4

-----------------------------------------------------------------------------
(* Workforce *)

\* What a handler knows is so: the rows it is to insert, the employee it asks a login
\* for, the request that it decides.
Creating == {"code", "insert"}
Asking == {"raise", "ask"}
Approving == {"seats", "provision", "decide"}
In(c, pcs) == call[c].pc \in pcs
Linked(e, p) == e \in W!Existing => employee[e].user = p

CreatorsKnow ==
    \A c \in Calls :
        /\ In(c, Creating) => /\ call[c].left \in 1..size.batch
                              /\ call[c].email # Null => call[c].role \in W!Role
        /\ W!At(c, "insert") => call[c].code \in 1..size.codes
AskersKnow ==
    \A c \in Calls : In(c, Asking) =>
        /\ call[c].employee \in Employees /\ employee[call[c].employee] # Null
        /\ call[c].email \in People /\ call[c].role \in W!Role
        /\ \A i \in DOMAIN asked : asked[i].employee # call[c].employee
        /\ \A d \in Calls : In(d, Asking) /\ call[d].employee = call[c].employee => c = d
DecidersKnow ==
    \A c \in Calls :
        /\ W!At(c, "refuse") => call[c].request \in DOMAIN asked
        /\ In(c, Approving) => /\ call[c].request \in DOMAIN asked
                               /\ call[c].employee = asked[call[c].request].employee
                               /\ call[c].email = asked[call[c].request].email
                               /\ call[c].role = asked[call[c].request].role
        /\ W!At(c, "decide") => /\ call[c].email \in member /\ membership[call[c].email] # Null
                                /\ Linked(call[c].employee, call[c].email)

\* One login is asked for of an employee.
OneEach ==
    /\ \A i \in DOMAIN asked : employee[asked[i].employee] # Null
    /\ \A i, j \in DOMAIN asked : asked[i].employee = asked[j].employee => i = j

\* The rows that handlers have yet to insert, and the approvals that have a seat.
Left == {w \in Calls \X (1..size.batch) : In(w[1], Creating) /\ w[2] <= call[w[1]].left}
Seated == {c \in Calls : W!At(c, "provision")}
Others == IF size.serial THEN 0 ELSE Cardinality(Calls) - 1
RoomLeft ==
    /\ Cardinality(W!Existing) + Cardinality(Left) <= size.limit + Others * size.batch
    /\ Cardinality(W!Members) + Cardinality(Seated) <= size.seats + Others

\* Where handlers run one at a time.
OneCall == \A c, d \in Calls : ~W!At(c, "idle") /\ ~W!At(d, "idle") => c = d
CodesNew ==
    /\ ~collided
    /\ \A c \in Calls : W!At(c, "insert") /\ call[c].generated =>
            \A e \in W!Existing : employee[e].code # call[c].code
Settled(i) == asked[i].status # "pending" /\ ~asked[i].cooling
RequestsInTurn ==
    /\ \A i \in DOMAIN asked : asked[i].cooling => asked[i].status = "rejected"
    /\ \A c \in Calls :
        /\ In(c, Approving) \/ W!At(c, "refuse") => W!Pending(call[c].request)
        /\ W!At(c, "ask") => \A i \in DOMAIN asked :
                asked[i].email = call[c].email /\ ~asked[i].deleted => Settled(i)
Serial == size.serial => OneCall /\ CodesNew /\ RequestsInTurn

StaffSafe ==
    /\ W!TypeOK /\ CreatorsKnow /\ AskersKnow /\ DecidersKnow /\ OneEach /\ RoomLeft /\ Serial
    /\ W!OneAtATime /\ W!ApprovedIsIn /\ W!OnlyApprovedAreIn

\* What the assumptions say, in the words of the library.
LEMMA StaffConstants ==
    /\ IsFiniteSet(Calls) /\ Calls # {} /\ IsFiniteSet(Employees) /\ IsFiniteSet(People)
    /\ Cardinality(Calls) \in Nat /\ Cardinality(Calls) >= 1
    /\ Founder \in People /\ "owner" \in W!Role
    /\ Null \notin Employees /\ Null \notin People /\ Null \notin W!Role
    /\ \A S : W!Cardinality(S) = Cardinality(S)
<1>1. \A S : W!Cardinality(S) = Cardinality(S)
  BY DEF W!Cardinality, Cardinality
<1>2. \A S : W!IsFiniteSet(S) => IsFiniteSet(S)
  BY DEF W!IsFiniteSet, IsFiniteSet
<1>3. /\ IsFiniteSet(Calls) /\ Calls # {} /\ IsFiniteSet(Employees) /\ IsFiniteSet(People)
  BY <1>2, StaffAssumption DEF W!WorkforceAssumption
<1>4. Cardinality(Calls) \in Nat /\ Cardinality(Calls) >= 1
  BY <1>3, FS_CardinalityType, FS_EmptySet
<1>5. Founder \in People /\ Null \notin Employees /\ Null \notin People /\ Null \notin W!Role
  BY StaffAssumption DEF W!WorkforceAssumption
<1>6. "owner" \in W!Role
  <2>1. 1 \in DOMAIN W!MEMBERSHIP_ROLES /\ W!MEMBERSHIP_ROLES[1] = "owner"
    BY DEF W!MEMBERSHIP_ROLES
  <2>2. QED
    BY <2>1 DEF W!Role, W!Range
<1>7. QED
  BY <1>1, <1>3, <1>4, <1>5, <1>6

LEMMA SizesTyped ==
    ASSUME W!TypeOK
    PROVE  /\ size \in W!Size /\ size.limit \in Nat /\ size.seats \in Nat /\ size.batch \in Nat
           /\ size.rows \in Nat /\ size.codes \in Nat /\ size.given \in Nat
           /\ size.requests \in Nat /\ size.serial \in BOOLEAN
           /\ size.given <= size.codes /\ size.seats > 0
           /\ Others \in Nat /\ Others * size.batch \in Nat
<1>1. size \in Instances /\ size \in W!Size
  BY StaffAssumption DEF W!TypeOK, W!WorkforceAssumption
<1>2. /\ size.limit \in Nat /\ size.seats \in Nat /\ size.batch \in Nat
      /\ size.rows \in Nat /\ size.codes \in Nat /\ size.given \in Nat
      /\ size.requests \in Nat /\ size.serial \in BOOLEAN
  BY <1>1 DEF W!Size
<1>3. size.given <= size.codes /\ size.seats > 0
  BY <1>1, StaffAssumption DEF W!WorkforceAssumption
<1>4. Others \in Nat
  BY StaffConstants DEF Others
<1>5. \A m, n \in Nat : m * n \in Nat
  OBVIOUS
<1>6. QED
  BY <1>1, <1>2, <1>3, <1>4, <1>5

\* A row is not the lack of one.
LEMMA RowsAre ==
    ASSUME W!TypeOK
    PROVE  Null # Gone /\ \A r \in W!Row : r \notin {Null, Gone}
BY StaffAssumption DEF W!TypeOK, W!Row, W!WorkforceAssumption

LEMMA RowsCount ==
    ASSUME NEW n \in Nat PROVE IsFiniteSet(1..n) /\ Cardinality(1..n) = n
BY FS_Interval

LEMMA OneMore ==
    ASSUME NEW S, IsFiniteSet(S), NEW x
    PROVE  IsFiniteSet(S \cup {x}) /\ Cardinality(S \cup {x}) <= Cardinality(S) + 1
<1>1. Cardinality(S) \in Nat
  BY FS_CardinalityType
<1>2. CASE x \in S
  <2>1. S \cup {x} = S
    BY <1>2
  <2>2. IsFiniteSet(S \cup {x}) /\ Cardinality(S \cup {x}) = Cardinality(S)
    BY <2>1, Zenon
  <2>3. QED
    BY <1>1, <2>2
<1>3. CASE x \notin S
  BY <1>1, <1>3, FS_AddElement
<1>4. QED
  BY <1>2, <1>3

\* What is counted is finite.
LEMMA CountsFinite ==
    ASSUME W!TypeOK
    PROVE  /\ IsFiniteSet(W!Existing) /\ IsFiniteSet(W!Members)
           /\ IsFiniteSet(Left) /\ IsFiniteSet(Seated)
           /\ Cardinality(W!Existing) \in Nat /\ Cardinality(W!Members) \in Nat
           /\ Cardinality(Left) \in Nat /\ Cardinality(Seated) \in Nat
<1>1. IsFiniteSet(W!Existing) /\ IsFiniteSet(W!Members) /\ IsFiniteSet(Seated)
  BY StaffConstants, FS_Subset DEF W!Existing, W!Members, Seated
<1>2. IsFiniteSet(1..size.batch)
  <2>1. PICK n \in Nat : n = size.batch
    BY SizesTyped
  <2>2. QED
    BY <2>1, RowsCount
<1>3. IsFiniteSet(Calls \X (1..size.batch))
  BY <1>2, StaffConstants, FS_Product
<1>4. IsFiniteSet(Left)
  <2>1. Left \subseteq Calls \X (1..size.batch)
    BY DEF Left
  <2>2. QED
    BY <1>3, <2>1, FS_Subset
<1>5. QED
  BY <1>1, <1>4, FS_CardinalityType

\* Who counts less leaves room.
LEMMA RoomKept ==
    ASSUME W!TypeOK, RoomLeft, size' = size, W!Existing' \subseteq W!Existing,
           W!Members' \subseteq W!Members, Left' \subseteq Left, Seated' \subseteq Seated
    PROVE  RoomLeft'
<1>1. \A S, T : IsFiniteSet(T) /\ S \subseteq T => Cardinality(S) \in Nat /\ Cardinality(S) <= Cardinality(T)
  BY FS_Subset, FS_CardinalityType
<1>2. /\ Cardinality(W!Existing') \in Nat /\ Cardinality(W!Existing') <= Cardinality(W!Existing)
      /\ Cardinality(W!Members') \in Nat /\ Cardinality(W!Members') <= Cardinality(W!Members)
      /\ Cardinality(Left') \in Nat /\ Cardinality(Left') <= Cardinality(Left)
      /\ Cardinality(Seated') \in Nat /\ Cardinality(Seated') <= Cardinality(Seated)
  BY <1>1, CountsFinite
<1>3. Others' = Others
  BY DEF Others
<1>4. \A a, b, x, y, n \in Nat : a <= x /\ b <= y /\ x + y <= n => a + b <= n
  OBVIOUS
<1>5. /\ size.limit + Others * size.batch \in Nat
      /\ size.seats + Others \in Nat
  BY SizesTyped
<1>6. /\ Cardinality(W!Existing') + Cardinality(Left') <= size.limit + Others * size.batch
      /\ Cardinality(W!Members') + Cardinality(Seated') <= size.seats + Others
  BY <1>2, <1>4, <1>5, CountsFinite DEF RoomLeft
<1>7. QED
  BY <1>3, <1>6 DEF RoomLeft

\* The greatest of numbers that are bounded.
LEMMA GreatestIs ==
    ASSUME NEW S \in SUBSET Nat, S # {}, NEW n \in Nat, \A y \in S : y <= n
    PROVE  W!Max(S) \in S /\ \A y \in S : y <= W!Max(S)
<1> DEFINE U == {u \in Nat : \A y \in S : y <= u}
<1>1. U \subseteq Nat /\ n \in U
  OBVIOUS
<1>2. PICK m \in U : \A u \in U : ~(<<u, m>> \in OpToRel(<, Nat))
  <2> HIDE DEF U
  <2>1. QED
    BY <1>1, WFMin, NatLessThanWellFounded
<1>3. m \in Nat /\ \A u \in U : m <= u
  <2>1. \A u \in U : u \in Nat /\ m \in Nat /\ ~(u < m)
    <3> HIDE DEF U
    <3>1. QED
      BY <1>1, <1>2 DEF OpToRel
  <2>2. m \in Nat
    BY <1>1, <1>2
  <2>3. QED
    <3> HIDE DEF U
    <3>1. QED
      BY <2>1, <2>2
<1>4. \A y \in S : y <= m
  BY <1>2
<1>5. m \in S
  <2>1. SUFFICES ASSUME m \notin S PROVE FALSE
    OBVIOUS
  <2>2. \A y \in S : y \in Nat /\ y < m
    BY <1>3, <1>4, <2>1
  <2>3. m - 1 \in Nat
    <3>1. PICK y : y \in S
      OBVIOUS
    <3>2. y \in Nat /\ y < m
      BY <2>2, <3>1
    <3>3. QED
      BY <1>3, <3>2
  <2>4. \A y \in S : y <= m - 1
    BY <1>3, <2>2
  <2>5. m - 1 \in U
    BY <2>3, <2>4
  <2>6. QED
    BY <1>3, <2>3, <2>5
<1>6. \E x \in S : \A y \in S : x >= y
  BY <1>3, <1>4, <1>5
<1>7. W!Max(S) \in S /\ \A y \in S : W!Max(S) >= y
  BY <1>6 DEF W!Max
<1>8. QED
  BY <1>7

\* The next code is above all that are in use.
LEMMA NextCodeIsNew ==
    ASSUME W!TypeOK
    PROVE  W!NextCode \in Nat /\ W!NextCode >= 1 /\ \A e \in W!Existing : employee[e].code # W!NextCode
<1> DEFINE S == {0} \cup {employee[e].code : e \in W!Existing}
<1>1. \A e \in W!Existing : employee[e].code \in 1..size.codes
  BY DEF W!TypeOK, W!Existing, W!Row
<1>2. S \in SUBSET Nat /\ S # {} /\ \A y \in S : y <= size.codes
  BY <1>1, SizesTyped
<1>3. W!Max(S) \in S /\ \A y \in S : y <= W!Max(S)
  <2> HIDE DEF S
  <2>1. QED
    BY <1>2, SizesTyped, GreatestIs
<1>4. W!NextCode = 1 + W!Max(S)
  BY DEF W!NextCode
<1>5. \A e \in W!Existing : employee[e].code \in S
  OBVIOUS
<1>6. W!Max(S) \in Nat /\ \A y \in S : y \in Nat /\ y <= W!Max(S)
  <2> HIDE DEF S
  <2>1. QED
    BY <1>2, <1>3
<1>7. QED
  <2> HIDE DEF S
  <2>1. QED
    BY <1>4, <1>5, <1>6

\* The latest request of a person is one of theirs that is there, or there is none.
LEMMA LatestIs ==
    ASSUME W!TypeOK, NEW p
    PROVE  /\ W!Latest(p) \in Nat
           /\ \A i \in DOMAIN asked : asked[i].email = p /\ ~asked[i].deleted => i <= W!Latest(p) /\ i >= 1
           /\ W!Latest(p) # 0 => /\ W!Latest(p) \in DOMAIN asked
                                 /\ asked[W!Latest(p)].email = p /\ ~asked[W!Latest(p)].deleted
<1> DEFINE T == {i \in DOMAIN asked : asked[i].email = p /\ ~asked[i].deleted}
           S == {0} \cup T
<1>1. DOMAIN asked = 1..Len(asked) /\ Len(asked) \in Nat
  BY LenProperties DEF W!TypeOK
<1>2. S \in SUBSET Nat /\ S # {} /\ \A y \in S : y <= Len(asked)
  BY <1>1
<1>3. W!Max(S) \in S /\ \A y \in S : y <= W!Max(S)
  <2> HIDE DEF S
  <2>1. QED
    BY <1>1, <1>2, GreatestIs
<1>4. W!Latest(p) = W!Max(S)
  BY DEF W!Latest
<1>5. \A i \in T : i \in S /\ i \in Nat /\ i >= 1
  BY <1>1
<1>6. W!Max(S) # 0 => W!Max(S) \in T
  BY <1>3
<1>7. QED
  BY <1>2, <1>3, <1>4, <1>5, <1>6

LEMMA IdleTyped ==
    ASSUME W!TypeOK
    PROVE  W!Idle \in W!CallState /\ W!Idle.pc = "idle" /\ W!Idle.generated = FALSE
BY SizesTyped DEF W!Idle, W!CallState

LEMMA StaffBegins == StaffInit /\ scene = "workforce" => StaffSafe
<1> SUFFICES ASSUME StaffInit, scene = "workforce" PROVE StaffSafe
  OBVIOUS
<1>1. W!Init
  BY DEF StaffInit
<1>2. size \in Instances /\ size \in W!Size /\ size.seats > 0
  BY <1>1, StaffAssumption DEF W!Init, W!WorkforceAssumption
<1>3. W!TypeOK
  <2>1. W!Idle \in W!CallState
    BY <1>2 DEF W!Size, W!Idle, W!CallState
  <2>2. asked \in Seq(W!Request) /\ Len(asked) = 0 /\ 0 <= size.requests
    BY <1>1, <1>2, EmptySeq DEF W!Init, W!Size
  <2>3. employee \in [Employees -> W!Row \cup {Null, Gone}] /\ call \in [Calls -> W!CallState]
    BY <1>1, <2>1 DEF W!Init
  <2>4. membership \in [People -> W!Role \cup {Null}]
    BY <1>1, StaffConstants DEF W!Init
  <2>5. QED
    BY <1>1, <2>2, <2>3, <2>4, StaffConstants DEF W!Init, W!TypeOK
<1>4. \A c \in Calls : call[c].pc = "idle"
  BY <1>1 DEF W!Init, W!Idle
<1>5. asked = <<>> /\ DOMAIN asked = {}
  BY <1>1, EmptySeq DEF W!Init
<1>6. CreatorsKnow /\ AskersKnow /\ DecidersKnow /\ OneEach
  BY <1>4, <1>5 DEF CreatorsKnow, AskersKnow, DecidersKnow, OneEach, In, Creating, Asking, Approving, W!At
<1>7. RoomLeft
  <2>1. W!Existing = {} /\ Left = {} /\ Seated = {}
    BY <1>1, <1>4 DEF W!Init, W!Existing, Left, Seated, In, Creating, W!At
  <2>2. W!Members = {Founder}
    BY <1>1, StaffConstants DEF W!Init, W!Members
  <2>3. Cardinality({}) = 0 /\ Cardinality({Founder}) = 1
    BY FS_EmptySet, FS_Singleton
  <2>4. QED
    BY <1>3, <2>1, <2>2, <2>3, SizesTyped DEF RoomLeft
<1>8. Serial
  BY <1>1, <1>4, <1>5 DEF W!Init, Serial, OneCall, CodesNew, RequestsInTurn, In, Approving, W!At
<1>9. W!OneAtATime /\ W!ApprovedIsIn
  BY <1>5 DEF W!OneAtATime, W!ApprovedIsIn
<1>10. W!OnlyApprovedAreIn
  BY <1>1 DEF W!Init, W!OnlyApprovedAreIn, W!Members
<1>11. QED
  BY <1>3, <1>6, <1>7, <1>8, <1>9, <1>10 DEF StaffSafe

\* What the locals of a handler may become, where nothing else changes.
Sound(c, q) ==
    /\ q \in W!CallState /\ q.pc # "decide"
    /\ q.pc \in Creating => q.left \in 1..size.batch /\ (q.email # Null => q.role \in W!Role)
    /\ q.pc = "insert" => q.code \in 1..size.codes
    /\ q.pc = "insert" /\ q.generated => \A e \in W!Existing : employee[e].code # q.code
    /\ q.pc \in Asking => /\ call[c].pc = "raise" /\ q.employee = call[c].employee
                          /\ q.email = call[c].email /\ q.role = call[c].role
    /\ size.serial /\ q.pc = "ask" =>
            \A i \in DOMAIN asked : asked[i].email = q.email /\ ~asked[i].deleted => Settled(i)
    /\ q.pc \in Approving \/ q.pc = "refuse" =>
            q.request \in DOMAIN asked /\ (size.serial => W!Pending(q.request))
    /\ q.pc \in Approving => /\ q.employee = asked[q.request].employee
                             /\ q.email = asked[q.request].email
                             /\ q.role = asked[q.request].role
    /\ size.serial =>
            (q.pc = "idle" \/ ~W!At(c, "idle") \/ \A d \in Calls : W!At(d, "idle"))

LEMMA OnlyLocals ==
    ASSUME StaffSafe, NEW c \in Calls, NEW q, Sound(c, q), call' = [call EXCEPT ![c] = q],
           UNCHANGED <<employee, member, membership, asked, size>>,
           collided' = collided \/ (~size.serial /\ collided' \in BOOLEAN),
           torn \subseteq torn', torn' \subseteq People, RoomLeft',
           W!At(c, "decide") => call[c].email \in torn'
    PROVE  StaffSafe'
<1> USE DEF Sound
<1>1. call \in [Calls -> W!CallState] /\ call'[c] = q /\ \A d \in Calls : d # c => call'[d] = call[d]
  BY DEF StaffSafe, W!TypeOK
<1>2. W!TypeOK'
  <2>1. call' \in [Calls -> W!CallState]
    BY <1>1
  <2>2. W!CallState' = W!CallState /\ W!Row' = W!Row
    BY DEF W!CallState, W!Row
  <2>3. QED
    BY <2>1, <2>2 DEF StaffSafe, W!TypeOK
<1>3. W!Existing' = W!Existing /\ W!Members' = W!Members
  BY DEF W!Existing, W!Members
<1>4. CreatorsKnow'
  BY <1>1 DEF StaffSafe, CreatorsKnow, In, W!At
<1>5. AskersKnow'
  BY <1>1 DEF StaffSafe, AskersKnow, In, Asking
<1>6. DecidersKnow'
  <2>1. ASSUME NEW d \in Calls, d # c
        PROVE  /\ In(d, Approving)' = In(d, Approving) /\ call'[d] = call[d]
               /\ \A pc : W!At(d, pc)' = W!At(d, pc)
    BY <1>1, <2>1 DEF In, W!At
  <2>2. In(c, Approving)' = (q.pc \in Approving) /\ call'[c] = q /\ \A pc : W!At(c, pc)' = (q.pc = pc)
    BY <1>1 DEF In, W!At
  <2>3. DecidersKnow
    BY DEF StaffSafe
  <2>4. ASSUME NEW d \in Calls
        PROVE  /\ W!At(d, "refuse")' => call'[d].request \in DOMAIN asked'
               /\ In(d, Approving)' => /\ call'[d].request \in DOMAIN asked'
                                       /\ call'[d].employee = asked'[call'[d].request].employee
                                       /\ call'[d].email = asked'[call'[d].request].email
                                       /\ call'[d].role = asked'[call'[d].request].role
               /\ W!At(d, "decide")' => /\ call'[d].email \in member' /\ membership'[call'[d].email] # Null
                                        /\ call'[d].employee \in W!Existing'
                                                => employee'[call'[d].employee].user = call'[d].email
    <3>1. CASE d = c
      BY <2>2, <3>1
    <3>2. CASE d # c
      BY <1>3, <2>1, <2>3, <3>2 DEF DecidersKnow, Linked
    <3>3. QED
      BY <3>1, <3>2
  <2>5. QED
    BY <2>4 DEF DecidersKnow, Linked
<1>7. OneEach'
  BY DEF StaffSafe, OneEach
<1>8. Serial'
  <2>1. size.serial => OneCall'
    BY <1>1 DEF StaffSafe, Serial, OneCall, W!At
  <2>2. size.serial => CodesNew'
    BY <1>1, <1>3 DEF StaffSafe, Serial, CodesNew, W!At
  <2>3. size.serial => RequestsInTurn'
    <3>1. SUFFICES ASSUME size.serial PROVE RequestsInTurn'
      OBVIOUS
    <3>2. RequestsInTurn
      BY <3>1 DEF StaffSafe, Serial
    <3>3. ASSUME NEW d \in Calls, d # c
          PROVE  /\ In(d, Approving)' = In(d, Approving) /\ call'[d] = call[d]
                 /\ \A pc : W!At(d, pc)' = W!At(d, pc)
      BY <1>1, <3>3 DEF In, W!At
    <3>4. In(c, Approving)' = (q.pc \in Approving) /\ call'[c] = q /\ \A pc : W!At(c, pc)' = (q.pc = pc)
      BY <1>1 DEF In, W!At
    <3>5. ASSUME NEW d \in Calls
          PROVE  /\ In(d, Approving)' \/ W!At(d, "refuse")' => W!Pending(call'[d].request)
                 /\ W!At(d, "ask")' => \A i \in DOMAIN asked :
                        asked[i].email = call'[d].email /\ ~asked[i].deleted => Settled(i)
      <4>1. CASE d = c
        <5>1. q.pc \in Approving \/ q.pc = "refuse" => W!Pending(q.request)
          BY <3>1
        <5>2. q.pc = "ask" => \A i \in DOMAIN asked :
                    asked[i].email = q.email /\ ~asked[i].deleted => Settled(i)
          BY <3>1
        <5>3. /\ In(d, Approving)' = (q.pc \in Approving) /\ call'[d] = q
              /\ W!At(d, "refuse")' = (q.pc = "refuse") /\ W!At(d, "ask")' = (q.pc = "ask")
          BY <3>4, <4>1
        <5>4. In(d, Approving)' \/ W!At(d, "refuse")' => W!Pending(call'[d].request)
          BY <5>1, <5>3
        <5>5. W!At(d, "ask")' => \A i \in DOMAIN asked :
                        asked[i].email = call'[d].email /\ ~asked[i].deleted => Settled(i)
          BY <5>2, <5>3
        <5>6. QED
          BY <5>4, <5>5
      <4>2. CASE d # c
        BY <3>2, <3>3, <4>2 DEF RequestsInTurn
      <4>3. QED
        BY <4>1, <4>2
    <3>6. QED
      BY <3>2, <3>5 DEF RequestsInTurn, W!Pending, Settled
  <2>4. QED
    BY <2>1, <2>2, <2>3 DEF Serial
<1>9. W!OneAtATime' /\ W!ApprovedIsIn'
  BY <1>3 DEF StaffSafe, W!OneAtATime, W!ApprovedIsIn
<1>10. W!OnlyApprovedAreIn'
  BY <1>1, <1>3 DEF StaffSafe, W!OnlyApprovedAreIn, W!At
<1>11. QED
  BY <1>2, <1>4, <1>5, <1>6, <1>7, <1>8, <1>9, <1>10 DEF StaffSafe

\* Ending is sound.
LEMMA EndsSound ==
    ASSUME W!TypeOK, NEW c \in Calls PROVE Sound(c, W!Idle)
BY IdleTyped DEF Sound, Creating, Asking, Approving

\* What counts nobody more.
LEMMA LocalsCount ==
    ASSUME W!TypeOK, RoomLeft, NEW c \in Calls, NEW q, call' = [call EXCEPT ![c] = q],
           UNCHANGED <<employee, member, membership, asked, size>>,
           q.pc \in Creating => In(c, Creating) /\ q.left = call[c].left,
           q.pc # "provision"
    PROVE  RoomLeft'
<1>1. call \in [Calls -> W!CallState] /\ call'[c] = q /\ \A d \in Calls : d # c => call'[d] = call[d]
  BY DEF W!TypeOK
<1>2. W!Existing' = W!Existing /\ W!Members' = W!Members
  BY DEF W!Existing, W!Members
<1>3. Left' \subseteq Left
  BY <1>1 DEF Left, In
<1>4. Seated' \subseteq Seated
  BY <1>1 DEF Seated, W!At
<1>5. QED
  BY <1>2, <1>3, <1>4, RoomKept

LEMMA CreateRowsSafe ==
    ASSUME StaffSafe, NEW c \in Calls, NEW n \in 1..size.batch, NEW actor \in Askers,
           NEW p \in People \cup {Null}, NEW role \in Wanted, W!Create(c, n, actor, p, role)
    PROVE  StaffSafe'
<1>1. /\ W!TypeOK /\ RoomLeft /\ W!At(c, "idle")
      /\ size.serial => \A d \in Calls : W!At(d, "idle")
      /\ Cardinality(W!Existing) + n <= size.limit
      /\ UNCHANGED <<employee, member, membership, asked, size, torn, collided>>
  BY StaffConstants DEF StaffSafe, W!Create, W!Alone, W!At, W!WithinLimit, W!Logins, W!History
<1>2. PICK r \in W!Role \cup {Null} : r = IF p = Null THEN Null ELSE role
  BY StaffAssumption DEF W!WorkforceAssumption
<1>3. PICK q : q = [W!Idle EXCEPT !.pc = "code", !.left = n, !.email = p, !.role = r]
  OBVIOUS
<1>4. call' = [call EXCEPT ![c] = q]
  BY <1>2, <1>3 DEF W!Create
<1>5. /\ q.pc = "code" /\ q.left = n /\ q.email = p /\ q.role = r
  BY <1>3 DEF W!Idle
<1>6. q \in W!CallState
  <2>1. 0 \in 0..size.codes /\ 0 \in 0..size.requests /\ n \in 0..size.batch
    BY <1>1, SizesTyped
  <2>2. W!Idle \in W!CallState /\ r \in W!Role \cup {Null}
    BY <1>1, IdleTyped
  <2>3. QED
    BY <1>3, <2>1, <2>2 DEF W!CallState
<1>7. Sound(c, q)
  <2>1. q.email # Null => q.role \in W!Role
    BY <1>2, <1>5, StaffAssumption DEF W!WorkforceAssumption
  <2>2. q.pc \in Creating /\ q.pc \notin Asking /\ q.pc \notin Approving
    BY <1>5 DEF Creating, Asking, Approving
  <2>3. QED
    BY <1>1, <1>5, <1>6, <2>1, <2>2 DEF Sound
<1>8. RoomLeft'
  <2> DEFINE new == {c} \X (1..n)
             rest == {w \in Left : w[1] # c}
  <2>1. call \in [Calls -> W!CallState] /\ call'[c] = q /\ \A d \in Calls : d # c => call'[d] = call[d]
    BY <1>1, <1>4 DEF W!TypeOK
  <2>2. W!Existing' = W!Existing /\ W!Members' = W!Members /\ Others' = Others
    BY <1>1 DEF W!Existing, W!Members, Others
  <2>3. Seated' \subseteq Seated
    BY <1>5, <2>1 DEF Seated, W!At
  <2>4. Left' \subseteq rest \cup new
    BY <1>1, <1>5, <2>1 DEF Left, In
  <2>5. IsFiniteSet(rest) /\ Cardinality(rest) \in Nat /\ Cardinality(rest) <= Others * size.batch
    <3>1. IsFiniteSet(rest)
      BY <1>1, CountsFinite, FS_Subset
    <3>2. CASE size.serial
      <4>1. rest = {}
        BY <1>1, <3>2 DEF Left, In, Creating, W!At
      <4>2. Cardinality(rest) = 0
        BY <4>1, FS_EmptySet
      <4>3. QED
        BY <1>1, <3>1, <4>2, SizesTyped
    <3>3. CASE ~size.serial
      <4>1. rest \subseteq (Calls \ {c}) \X (1..size.batch)
        BY DEF Left
      <4>2. /\ IsFiniteSet(Calls \ {c}) /\ Cardinality(Calls \ {c}) = Cardinality(Calls) - 1
            /\ IsFiniteSet(1..size.batch) /\ Cardinality(1..size.batch) = size.batch
        <5>1. IsFiniteSet(Calls \ {c}) /\ Cardinality(Calls \ {c}) = Cardinality(Calls) - 1
          BY StaffConstants, FS_RemoveElement
        <5>2. size.batch \in Nat
          BY <1>1, SizesTyped
        <5>3. IsFiniteSet(1..size.batch) /\ Cardinality(1..size.batch) = size.batch
          BY <5>2, RowsCount
        <5>4. QED
          BY <5>1, <5>3
      <4>3. /\ IsFiniteSet((Calls \ {c}) \X (1..size.batch))
            /\ Cardinality((Calls \ {c}) \X (1..size.batch)) = (Cardinality(Calls) - 1) * size.batch
        <5> DEFINE others == Calls \ {c}
                   files == 1..size.batch
        <5> HIDE DEF others, files
        <5>1. /\ IsFiniteSet(others) /\ Cardinality(others) = Cardinality(Calls) - 1
              /\ IsFiniteSet(files) /\ Cardinality(files) = size.batch
          BY <4>2 DEF others, files
        <5>2. /\ IsFiniteSet(others \X files)
              /\ Cardinality(others \X files) = Cardinality(others) * Cardinality(files)
          BY <5>1, FS_Product
        <5>3. /\ IsFiniteSet(others \X files)
              /\ Cardinality(others \X files) = (Cardinality(Calls) - 1) * size.batch
          BY <5>1, <5>2
        <5>4. QED
          BY <5>3 DEF others, files
      <4>4. Cardinality(rest) <= (Cardinality(Calls) - 1) * size.batch
        BY <4>1, <4>3, FS_Subset
      <4>5. QED
        BY <3>1, <3>3, <4>4, FS_CardinalityType DEF Others
    <3>4. QED
      BY <1>1, <3>2, <3>3, SizesTyped
  <2>6. IsFiniteSet(new) /\ Cardinality(new) = n
    <3>1. IsFiniteSet({c}) /\ Cardinality({c}) = 1
      BY FS_Singleton
    <3>2. IsFiniteSet(1..n) /\ Cardinality(1..n) = n /\ n \in Nat
      <4>1. n \in Nat
        BY <1>1, SizesTyped
      <4>2. QED
        BY <4>1, FS_Interval
    <3>3. IsFiniteSet(new) /\ Cardinality(new) = 1 * n
      BY <3>1, <3>2, FS_Product
    <3>4. QED
      BY <3>2, <3>3
  <2>7. IsFiniteSet(rest \cup new) /\ Cardinality(rest \cup new) <= Cardinality(rest) + n
    <3> HIDE DEF rest, new
    <3>1. /\ IsFiniteSet(rest \cup new) /\ IsFiniteSet(rest \cap new)
          /\ Cardinality(rest \cup new) =
                Cardinality(rest) + Cardinality(new) - Cardinality(rest \cap new)
      BY <2>5, <2>6, FS_Union, FS_Intersection
    <3>2. Cardinality(rest \cap new) \in Nat
      BY <3>1, FS_CardinalityType
    <3>3. n \in Nat
      BY <1>1, SizesTyped
    <3>4. QED
      BY <2>5, <2>6, <3>1, <3>2, <3>3
  <2>8. Cardinality(Left') \in Nat /\ Cardinality(Left') <= Cardinality(rest) + n
    <3> HIDE DEF rest, new
    <3>1. Cardinality(Left') \in Nat /\ Cardinality(Left') <= Cardinality(rest \cup new)
      BY <2>4, <2>7, FS_Subset, FS_CardinalityType
    <3>2. Cardinality(rest \cup new) \in Nat
      BY <2>7, FS_CardinalityType
    <3>3. n \in Nat
      BY <1>1, SizesTyped
    <3>4. QED
      BY <2>5, <2>7, <3>1, <3>2, <3>3
  <2>9. Cardinality(W!Existing') + Cardinality(Left') <= size'.limit + Others' * size'.batch
    <3> HIDE DEF rest, new
    <3>1. n \in Nat /\ size.limit \in Nat /\ Others * size.batch \in Nat
      BY <1>1, SizesTyped
    <3>2. Cardinality(W!Existing) \in Nat
      BY <1>1, CountsFinite
    <3>3. Cardinality(W!Existing) + Cardinality(Left') <= size.limit + Others * size.batch
      BY <1>1, <2>5, <2>8, <3>1, <3>2
    <3>4. QED
      BY <1>1, <2>2, <3>3
  <2>10. Cardinality(W!Members') + Cardinality(Seated') <= size'.seats + Others'
    <3>1. Cardinality(Seated') \in Nat /\ Cardinality(Seated') <= Cardinality(Seated)
      BY <1>1, <2>3, CountsFinite, FS_Subset, FS_CardinalityType
    <3>2. Cardinality(W!Members) + Cardinality(Seated) <= size.seats + Others
      BY <1>1 DEF RoomLeft
    <3>3. QED
      BY <1>1, <2>2, <3>1, <3>2, CountsFinite, SizesTyped
  <2>11. QED
    BY <2>9, <2>10 DEF RoomLeft
<1>9. torn' \subseteq People
  BY <1>1 DEF W!TypeOK
<1>10. ~W!At(c, "decide")
  BY <1>1 DEF W!At
<1>11. QED
  BY <1>1, <1>4, <1>7, <1>8, <1>9, <1>10, OnlyLocals

\* What a step knows of the invariant's parts.
LEMMA StaffParts ==
    ASSUME StaffSafe
    PROVE  /\ W!TypeOK /\ CreatorsKnow /\ AskersKnow /\ DecidersKnow /\ OneEach /\ RoomLeft
           /\ call \in [Calls -> W!CallState] /\ torn \subseteq People
           /\ \A i \in DOMAIN asked : asked[i] \in W!Request /\ i \in 1..size.requests
           /\ DOMAIN asked = 1..Len(asked) /\ Len(asked) \in Nat
           /\ size.serial => OneCall /\ CodesNew /\ RequestsInTurn
<1>1. \A i \in DOMAIN asked : asked[i] \in W!Request
  BY ElementOfSeq, LenProperties DEF StaffSafe, W!TypeOK
<1>2. DOMAIN asked = 1..Len(asked) /\ Len(asked) \in Nat /\ Len(asked) <= size.requests
  BY LenProperties DEF StaffSafe, W!TypeOK
<1>3. \A i \in DOMAIN asked : i \in 1..size.requests
  BY <1>2, SizesTyped DEF StaffSafe
<1>4. QED
  BY <1>1, <1>2, <1>3 DEF StaffSafe, W!TypeOK, Serial

LEMMA TakeCodeSafe ==
    ASSUME StaffSafe, NEW c \in Calls, NEW given \in 0..size.given, W!TakeCode(c, given)
    PROVE  StaffSafe'
<1>1. /\ W!At(c, "code") /\ In(c, Creating)
      /\ UNCHANGED <<employee, member, membership, asked, size, torn, collided>>
  BY DEF W!TakeCode, W!At, In, Creating, W!Logins, W!History
<1>2. given \in Nat /\ given <= size.codes /\ size.codes \in Nat
  BY StaffParts, SizesTyped
<1>3. PICK code : code = IF given = 0 THEN W!NextCode ELSE given
  OBVIOUS
<1>4. code \in 1..size.codes
  <2>1. W!NextCode \in Nat /\ W!NextCode >= 1
    BY StaffParts, NextCodeIsNew
  <2>2. given = 0 => W!NextCode <= size.codes
    BY DEF W!TakeCode
  <2>3. QED
    BY <1>2, <1>3, <2>1, <2>2
<1>5. PICK g \in BOOLEAN : g = (given = 0)
  OBVIOUS
<1>6. PICK q : q = [call[c] EXCEPT !.pc = "insert", !.generated = g, !.code = code]
  OBVIOUS
<1>7. q \in W!CallState
  <2>1. code \in 0..size.codes
    BY <1>2, <1>4
  <2>2. call[c] \in W!CallState
    BY StaffParts
  <2>3. QED
    BY <1>6, <2>1, <2>2 DEF W!CallState
<1>8. /\ q.pc = "insert" /\ q.generated = g /\ q.code = code
      /\ q.left = call[c].left /\ q.email = call[c].email /\ q.role = call[c].role
  BY <1>6, StaffParts DEF W!CallState
<1>9. call' = [call EXCEPT ![c] = q]
  BY <1>3, <1>5, <1>6, StaffParts DEF W!TakeCode
<1>10. q.left \in 1..size.batch /\ (q.email # Null => q.role \in W!Role)
  BY <1>1, <1>8, StaffParts DEF CreatorsKnow
<1>11. g => \A e \in W!Existing : employee[e].code # code
  BY <1>3, <1>5, StaffParts, NextCodeIsNew
<1>12. Sound(c, q)
  <2>1. q.pc \in Creating /\ q.pc \notin Asking /\ q.pc \notin Approving /\ ~W!At(c, "idle")
    BY <1>1, <1>8 DEF Creating, Asking, Approving, W!At
  <2>2. QED
    BY <1>4, <1>7, <1>8, <1>10, <1>11, <2>1 DEF Sound
<1>13. RoomLeft'
  BY <1>1, <1>8, <1>9, StaffParts, LocalsCount
<1>14. ~W!At(c, "decide") /\ torn' \subseteq People
  BY <1>1, StaffParts DEF W!At
<1>15. QED
  BY <1>1, <1>9, <1>12, <1>13, <1>14, OnlyLocals

\* A handler that gives up, answers or dies.
LEMMA EndsSafe ==
    ASSUME StaffSafe, NEW c \in Calls, W!Return(c),
           UNCHANGED <<employee, member, membership, asked, size, collided>>,
           torn \subseteq torn', torn' \subseteq People,
           W!At(c, "decide") => call[c].email \in torn'
    PROVE  StaffSafe'
<1>1. Sound(c, W!Idle)
  BY StaffParts, EndsSound
<1>2. call' = [call EXCEPT ![c] = W!Idle]
  BY DEF W!Return
<1>3. W!Idle.pc = "idle" /\ W!Idle.pc \notin Creating /\ W!Idle.pc # "provision"
  BY StaffParts, IdleTyped DEF Creating
<1>4. RoomLeft'
  BY <1>2, <1>3, StaffParts, LocalsCount
<1>5. QED
  BY <1>1, <1>2, <1>4, OnlyLocals

\* A handler that goes on, its locals as they are.
LEMMA GoesOn ==
    ASSUME W!TypeOK, NEW c \in Calls, NEW pc \in {"ask", "provision"}, W!Goto(c, pc)
    PROVE  \E q \in W!CallState :
              /\ call' = [call EXCEPT ![c] = q] /\ q.pc = pc
              /\ q.employee = call[c].employee /\ q.email = call[c].email /\ q.role = call[c].role
              /\ q.request = call[c].request
<1>1. PICK q : q = [call[c] EXCEPT !.pc = pc]
  OBVIOUS
<1>2. call[c] \in W!CallState
  BY DEF W!TypeOK
<1>3. q \in W!CallState
  BY <1>1, <1>2 DEF W!CallState
<1>4. /\ q.pc = pc /\ q.employee = call[c].employee /\ q.email = call[c].email
      /\ q.role = call[c].role /\ q.request = call[c].request
  BY <1>1, <1>2 DEF W!CallState
<1>5. call' = [call EXCEPT ![c] = q]
  BY <1>1 DEF W!Goto, W!TypeOK
<1>6. QED
  BY <1>3, <1>4, <1>5

LEMMA RaiseSafe ==
    ASSUME StaffSafe, NEW c \in Calls, W!Raise(c) PROVE StaffSafe'
<1>1. /\ W!At(c, "raise") /\ ~W!At(c, "decide") /\ ~W!At(c, "idle")
      /\ UNCHANGED <<employee, member, membership, asked, size, torn, collided>>
      /\ torn' \subseteq People
  BY StaffParts DEF W!Raise, W!At, W!Logins, W!History
<1>2. CASE W!Return(c)
  BY <1>1, <1>2, EndsSafe
<1>3. CASE W!MayAsk(call[c].email) /\ W!Goto(c, "ask")
  <2>1. PICK q \in W!CallState :
              /\ call' = [call EXCEPT ![c] = q] /\ q.pc = "ask"
              /\ q.employee = call[c].employee /\ q.email = call[c].email /\ q.role = call[c].role
              /\ q.request = call[c].request
    BY <1>3, StaffParts, GoesOn
  <2>2. ASSUME size.serial, NEW i \in DOMAIN asked, asked[i].email = call[c].email, ~asked[i].deleted
        PROVE  Settled(i)
    <3>1. PICK p : p = call[c].email
      OBVIOUS
    <3>2. PICK k : k = W!Latest(p)
      OBVIOUS
    <3>3. k \in DOMAIN asked /\ i <= k /\ asked[k].email = p /\ ~asked[k].deleted
      BY <2>2, <3>1, <3>2, StaffParts, LatestIs
    <3>4. W!MayAsk(p)
      BY <1>3, <3>1
    <3>5. asked[k].status # "pending" /\ ~(asked[k].status = "rejected" /\ asked[k].cooling)
      BY <3>2, <3>3, <3>4, StaffParts DEF W!MayAsk
    <3>6. asked[k].cooling => asked[k].status = "rejected"
      BY <2>2, <3>3, StaffParts DEF RequestsInTurn
    <3>7. CASE i = k
      BY <3>5, <3>6, <3>7 DEF Settled
    <3>8. CASE i # k
      <4>1. i \in 1..(k - 1)
        BY <3>3, <3>8, StaffParts
      <4>2. QED
        BY <2>2, <3>1, <3>3, <4>1 DEF StaffSafe, W!OneAtATime, Settled
    <3>9. QED
      BY <3>7, <3>8
  <2>3. Sound(c, q)
    <3>1. q.pc \in Asking /\ q.pc \notin Creating /\ q.pc \notin Approving /\ call[c].pc = "raise"
      BY <1>1, <2>1 DEF Creating, Asking, Approving, W!At
    <3>2. QED
      BY <1>1, <2>1, <2>2, <3>1 DEF Sound
  <2>4. RoomLeft'
    <3>1. q.pc \notin Creating /\ q.pc # "provision"
      BY <2>1 DEF Creating
    <3>2. QED
      BY <1>1, <2>1, <3>1, StaffParts, LocalsCount
  <2>5. QED
    BY <1>1, <2>1, <2>3, <2>4, OnlyLocals
<1>4. QED
  BY <1>2, <1>3 DEF W!Raise

LEMMA ApproveSafe ==
    ASSUME StaffSafe, NEW c \in Calls, NEW i, W!Approve(c, i) PROVE StaffSafe'
<1>1. /\ W!At(c, "idle") /\ ~W!At(c, "decide") /\ W!Pending(i) /\ i \in DOMAIN asked
      /\ size.serial => \A d \in Calls : W!At(d, "idle")
      /\ UNCHANGED <<employee, member, membership, asked, size, torn, collided>>
      /\ torn' \subseteq People
  BY StaffParts DEF W!Approve, W!At, W!Alone, W!Pending, W!Logins, W!History
<1>2. /\ asked[i].employee \in Employees /\ asked[i].email \in People /\ asked[i].role \in W!Role
      /\ i \in 0..size.requests
  <2>1. asked[i] \in W!Request /\ i \in 1..size.requests
    BY <1>1, StaffParts
  <2>2. i \in 0..size.requests
    BY <2>1
  <2>3. QED
    BY <2>1, <2>2 DEF W!Request
<1>3. PICK q : q = [W!Idle EXCEPT !.pc = "seats", !.request = i, !.employee = asked[i].employee,
                                  !.email = asked[i].email, !.role = asked[i].role]
  OBVIOUS
<1>4. q \in W!CallState
  BY <1>2, <1>3, StaffParts, IdleTyped DEF W!CallState
<1>5. /\ q.pc = "seats" /\ q.request = i /\ q.employee = asked[i].employee
      /\ q.email = asked[i].email /\ q.role = asked[i].role
  BY <1>3 DEF W!Idle
<1>6. call' = [call EXCEPT ![c] = q]
  BY <1>3 DEF W!Approve
<1>7. Sound(c, q)
  <2>1. q.pc \notin Asking /\ q.pc \notin Creating
    BY <1>5 DEF Creating, Asking
  <2>2. QED
    BY <1>1, <1>4, <1>5, <2>1 DEF Sound
<1>8. RoomLeft'
  <2>1. q.pc \notin Creating /\ q.pc # "provision"
    BY <1>5 DEF Creating
  <2>2. QED
    BY <1>1, <1>6, <2>1, StaffParts, LocalsCount
<1>9. QED
  BY <1>1, <1>6, <1>7, <1>8, OnlyLocals

LEMMA RejectSafe ==
    ASSUME StaffSafe, NEW c \in Calls, NEW i, W!Reject(c, i) PROVE StaffSafe'
<1>1. /\ W!At(c, "idle") /\ ~W!At(c, "decide") /\ W!Pending(i) /\ i \in DOMAIN asked
      /\ size.serial => \A d \in Calls : W!At(d, "idle")
      /\ UNCHANGED <<employee, member, membership, asked, size, torn, collided>>
      /\ torn' \subseteq People
  BY StaffParts DEF W!Reject, W!At, W!Alone, W!Pending, W!Logins, W!History
<1>2. i \in 0..size.requests
  BY <1>1, StaffParts, SizesTyped
<1>3. PICK q : q = [W!Idle EXCEPT !.pc = "refuse", !.request = i]
  OBVIOUS
<1>4. q \in W!CallState
  BY <1>2, <1>3, StaffParts, IdleTyped DEF W!CallState
<1>5. q.pc = "refuse" /\ q.request = i
  BY <1>3 DEF W!Idle
<1>6. call' = [call EXCEPT ![c] = q]
  BY <1>3 DEF W!Reject
<1>7. Sound(c, q)
  <2>1. q.pc \notin Asking /\ q.pc \notin Creating /\ q.pc \notin Approving
    BY <1>5 DEF Creating, Asking, Approving
  <2>2. QED
    BY <1>1, <1>4, <1>5, <2>1 DEF Sound
<1>8. RoomLeft'
  <2>1. q.pc \notin Creating /\ q.pc # "provision"
    BY <1>5 DEF Creating
  <2>2. QED
    BY <1>1, <1>6, <2>1, StaffParts, LocalsCount
<1>9. QED
  BY <1>1, <1>6, <1>7, <1>8, OnlyLocals

LEMMA CrashSafe ==
    ASSUME StaffSafe, NEW c \in Calls, W!Crash(c) PROVE StaffSafe'
<1>1. W!Return(c) /\ UNCHANGED <<employee, member, membership, asked, size, collided>>
  BY DEF W!Crash, W!Logins
<1>2. CASE W!At(c, "decide")
  <2>1. torn' = torn \cup {call[c].email}
    BY <1>2 DEF W!Crash
  <2>2. call[c].email \in People
    BY <1>2, StaffParts DEF DecidersKnow, In, Approving, W!At, W!Request
  <2>3. torn \subseteq torn' /\ torn' \subseteq People /\ call[c].email \in torn'
    BY <2>1, <2>2, StaffParts
  <2>4. QED
    BY <1>1, <2>3, EndsSafe
<1>3. CASE ~W!At(c, "decide")
  <2>1. torn' = torn
    BY <1>3 DEF W!Crash
  <2>2. torn \subseteq torn' /\ torn' \subseteq People
    BY <2>1, StaffParts
  <2>3. QED
    BY <1>1, <1>3, <2>2, EndsSafe
<1>4. QED
  BY <1>2, <1>3

LEMMA CheckSeatsSafe ==
    ASSUME StaffSafe, NEW c \in Calls, W!CheckSeats(c) PROVE StaffSafe'
<1>1. /\ W!At(c, "seats") /\ ~W!At(c, "decide") /\ ~W!At(c, "idle") /\ c \notin Seated
      /\ UNCHANGED <<employee, member, membership, asked, size, torn, collided>>
      /\ torn' \subseteq People
  BY StaffParts DEF W!CheckSeats, W!At, W!Logins, W!History, Seated
<1>2. CASE W!Return(c)
  BY <1>1, <1>2, EndsSafe
<1>3. CASE W!SeatLeft /\ W!Goto(c, "provision")
  <2>1. PICK q \in W!CallState :
              /\ call' = [call EXCEPT ![c] = q] /\ q.pc = "provision"
              /\ q.employee = call[c].employee /\ q.email = call[c].email /\ q.role = call[c].role
              /\ q.request = call[c].request
    BY <1>3, StaffParts, GoesOn
  <2>2. In(c, Approving) /\ q.pc \notin Asking /\ q.pc \notin Creating
    BY <1>1, <2>1 DEF In, Creating, Asking, Approving, W!At
  <2>3. Sound(c, q)
    <3>1. /\ q.request \in DOMAIN asked /\ q.employee = asked[q.request].employee
          /\ q.email = asked[q.request].email /\ q.role = asked[q.request].role
      BY <2>1, <2>2, StaffParts DEF DecidersKnow
    <3>2. size.serial => W!Pending(q.request)
      BY <2>1, <2>2, StaffParts DEF RequestsInTurn
    <3>3. QED
      BY <1>1, <2>1, <2>2, <3>1, <3>2 DEF Sound
  <2>4. call \in [Calls -> W!CallState] /\ call'[c] = q /\ \A d \in Calls : d # c => call'[d] = call[d]
    BY <2>1, StaffParts
  <2>5. W!Existing' = W!Existing /\ W!Members' = W!Members /\ Others' = Others
    BY <1>1 DEF W!Existing, W!Members, Others
  <2>6. Left' \subseteq Left
    BY <1>1, <2>2, <2>4 DEF Left, In
  <2>7. Seated' = Seated \cup {c}
    BY <2>1, <2>4 DEF Seated, W!At
  <2>8. Cardinality(Seated') = Cardinality(Seated) + 1
    BY <1>1, <2>7, StaffParts, CountsFinite, FS_AddElement
  <2>9. Cardinality(Seated) <= Others
    <3>1. CASE size.serial
      <4>1. Seated = {}
        BY <1>1, <3>1, StaffParts DEF OneCall, Seated, W!At
      <4>2. QED
        BY <4>1, FS_EmptySet, StaffParts, SizesTyped
    <3>2. CASE ~size.serial
      <4>1. Seated \subseteq Calls \ {c}
        BY <1>1 DEF Seated
      <4>2. IsFiniteSet(Calls \ {c}) /\ Cardinality(Calls \ {c}) = Cardinality(Calls) - 1
        BY StaffConstants, FS_RemoveElement
      <4>3. QED
        BY <3>2, <4>1, <4>2, FS_Subset DEF Others
    <3>3. QED
      BY <3>1, <3>2
  <2>10. Cardinality(W!Members) + 1 <= size.seats
    BY <1>3, StaffConstants DEF W!SeatLeft
  <2>11. Cardinality(W!Existing') + Cardinality(Left') <= size.limit + Others * size.batch
    <3>1. Cardinality(Left') \in Nat /\ Cardinality(Left') <= Cardinality(Left)
      BY <2>6, StaffParts, CountsFinite, FS_Subset, FS_CardinalityType
    <3>2. Cardinality(W!Existing) + Cardinality(Left) <= size.limit + Others * size.batch
      BY StaffParts DEF RoomLeft
    <3>3. size.limit \in Nat /\ Others * size.batch \in Nat
      BY StaffParts, SizesTyped
    <3>4. QED
      BY <2>5, <3>1, <3>2, <3>3, StaffParts, CountsFinite
  <2>12. Cardinality(W!Members') + Cardinality(Seated') <= size.seats + Others
    BY <2>5, <2>8, <2>9, <2>10, StaffParts, CountsFinite, SizesTyped
  <2>13. RoomLeft'
    BY <1>1, <2>5, <2>11, <2>12 DEF RoomLeft
  <2>14. QED
    BY <1>1, <2>1, <2>3, <2>13, OnlyLocals
<1>4. QED
  BY <1>2, <1>3 DEF W!CheckSeats, W!SendInvite

\* The next row, or the end: a row less is left.
LEMMA NextRowIs ==
    ASSUME StaffSafe, NEW c \in Calls, W!At(c, "insert"), W!NextRow(c), size' = size
    PROVE  \E q \in W!CallState :
              /\ call' = [call EXCEPT ![c] = q] /\ Sound(c, q) /\ q.pc \in {"idle", "code"}
              /\ Left' \subseteq Left \ {<<c, call[c].left>>}
<1>1. /\ call[c].left \in 1..size.batch
      /\ size.batch \in Nat /\ call[c] \in W!CallState
  BY StaffParts, SizesTyped DEF CreatorsKnow, In, Creating, W!At
<1>2. CASE call[c].left > 1
  <2>1. PICK n \in 1..size.batch : n = call[c].left - 1
    BY <1>1, <1>2
  <2>2. PICK q : q = [call[c] EXCEPT !.pc = "code", !.left = n, !.code = 0]
    OBVIOUS
  <2>3. 0 \in 0..size.codes /\ n \in 0..size.batch /\ n < call[c].left
    <3>1. W!TypeOK
      BY StaffParts
    <3>2. size.codes \in Nat
      BY <3>1, SizesTyped
    <3>3. 0 \in 0..size.codes
      BY <3>2
    <3>4. n \in 0..size.batch /\ n < call[c].left
      BY <1>1, <2>1
    <3>5. QED
      BY <3>3, <3>4
  <2>4. q \in W!CallState
    BY <1>1, <2>2, <2>3 DEF W!CallState
  <2>5. q.pc = "code" /\ q.left = n /\ q.email = call[c].email /\ q.role = call[c].role
    BY <1>1, <2>2 DEF W!CallState
  <2>6. call' = [call EXCEPT ![c] = q]
    BY <1>2, <2>1, <2>2, StaffParts DEF W!NextRow
  <2>7. Sound(c, q)
    <3>1. call[c].email # Null => call[c].role \in W!Role
      BY StaffParts DEF CreatorsKnow, In, Creating, W!At
    <3>2. q.pc \notin Asking /\ q.pc \notin Approving /\ ~W!At(c, "idle")
      BY <2>5 DEF Asking, Approving, W!At
    <3>3. QED
      BY <2>1, <2>4, <2>5, <3>1, <3>2 DEF Sound
  <2>8. ASSUME NEW w \in Left' PROVE w \in Left /\ w # <<c, call[c].left>>
    <3>1. call'[c] = q /\ \A d \in Calls : d # c => call'[d] = call[d]
      BY <2>6, StaffParts
    <3>2. w \in Calls \X (1..size.batch) /\ call'[w[1]].pc \in Creating /\ w[2] <= call'[w[1]].left
      BY DEF Left, In
    <3>3. CASE w[1] = c
      <4>1. w[2] <= n /\ w[2] \in 1..size.batch
        BY <2>5, <3>1, <3>2, <3>3
      <4>2. w[2] <= call[c].left /\ w[2] # call[c].left
        BY <1>1, <2>1, <2>3, <4>1
      <4>3. QED
        BY <3>2, <3>3, <4>2 DEF Left, In, Creating, W!At
    <3>4. CASE w[1] # c
      BY <3>1, <3>2, <3>4 DEF Left, In
    <3>5. QED
      BY <3>3, <3>4
  <2>9. Left' \subseteq Left \ {<<c, call[c].left>>}
    BY <2>8
  <2>10. QED
    BY <2>4, <2>5, <2>6, <2>7, <2>9
<1>3. CASE ~(call[c].left > 1)
  <2>1. call' = [call EXCEPT ![c] = W!Idle]
    BY <1>3 DEF W!NextRow, W!Return
  <2>2. Sound(c, W!Idle) /\ W!Idle \in W!CallState /\ W!Idle.pc = "idle"
    BY StaffParts, EndsSound, IdleTyped
  <2>3. ASSUME NEW w \in Left' PROVE w \in Left /\ w # <<c, call[c].left>>
    <3>1. call'[c] = W!Idle /\ \A d \in Calls : d # c => call'[d] = call[d]
      BY <2>1, StaffParts
    <3>2. w \in Calls \X (1..size.batch) /\ call'[w[1]].pc \in Creating /\ w[2] <= call'[w[1]].left
      BY DEF Left, In
    <3>3. w[1] # c
      BY <2>2, <3>1, <3>2 DEF Creating
    <3>4. QED
      BY <3>1, <3>2, <3>3 DEF Left, In
  <2>4. Left' \subseteq Left \ {<<c, call[c].left>>}
    BY <2>3
  <2>5. QED
    BY <2>1, <2>2, <2>4
<1>4. QED
  BY <1>2, <1>3

\* A code that is taken: nothing is inserted, and no handler that is alone had
\* generated it.
LEMMA TakenSafe ==
    ASSUME StaffSafe, NEW c \in Calls, W!At(c, "insert"), W!NextRow(c),
           \E x \in W!Existing : employee[x].code = call[c].code,
           collided' = (collided \/ call[c].generated),
           UNCHANGED <<employee, member, membership, asked, size, torn>>
    PROVE  StaffSafe'
<1>1. PICK q \in W!CallState :
              /\ call' = [call EXCEPT ![c] = q] /\ Sound(c, q) /\ q.pc \in {"idle", "code"}
              /\ Left' \subseteq Left \ {<<c, call[c].left>>}
  BY NextRowIs
<1>2. collided \in BOOLEAN /\ call[c].generated \in BOOLEAN
  BY StaffParts DEF W!TypeOK, W!CallState
<1>3. size.serial => ~call[c].generated
  BY StaffParts DEF CodesNew
<1>4. collided' = collided \/ (~size.serial /\ collided' \in BOOLEAN)
  <2>1. CASE size.serial
    <3>1. call[c].generated = FALSE
      BY <1>2, <1>3, <2>1
    <3>2. QED
      BY <1>2, <3>1
  <2>2. CASE ~size.serial
    <3>1. collided' \in BOOLEAN
      BY <1>2
    <3>2. QED
      BY <2>2, <3>1
  <2>3. QED
    BY <2>1, <2>2
<1>5. RoomLeft'
  <2>1. W!Existing' = W!Existing /\ W!Members' = W!Members
    BY DEF W!Existing, W!Members
  <2>2. Seated' \subseteq Seated
    <3>1. call'[c] = q /\ \A d \in Calls : d # c => call'[d] = call[d]
      BY <1>1, StaffParts
    <3>2. QED
      BY <1>1, <3>1 DEF Seated, W!At
  <2>3. QED
    BY <1>1, <2>1, <2>2, StaffParts, RoomKept
<1>6. ~W!At(c, "decide") /\ torn \subseteq torn' /\ torn' \subseteq People
  BY StaffParts DEF W!At
<1>7. QED
  BY <1>1, <1>4, <1>5, <1>6, OnlyLocals

\* A row of the table: nobody knows of it but, perhaps, who asks for its login.
LEMMA InsertRowSafe ==
    ASSUME StaffSafe, NEW c \in Calls, NEW e \in Employees, W!Insert(c, e),
           ~ \E x \in W!Existing : employee[x].code = call[c].code
    PROVE  StaffSafe'
<1>1. /\ W!At(c, "insert") /\ employee[e] = Null
      /\ employee' = [employee EXCEPT ![e] = [code |-> call[c].code, user |-> Null]]
      /\ collided' = collided
      /\ UNCHANGED <<member, membership, asked, size, torn>>
      /\ In(c, Creating) /\ ~W!At(c, "idle")
  BY DEF W!Insert, W!Logins, W!At, In, Creating
<1>2. /\ call[c].left \in 1..size.batch /\ call[c].code \in 1..size.codes
      /\ call[c].email # Null => call[c].role \in W!Role
  BY <1>1, StaffParts DEF CreatorsKnow
<1>3. \E q \in W!CallState :
              /\ call' = [call EXCEPT ![c] = q] /\ q.pc \in {"idle", "code", "raise"}
              /\ q.pc = "code" => q.left \in 1..size.batch /\ (q.email # Null => q.role \in W!Role)
              /\ q.pc = "raise" => q.employee = e /\ q.email \in People /\ q.role \in W!Role
              /\ Left' \subseteq Left \ {<<c, call[c].left>>}
  <2>1. CASE W!NextRow(c)
    <3>1. PICK q \in W!CallState :
              /\ call' = [call EXCEPT ![c] = q] /\ Sound(c, q) /\ q.pc \in {"idle", "code"}
              /\ Left' \subseteq Left \ {<<c, call[c].left>>}
      BY <1>1, <2>1, NextRowIs
    <3>2. q.pc = "code" => q.left \in 1..size.batch /\ (q.email # Null => q.role \in W!Role)
      BY <3>1 DEF Sound, Creating
    <3>3. QED
      BY <3>1, <3>2
  <2>2. CASE call[c].email # Null /\ call' = [call EXCEPT ![c].pc = "raise", ![c].employee = e]
    <3>1. PICK q : q = [call[c] EXCEPT !.pc = "raise", !.employee = e]
      OBVIOUS
    <3>2. call[c] \in W!CallState
      BY StaffParts
    <3>3. q \in W!CallState
      BY <3>1, <3>2 DEF W!CallState
    <3>4. q.pc = "raise" /\ q.employee = e /\ q.email = call[c].email /\ q.role = call[c].role
      BY <3>1, <3>2 DEF W!CallState
    <3>5. call' = [call EXCEPT ![c] = q]
      BY <2>2, <3>1, StaffParts
    <3>6. q.email \in People
      BY <2>2, <3>2, <3>4 DEF W!CallState
    <3>7. call'[c] = q /\ \A d \in Calls : d # c => call'[d] = call[d]
      BY <3>5, StaffParts
    <3>8. Left' \subseteq Left \ {<<c, call[c].left>>}
      BY <1>1, <3>4, <3>7 DEF Left, In, Creating
    <3>9. QED
      BY <1>2, <2>2, <3>3, <3>4, <3>5, <3>6, <3>8
  <2>3. QED
    BY <2>1, <2>2 DEF W!Insert
<1>4. PICK q \in W!CallState :
              /\ call' = [call EXCEPT ![c] = q] /\ q.pc \in {"idle", "code", "raise"}
              /\ q.pc = "code" => q.left \in 1..size.batch /\ (q.email # Null => q.role \in W!Role)
              /\ q.pc = "raise" => q.employee = e /\ q.email \in People /\ q.role \in W!Role
              /\ Left' \subseteq Left \ {<<c, call[c].left>>}
  BY <1>3
<1>5. call'[c] = q /\ \A d \in Calls : d # c => call'[d] = call[d]
  BY <1>4, StaffParts
<1>6. W!TypeOK'
  <2>1. [code |-> call[c].code, user |-> Null] \in W!Row
    BY <1>2 DEF W!Row
  <2>2. call' \in [Calls -> W!CallState]
    BY <1>4, StaffParts
  <2>3. W!CallState' = W!CallState /\ W!Row' = W!Row
    BY <1>1 DEF W!CallState, W!Row
  <2>4. employee' \in [Employees -> W!Row \cup {Null, Gone}]
    BY <1>1, <2>1 DEF StaffSafe, W!TypeOK
  <2>5. QED
    BY <1>1, <2>2, <2>3, <2>4 DEF StaffSafe, W!TypeOK
<1>7. employee'[e] \notin {Null, Gone} /\ \A x \in Employees : x # e => employee'[x] = employee[x]
  <2>1. employee'[e] = [code |-> call[c].code, user |-> Null]
    BY <1>1, StaffParts DEF W!TypeOK
  <2>2. [code |-> call[c].code, user |-> Null] \in W!Row
    BY <1>2 DEF W!Row
  <2>3. employee'[e] \notin {Null, Gone}
    BY <2>1, <2>2, StaffParts, RowsAre
  <2>4. QED
    BY <1>1, <2>3, StaffParts DEF W!TypeOK
<1>8. W!Existing' = W!Existing \cup {e} /\ e \notin W!Existing
  BY <1>1, <1>7 DEF W!Existing
<1>9. CreatorsKnow'
  BY <1>1, <1>4, <1>5, StaffParts DEF CreatorsKnow, In, Creating, W!At
<1>10. \A i \in DOMAIN asked : asked[i].employee \in Employees /\ asked[i].employee # e
  BY <1>1, StaffParts DEF OneEach, W!Request
<1>11. AskersKnow'
  BY <1>1, <1>4, <1>5, <1>7, <1>10, StaffParts DEF AskersKnow, In, Asking
<1>12. DecidersKnow'
  <2>1. ASSUME NEW d \in Calls, In(d, Approving)' \/ W!At(d, "refuse")'
        PROVE  /\ d # c /\ call'[d] = call[d]
               /\ In(d, Approving)' = In(d, Approving) /\ \A pc : W!At(d, pc)' = W!At(d, pc)
    BY <1>4, <1>5, <2>1 DEF In, Approving, W!At
  <2>2. ASSUME NEW d \in Calls, W!At(d, "decide")'
        PROVE  call'[d].employee \in W!Existing' => employee'[call'[d].employee].user = call'[d].email
    <3>1. In(d, Approving)'
      BY <2>2 DEF In, Approving, W!At
    <3>2. W!At(d, "decide") /\ In(d, Approving) /\ call'[d] = call[d]
      BY <2>1, <2>2, <3>1
    <3>3. call[d].employee # e /\ call[d].employee \in Employees
      BY <1>10, <3>2, StaffParts DEF DecidersKnow
    <3>4. QED
      BY <1>7, <1>8, <3>2, <3>3, StaffParts DEF DecidersKnow, Linked
  <2>3. ASSUME NEW d \in Calls, W!At(d, "decide")' PROVE In(d, Approving)'
    BY <2>3 DEF In, Approving, W!At
  <2>4. QED
    BY <1>1, <2>1, <2>2, <2>3, StaffParts DEF DecidersKnow, Linked
<1>13. OneEach'
  BY <1>1, <1>7, <1>10, StaffParts DEF OneEach
<1>14. RoomLeft'
  <2>1. Cardinality(W!Existing') = Cardinality(W!Existing) + 1
    BY <1>8, StaffParts, CountsFinite, FS_AddElement
  <2>2. <<c, call[c].left>> \in Left
    BY <1>1, <1>2, StaffParts, SizesTyped DEF Left
  <2>3. Cardinality(Left') \in Nat /\ Cardinality(Left') <= Cardinality(Left) - 1
    <3>1. /\ IsFiniteSet(Left \ {<<c, call[c].left>>})
          /\ Cardinality(Left \ {<<c, call[c].left>>}) = Cardinality(Left) - 1
      BY <2>2, StaffParts, CountsFinite, FS_RemoveElement
    <3>2. QED
      BY <1>4, <3>1, FS_Subset, FS_CardinalityType
  <2>4. W!Members' = W!Members /\ Others' = Others
    BY <1>1 DEF W!Members, Others
  <2>5. Seated' \subseteq Seated
    BY <1>4, <1>5 DEF Seated, W!At
  <2>6. Cardinality(Seated') \in Nat /\ Cardinality(Seated') <= Cardinality(Seated)
    BY <2>5, StaffParts, CountsFinite, FS_Subset, FS_CardinalityType
  <2>7. Cardinality(W!Existing') + Cardinality(Left') <= size.limit + Others * size.batch
    <3>1. Cardinality(W!Existing) + Cardinality(Left) <= size.limit + Others * size.batch
      BY StaffParts DEF RoomLeft
    <3>2. size.limit \in Nat /\ Others * size.batch \in Nat
      BY StaffParts, SizesTyped
    <3>3. QED
      BY <2>1, <2>3, <3>1, <3>2, StaffParts, CountsFinite
  <2>8. Cardinality(W!Members') + Cardinality(Seated') <= size.seats + Others
    <3>1. Cardinality(W!Members) + Cardinality(Seated) <= size.seats + Others
      BY StaffParts DEF RoomLeft
    <3>2. QED
      BY <2>4, <2>6, <3>1, StaffParts, CountsFinite, SizesTyped
  <2>9. QED
    BY <1>1, <2>4, <2>7, <2>8 DEF RoomLeft
<1>15. Serial'
  <2>1. SUFFICES ASSUME size.serial PROVE OneCall' /\ CodesNew' /\ RequestsInTurn'
    BY <1>1 DEF Serial
  <2>2. \A d \in Calls : d # c => W!At(d, "idle")
    BY <1>1, <2>1, StaffParts DEF OneCall
  <2>3. OneCall'
    BY <1>5, <2>2 DEF OneCall, W!At
  <2>4. \A d \in Calls : call'[d].pc \in {"idle", "code", "raise"}
    BY <1>4, <1>5, <2>2 DEF W!At
  <2>5. CodesNew'
    BY <1>1, <2>1, <2>4, StaffParts DEF CodesNew, W!At
  <2>6. RequestsInTurn'
    BY <1>1, <2>1, <2>4, StaffParts DEF RequestsInTurn, In, Approving, W!At
  <2>7. QED
    BY <2>3, <2>5, <2>6
<1>16. W!OneAtATime' /\ W!ApprovedIsIn'
  <2>1. W!OneAtATime'
    BY <1>1 DEF StaffSafe, W!OneAtATime
  <2>2. W!ApprovedIsIn'
    BY <1>1, <1>7, <1>8, <1>10 DEF StaffSafe, W!ApprovedIsIn
  <2>3. QED
    BY <2>1, <2>2
<1>17. W!OnlyApprovedAreIn'
  <2>1. W!Members' = W!Members
    BY <1>1 DEF W!Members
  <2>2. \A d \in Calls : W!At(d, "decide") => W!At(d, "decide")' /\ call'[d] = call[d]
    BY <1>1, <1>5 DEF W!At
  <2>3. QED
    BY <1>1, <2>1, <2>2 DEF StaffSafe, W!OnlyApprovedAreIn
<1>18. QED
  BY <1>6, <1>9, <1>11, <1>12, <1>13, <1>14, <1>15, <1>16, <1>17 DEF StaffSafe

\* Another code, where it is free: nobody who is alone holds one.
LEMMA UpdateSafe ==
    ASSUME StaffSafe, NEW e \in Employees, NEW code \in 1..size.given, W!Update(e, code)
    PROVE  StaffSafe'
<1>1. /\ e \in W!Existing /\ employee' = [employee EXCEPT ![e].code = code]
      /\ size.serial => \A c \in Calls : W!At(c, "idle")
      /\ UNCHANGED <<member, membership, asked, call, size, torn, collided>>
  BY DEF W!Update, W!Alone, W!At, W!Logins, W!History
<1>2. employee[e] \in W!Row
  BY <1>1 DEF StaffSafe, W!TypeOK, W!Existing
<1>3. PICK r : r = [employee[e] EXCEPT !.code = code]
  OBVIOUS
<1>4. r \in W!Row /\ r.user = employee[e].user
  <2>1. code \in 1..size.codes
    BY StaffParts, SizesTyped
  <2>2. QED
    BY <1>2, <1>3, <2>1 DEF W!Row
<1>5. employee'[e] = r /\ \A x \in Employees : x # e => employee'[x] = employee[x]
  BY <1>1, <1>3, StaffParts DEF W!TypeOK
<1>6. r \notin {Null, Gone}
  BY <1>4, StaffParts, RowsAre
<1>7. W!Existing' = W!Existing /\ W!Members' = W!Members
  BY <1>1, <1>5, <1>6 DEF W!Existing, W!Members
<1>8. W!TypeOK'
  <2>1. W!CallState' = W!CallState /\ W!Row' = W!Row
    BY <1>1 DEF W!CallState, W!Row
  <2>2. employee' \in [Employees -> W!Row \cup {Null, Gone}]
    <3>1. employee' = [employee EXCEPT ![e] = r]
      BY <1>1, <1>3
    <3>2. QED
      BY <1>4, <3>1 DEF StaffSafe, W!TypeOK
  <2>3. QED
    BY <1>1, <2>1, <2>2 DEF StaffSafe, W!TypeOK
<1>9. \A x \in W!Existing : employee'[x].user = employee[x].user
  BY <1>4, <1>5 DEF W!Existing
<1>10. \A x \in Employees : employee[x] # Null => employee'[x] # Null
  BY <1>5, <1>6
<1>11. CreatorsKnow'
  BY <1>1, StaffParts DEF CreatorsKnow, In, W!At
<1>12. AskersKnow'
  BY <1>1, <1>10, StaffParts DEF AskersKnow, In
<1>13. DecidersKnow'
  BY <1>1, <1>7, <1>9, StaffParts DEF DecidersKnow, In, W!At, Linked
<1>14. OneEach'
  BY <1>1, <1>10, StaffParts DEF OneEach, W!Request
<1>15. RoomLeft'
  BY <1>1, <1>7 DEF StaffSafe, RoomLeft, Others, Left, Seated, In, W!At
<1>16. Serial'
  <2>1. SUFFICES ASSUME size.serial PROVE OneCall' /\ CodesNew' /\ RequestsInTurn'
    BY <1>1 DEF Serial
  <2>2. OneCall' /\ CodesNew'
    BY <1>1, <2>1, StaffParts DEF OneCall, CodesNew, W!At
  <2>3. RequestsInTurn'
    BY <1>1, <2>1, StaffParts DEF RequestsInTurn, In, W!At, W!Pending, Settled
  <2>4. QED
    BY <2>2, <2>3
<1>17. W!OneAtATime' /\ W!ApprovedIsIn'
  <2>1. W!OneAtATime'
    BY <1>1 DEF StaffSafe, W!OneAtATime
  <2>2. W!ApprovedIsIn'
    BY <1>1, <1>7, <1>9 DEF StaffSafe, W!ApprovedIsIn
  <2>3. QED
    BY <2>1, <2>2
<1>18. W!OnlyApprovedAreIn'
  BY <1>1, <1>7 DEF StaffSafe, W!OnlyApprovedAreIn, W!At
<1>19. QED
  BY <1>8, <1>11, <1>12, <1>13, <1>14, <1>15, <1>16, <1>17, <1>18 DEF StaffSafe

\* An approval's one transaction: the requests of an employee are one, so whoever else
\* decides it links the same person.
LEMMA ProvisionSafe ==
    ASSUME StaffSafe, NEW c \in Calls, W!Provision(c)
    PROVE  StaffSafe'
<1> DEFINE i == call[c].request
           e == call[c].employee
           p == call[c].email
<1>1. /\ W!At(c, "provision") /\ In(c, Approving) /\ ~W!At(c, "idle") /\ c \in Seated
      /\ member' = member \cup {p}
      /\ membership' = [membership EXCEPT ![p] = call[c].role]
      /\ employee' = IF e \in W!Existing THEN [employee EXCEPT ![e].user = p] ELSE employee
      /\ call' = [call EXCEPT ![c].pc = "decide"]
      /\ UNCHANGED <<asked, size, torn, collided>>
  BY DEF W!Provision, W!Goto, W!History, W!At, In, Approving, Seated
<1>2. /\ i \in DOMAIN asked /\ e = asked[i].employee /\ p = asked[i].email /\ call[c].role = asked[i].role
      /\ e \in Employees /\ p \in People /\ call[c].role \in W!Role /\ call[c].role # Null
  BY <1>1, StaffParts, StaffConstants DEF DecidersKnow, W!Request
<1>3. PICK q : q = [call[c] EXCEPT !.pc = "decide"]
  OBVIOUS
<1>4. call[c] \in W!CallState
  BY StaffParts
<1>5. /\ q \in W!CallState /\ q.pc = "decide" /\ q.request = i /\ q.employee = e /\ q.email = p
      /\ q.role = call[c].role
  BY <1>3, <1>4 DEF W!CallState
<1>6. /\ call' = [call EXCEPT ![c] = q] /\ call'[c] = q
      /\ \A d \in Calls : d # c => call'[d] = call[d]
  BY <1>1, <1>3, StaffParts
<1>7. /\ W!Existing' = W!Existing
      /\ \A x \in Employees : employee'[x] # Null <=> employee[x] # Null
      /\ \A x \in W!Existing : /\ employee'[x] \in W!Row /\ employee'[x].code = employee[x].code
                               /\ x # e => employee'[x].user = employee[x].user
                               /\ x = e => employee'[x].user = p
      /\ \A x \in Employees \ W!Existing : employee'[x] = employee[x]
      /\ employee' \in [Employees -> W!Row \cup {Null, Gone}]
  <2>1. employee \in [Employees -> W!Row \cup {Null, Gone}] /\ \A x \in W!Existing : employee[x] \in W!Row
    BY DEF StaffSafe, W!TypeOK, W!Existing
  <2>2. CASE e \notin W!Existing
    <3>1. employee' = employee
      BY <1>1, <2>2
    <3>2. QED
      BY <2>1, <2>2, <3>1 DEF W!Existing
  <2>3. CASE e \in W!Existing
    <3>1. PICK r : r = [employee[e] EXCEPT !.user = p]
      OBVIOUS
    <3>2. r \in W!Row /\ r.user = p /\ r.code = employee[e].code
      BY <1>2, <2>1, <2>3, <3>1 DEF W!Row
    <3>3. employee' = [employee EXCEPT ![e] = r]
      BY <1>1, <2>3, <3>1
    <3>4. r \notin {Null, Gone}
      BY <3>2, StaffParts, RowsAre
    <3>5. employee'[e] = r /\ \A x \in Employees : x # e => employee'[x] = employee[x]
      BY <1>2, <2>1, <3>3
    <3>6. W!Existing' = W!Existing
      BY <3>4, <3>5, <2>3 DEF W!Existing
    <3>7. employee' \in [Employees -> W!Row \cup {Null, Gone}]
      BY <2>1, <3>2, <3>3
    <3>8. employee[e] # Null
      BY <2>3 DEF W!Existing
    <3>9. \A x \in Employees : employee'[x] # Null <=> employee[x] # Null
      BY <3>4, <3>5, <3>8
    <3>10. \A x \in Employees \ W!Existing : employee'[x] = employee[x]
      BY <2>3, <3>5
    <3>11. \A x \in W!Existing : /\ employee'[x] \in W!Row /\ employee'[x].code = employee[x].code
                                 /\ x # e => employee'[x].user = employee[x].user
                                 /\ x = e => employee'[x].user = p
      BY <2>1, <3>2, <3>5 DEF W!Existing
    <3>12. QED
      BY <3>6, <3>7, <3>9, <3>10, <3>11
  <2>4. QED
    BY <2>2, <2>3
<1>8. /\ membership'[p] # Null /\ p \in member' /\ member \subseteq member'
      /\ \A x \in People : membership[x] # Null => membership'[x] # Null
      /\ \A x \in People : x # p => membership'[x] = membership[x]
      /\ membership' \in [People -> W!Role \cup {Null}] /\ member' \subseteq People
  BY <1>1, <1>2, StaffParts DEF W!TypeOK
<1>9. W!TypeOK'
  <2>1. W!CallState' = W!CallState /\ W!Row' = W!Row
    BY <1>1 DEF W!CallState, W!Row
  <2>2. call' \in [Calls -> W!CallState]
    BY <1>5, <1>6, StaffParts
  <2>3. QED
    BY <1>1, <1>7, <1>8, <2>1, <2>2 DEF StaffSafe, W!TypeOK
<1>10. CreatorsKnow'
  BY <1>1, <1>5, <1>6, StaffParts DEF CreatorsKnow, In, Creating, W!At
<1>11. AskersKnow'
  BY <1>1, <1>5, <1>6, <1>7, StaffParts DEF AskersKnow, In, Asking
<1>12. \A j \in DOMAIN asked : /\ asked[j].employee \in Employees /\ asked[j].email \in People
                               /\ asked[j].employee = e => j = i /\ asked[j].email = p
  BY <1>2, StaffParts DEF OneEach, W!Request
<1>13. DecidersKnow'
  <2>1. ASSUME NEW d \in Calls, d # c
        PROVE  /\ In(d, Approving)' = In(d, Approving) /\ call'[d] = call[d]
               /\ \A pc : W!At(d, pc)' = W!At(d, pc)
    BY <1>6, <2>1 DEF In, W!At
  <2>2. ASSUME NEW d \in Calls, d # c, W!At(d, "decide")
        PROVE  /\ call[d].email \in member' /\ membership'[call[d].email] # Null
               /\ call[d].employee \in W!Existing => employee'[call[d].employee].user = call[d].email
    <3>1. In(d, Approving)
      BY <2>2 DEF In, Approving, W!At
    <3>2. /\ call[d].request \in DOMAIN asked /\ call[d].employee = asked[call[d].request].employee
          /\ call[d].email = asked[call[d].request].email
          /\ call[d].email \in member /\ membership[call[d].email] # Null
          /\ call[d].employee \in W!Existing => employee[call[d].employee].user = call[d].email
      BY <2>2, <3>1, StaffParts DEF DecidersKnow, Linked
    <3>3. QED
      BY <1>7, <1>8, <1>12, <3>2
  <2>3. ASSUME NEW d \in Calls
        PROVE  /\ W!At(d, "refuse")' => call'[d].request \in DOMAIN asked'
               /\ In(d, Approving)' => /\ call'[d].request \in DOMAIN asked'
                                       /\ call'[d].employee = asked'[call'[d].request].employee
                                       /\ call'[d].email = asked'[call'[d].request].email
                                       /\ call'[d].role = asked'[call'[d].request].role
               /\ W!At(d, "decide")' => /\ call'[d].email \in member' /\ membership'[call'[d].email] # Null
                                        /\ call'[d].employee \in W!Existing'
                                                => employee'[call'[d].employee].user = call'[d].email
    <3>1. CASE d = c
      <4>1. call'[d] = q /\ ~W!At(d, "refuse")'
        BY <1>5, <1>6, <3>1 DEF W!At
      <4>2. /\ q.request \in DOMAIN asked /\ q.employee = asked[q.request].employee
            /\ q.email = asked[q.request].email /\ q.role = asked[q.request].role
        BY <1>1, <1>2, <1>5
      <4>3. /\ q.email \in member' /\ membership'[q.email] # Null
            /\ q.employee \in W!Existing' => employee'[q.employee].user = q.email
        BY <1>5, <1>7, <1>8
      <4>4. asked' = asked
        BY <1>1
      <4>5. QED
        BY <4>1, <4>2, <4>3, <4>4
    <3>2. CASE d # c
      BY <1>1, <1>7, <2>1, <2>2, <3>2, StaffParts DEF DecidersKnow
    <3>3. QED
      BY <3>1, <3>2
  <2>4. QED
    BY <2>3 DEF DecidersKnow, Linked
<1>14. OneEach'
  BY <1>1, <1>7, <1>12, StaffParts DEF OneEach
<1>15. RoomLeft'
  <2>1. W!Members' \subseteq W!Members \cup {p}
    BY <1>8 DEF W!Members
  <2>2. Cardinality(W!Members') \in Nat /\ Cardinality(W!Members') <= Cardinality(W!Members) + 1
    <3>1. IsFiniteSet(W!Members \cup {p}) /\ Cardinality(W!Members \cup {p}) <= Cardinality(W!Members) + 1
      BY StaffParts, CountsFinite, OneMore
    <3>2. /\ Cardinality(W!Members') \in Nat /\ Cardinality(W!Members \cup {p}) \in Nat
          /\ Cardinality(W!Members') <= Cardinality(W!Members \cup {p})
      BY <2>1, <3>1, FS_Subset, FS_CardinalityType
    <3>3. QED
      BY <3>1, <3>2, StaffParts, CountsFinite
  <2>3. Seated' \subseteq Seated \ {c}
    BY <1>5, <1>6 DEF Seated, W!At
  <2>4. Cardinality(Seated') \in Nat /\ Cardinality(Seated') <= Cardinality(Seated) - 1
    <3>1. IsFiniteSet(Seated \ {c}) /\ Cardinality(Seated \ {c}) = Cardinality(Seated) - 1
      BY <1>1, StaffParts, CountsFinite, FS_RemoveElement
    <3>2. QED
      BY <2>3, <3>1, FS_Subset, FS_CardinalityType
  <2>5. Left' \subseteq Left
    BY <1>1, <1>5, <1>6 DEF Left, In, Creating
  <2>6. Cardinality(Left') \in Nat /\ Cardinality(Left') <= Cardinality(Left)
    BY <2>5, StaffParts, CountsFinite, FS_Subset, FS_CardinalityType
  <2>7. /\ Cardinality(W!Existing) + Cardinality(Left) <= size.limit + Others * size.batch
        /\ Cardinality(W!Members) + Cardinality(Seated) <= size.seats + Others
    BY StaffParts DEF RoomLeft
  <2>8. /\ size.limit + Others * size.batch \in Nat /\ size.seats + Others \in Nat
        /\ Cardinality(W!Existing) \in Nat /\ Cardinality(Left) \in Nat
        /\ Cardinality(W!Members) \in Nat /\ Cardinality(Seated) \in Nat
    <3>1. W!TypeOK
      BY StaffParts
    <3>2. /\ size.limit \in Nat /\ Others * size.batch \in Nat
          /\ size.seats \in Nat /\ Others \in Nat
      BY <3>1, SizesTyped
    <3>3. \A m, n \in Nat : m + n \in Nat
      OBVIOUS
    <3>4. QED
      BY <3>1, <3>2, <3>3, CountsFinite
  <2>9. Cardinality(W!Existing) + Cardinality(Left') <= size.limit + Others * size.batch
    <3>1. \A a, b, d, n \in Nat : d <= b /\ a + b <= n => a + d <= n
      OBVIOUS
    <3>2. QED
      BY <2>6, <2>7, <2>8, <3>1
  <2>10. Cardinality(W!Members') + Cardinality(Seated') <= size.seats + Others
    <3>1. \A a, b, n, x, y \in Nat : x <= a + 1 /\ y <= b - 1 /\ a + b <= n => x + y <= n
      OBVIOUS
    <3>2. QED
      BY <2>2, <2>4, <2>7, <2>8, <3>1
  <2>11. Others' = Others
    BY <1>1 DEF Others
  <2>12. QED
    BY <1>1, <1>7, <2>9, <2>10, <2>11 DEF RoomLeft
<1>16. Serial'
  <2>1. SUFFICES ASSUME size.serial PROVE OneCall' /\ CodesNew' /\ RequestsInTurn'
    BY <1>1 DEF Serial
  <2>2. \A d \in Calls : d # c => W!At(d, "idle")
    BY <1>1, <2>1, StaffParts DEF OneCall
  <2>3. OneCall'
    BY <1>6, <2>2 DEF OneCall, W!At
  <2>4. \A d \in Calls : call'[d].pc \in {"idle", "decide"} /\ (call'[d].pc = "decide" => d = c)
    BY <1>5, <1>6, <2>2 DEF W!At
  <2>5. CodesNew'
    BY <1>1, <2>1, <2>4, StaffParts DEF CodesNew, W!At
  <2>6. W!Pending(i)
    BY <1>1, <2>1, StaffParts DEF RequestsInTurn
  <2>7. RequestsInTurn'
    <3>1. ASSUME NEW d \in Calls, In(d, Approving)' \/ W!At(d, "refuse")' PROVE call'[d].request = i
      <4>1. d = c
        BY <2>4, <3>1 DEF In, Approving, W!At
      <4>2. QED
        BY <1>5, <1>6, <4>1
    <3>2. \A d \in Calls : ~W!At(d, "ask")'
      BY <2>4 DEF W!At
    <3>3. QED
      BY <1>1, <2>1, <2>6, <3>1, <3>2, StaffParts DEF RequestsInTurn, W!Pending
  <2>8. QED
    BY <2>3, <2>5, <2>7
<1>17. W!OneAtATime' /\ W!ApprovedIsIn'
  <2>1. W!OneAtATime'
    BY <1>1 DEF StaffSafe, W!OneAtATime
  <2>2. ASSUME NEW j \in DOMAIN asked, asked[j].status = "approved"
        PROVE  /\ asked[j].email \in member' /\ membership'[asked[j].email] # Null
               /\ asked[j].employee \in W!Existing' => employee'[asked[j].employee].user = asked[j].email
    <3>1. /\ asked[j].email \in member /\ membership[asked[j].email] # Null
          /\ asked[j].employee \in W!Existing => employee[asked[j].employee].user = asked[j].email
      BY <2>2 DEF StaffSafe, W!ApprovedIsIn
    <3>2. QED
      BY <1>7, <1>8, <1>12, <3>1
  <2>3. W!ApprovedIsIn'
    BY <1>1, <2>2 DEF W!ApprovedIsIn
  <2>4. QED
    BY <2>1, <2>3
<1>18. W!OnlyApprovedAreIn'
  <2>1. SUFFICES ASSUME size.serial, NEW x \in W!Members' \ ({Founder} \cup torn)
                 PROVE  \/ \E j \in DOMAIN asked : asked[j].email = x /\ asked[j].status = "approved"
                        \/ \E d \in Calls : call'[d].pc = "decide" /\ call'[d].email = x
    BY <1>1 DEF W!OnlyApprovedAreIn, W!At
  <2>2. CASE x = p
    BY <1>5, <1>6, <2>2
  <2>3. CASE x # p
    <3>1. x \in W!Members
      BY <1>8, <2>3 DEF W!Members
    <3>2. \/ \E j \in DOMAIN asked : asked[j].email = x /\ asked[j].status = "approved"
          \/ \E d \in Calls : W!At(d, "decide") /\ call[d].email = x
      BY <2>1, <3>1 DEF StaffSafe, W!OnlyApprovedAreIn
    <3>3. \A d \in Calls : W!At(d, "decide") => call'[d] = call[d] /\ call'[d].pc = "decide"
      BY <1>1, <1>6 DEF W!At
    <3>4. QED
      BY <3>2, <3>3
  <2>4. QED
    BY <2>2, <2>3
<1>19. QED
  BY <1>9, <1>10, <1>11, <1>13, <1>14, <1>15, <1>16, <1>17, <1>18 DEF StaffSafe

\* A mark on a request, or a request more, of whoever it was asked for: where what
\* is approved was provisioned, and stays approved where handlers are alone.
LEMMA RequestsMarked ==
    ASSUME StaffSafe, UNCHANGED <<member, membership, size, torn, collided>>,
           call' \in [Calls -> W!CallState], \A d \in Calls : call'[d] \in {call[d], W!Idle},
           employee' \in [Employees -> W!Row \cup {Null, Gone}],
           \A x \in Employees : employee'[x] = employee[x] \/ employee'[x] = Gone,
           asked' \in Seq(W!Request), Len(asked') <= size.requests,
           DOMAIN asked \subseteq DOMAIN asked',
           \A i \in DOMAIN asked : /\ asked'[i].employee = asked[i].employee
                                   /\ asked'[i].email = asked[i].email /\ asked'[i].role = asked[i].role,
           \A i \in DOMAIN asked' : asked'[i].status = "approved" =>
                (\/ i \in DOMAIN asked /\ asked[i].status = "approved"
                 \/ \E d \in Calls : W!At(d, "decide") /\ call[d].request = i),
           size.serial => \A i \in DOMAIN asked :
                asked[i].status = "approved" => asked'[i].status = "approved",
           \A d \in Calls : W!At(d, "decide") =>
                (call'[d] = call[d] \/ asked'[call[d].request].status = "approved")
    PROVE  /\ W!TypeOK' /\ CreatorsKnow' /\ DecidersKnow' /\ RoomLeft'
           /\ size.serial => OneCall' /\ CodesNew'
           /\ W!ApprovedIsIn' /\ W!OnlyApprovedAreIn'
<1>1. W!TypeOK'
  <2>1. W!CallState' = W!CallState /\ W!Row' = W!Row
    BY DEF W!CallState, W!Row
  <2>2. QED
    BY <2>1 DEF StaffSafe, W!TypeOK
<1>2. W!Idle.pc = "idle"
  BY StaffParts, IdleTyped
<1>3. ASSUME NEW d \in Calls, ~W!At(d, "idle")' PROVE call'[d] = call[d]
  BY <1>2, <1>3 DEF W!At
<1>4. \A x \in Employees : /\ x \in W!Existing' => x \in W!Existing /\ employee'[x] = employee[x]
                           /\ employee[x] # Null => employee'[x] # Null
  BY StaffParts, RowsAre DEF W!Existing
<1>5. W!Existing' \subseteq W!Existing /\ W!Members' = W!Members
  BY <1>4 DEF W!Existing, W!Members
<1>6. CreatorsKnow'
  <2>1. ASSUME NEW d \in Calls, In(d, Creating)' \/ W!At(d, "insert")' PROVE call'[d] = call[d]
    BY <1>2, <2>1 DEF In, Creating, W!At
  <2>2. QED
    BY <2>1, StaffParts DEF CreatorsKnow, In, W!At
<1>7. DecidersKnow'
  <2>1. ASSUME NEW d \in Calls, \/ In(d, Approving)' \/ W!At(d, "refuse")' \/ W!At(d, "decide")'
        PROVE  call'[d] = call[d]
    BY <1>2, <2>1 DEF In, Approving, W!At
  <2>2. ASSUME NEW d \in Calls, W!At(d, "decide")
        PROVE  /\ In(d, Approving) /\ call[d].employee \in Employees
               /\ call[d].email \in member /\ membership[call[d].email] # Null
               /\ call[d].employee \in W!Existing' => employee'[call[d].employee].user = call[d].email
    <3>1. In(d, Approving)
      BY <2>2 DEF In, Approving, W!At
    <3>2. call[d].employee \in Employees
      BY <3>1, StaffParts DEF DecidersKnow, W!Request
    <3>3. QED
      BY <1>4, <2>2, <3>1, <3>2, StaffParts DEF DecidersKnow, Linked
  <2>3. ASSUME NEW d \in Calls
        PROVE  /\ W!At(d, "refuse")' => call'[d].request \in DOMAIN asked'
               /\ In(d, Approving)' => /\ call'[d].request \in DOMAIN asked'
                                       /\ call'[d].employee = asked'[call'[d].request].employee
                                       /\ call'[d].email = asked'[call'[d].request].email
                                       /\ call'[d].role = asked'[call'[d].request].role
               /\ W!At(d, "decide")' => /\ call'[d].email \in member' /\ membership'[call'[d].email] # Null
                                        /\ call'[d].employee \in W!Existing'
                                                => employee'[call'[d].employee].user = call'[d].email
    <3>1. CASE \/ In(d, Approving)' \/ W!At(d, "refuse")' \/ W!At(d, "decide")'
      <4>1. call'[d] = call[d]
        BY <2>1, <3>1
      <4>2. /\ In(d, Approving)' = In(d, Approving) /\ W!At(d, "refuse")' = W!At(d, "refuse")
            /\ W!At(d, "decide")' = W!At(d, "decide")
        BY <4>1 DEF In, W!At
      <4>3. /\ W!At(d, "refuse") => call[d].request \in DOMAIN asked
            /\ In(d, Approving) => /\ call[d].request \in DOMAIN asked
                                   /\ call[d].employee = asked[call[d].request].employee
                                   /\ call[d].email = asked[call[d].request].email
                                   /\ call[d].role = asked[call[d].request].role
        BY StaffParts DEF DecidersKnow
      <4>4. QED
        BY <2>2, <4>1, <4>2, <4>3
    <3>2. QED
      BY <3>1
  <2>4. QED
    BY <2>3 DEF DecidersKnow, Linked
<1>8. RoomLeft'
  <2>1. Left' \subseteq Left
    BY <1>2 DEF Left, In, Creating
  <2>2. Seated' \subseteq Seated
    BY <1>2 DEF Seated, W!At
  <2>3. QED
    BY <1>5, <2>1, <2>2, StaffParts, RoomKept
<1>9. ASSUME size.serial PROVE OneCall' /\ CodesNew'
  <2>1. OneCall'
    BY <1>2, <1>9, StaffParts DEF OneCall, W!At
  <2>2. ASSUME NEW d \in Calls, W!At(d, "insert")' PROVE call'[d] = call[d] /\ W!At(d, "insert")
    BY <1>2, <2>2 DEF W!At
  <2>3. CodesNew'
    BY <1>4, <1>5, <1>9, <2>2, StaffParts DEF CodesNew, W!Existing
  <2>4. QED
    BY <2>1, <2>3
<1>10. W!ApprovedIsIn'
  <2>1. ASSUME NEW i \in DOMAIN asked', asked'[i].status = "approved"
        PROVE  /\ asked'[i].email \in member' /\ membership'[asked'[i].email] # Null
               /\ asked'[i].employee \in W!Existing' => employee'[asked'[i].employee].user = asked'[i].email
    <3>1. CASE i \in DOMAIN asked /\ asked[i].status = "approved"
      <4>1. asked[i].employee \in Employees
        BY <3>1, StaffParts DEF W!Request
      <4>2. QED
        BY <1>4, <3>1, <4>1 DEF StaffSafe, W!ApprovedIsIn
    <3>2. CASE \E d \in Calls : W!At(d, "decide") /\ call[d].request = i
      <4>1. PICK d \in Calls : W!At(d, "decide") /\ call[d].request = i
        BY <3>2
      <4>2. In(d, Approving)
        BY <4>1 DEF In, Approving, W!At
      <4>3. /\ i \in DOMAIN asked /\ call[d].employee = asked[i].employee /\ call[d].email = asked[i].email
            /\ call[d].email \in member /\ membership[call[d].email] # Null
            /\ call[d].employee \in W!Existing => employee[call[d].employee].user = call[d].email
        BY <4>1, <4>2, StaffParts DEF DecidersKnow, Linked
      <4>4. asked[i].employee \in Employees
        BY <4>3, StaffParts DEF W!Request
      <4>5. QED
        BY <1>4, <4>3, <4>4
    <3>3. QED
      BY <2>1, <3>1, <3>2
  <2>2. QED
    BY <2>1 DEF W!ApprovedIsIn
<1>11. W!OnlyApprovedAreIn'
  <2>1. SUFFICES ASSUME size.serial, NEW x \in W!Members \ ({Founder} \cup torn)
                 PROVE  \/ \E j \in DOMAIN asked' : asked'[j].email = x /\ asked'[j].status = "approved"
                        \/ \E d \in Calls : call'[d].pc = "decide" /\ call'[d].email = x
    BY <1>5 DEF W!OnlyApprovedAreIn, W!At
  <2>2. \/ \E j \in DOMAIN asked : asked[j].email = x /\ asked[j].status = "approved"
        \/ \E d \in Calls : W!At(d, "decide") /\ call[d].email = x
    BY <2>1 DEF StaffSafe, W!OnlyApprovedAreIn
  <2>3. CASE \E j \in DOMAIN asked : asked[j].email = x /\ asked[j].status = "approved"
    BY <2>1, <2>3
  <2>4. ASSUME NEW d \in Calls, W!At(d, "decide"), call[d].email = x
        PROVE  \/ \E j \in DOMAIN asked' : asked'[j].email = x /\ asked'[j].status = "approved"
               \/ \E k \in Calls : call'[k].pc = "decide" /\ call'[k].email = x
    <3>1. CASE call'[d] = call[d]
      BY <2>4, <3>1 DEF W!At
    <3>2. CASE asked'[call[d].request].status = "approved"
      <4>1. In(d, Approving)
        BY <2>4 DEF In, Approving, W!At
      <4>2. call[d].request \in DOMAIN asked /\ asked[call[d].request].email = x
        BY <2>4, <4>1, StaffParts DEF DecidersKnow
      <4>3. QED
        BY <3>2, <4>2
    <3>3. QED
      BY <2>4, <3>1, <3>2
  <2>5. QED
    BY <2>2, <2>3, <2>4
<1>12. QED
  BY <1>1, <1>6, <1>7, <1>8, <1>9, <1>10, <1>11

\* Where nobody is at work, and what is asked for is asked for still.
LEMMA AskersKept ==
    ASSUME StaffSafe, \A d \in Calls : call'[d] \in {call[d], W!Idle},
           employee' \in [Employees -> W!Row \cup {Null, Gone}],
           \A x \in Employees : employee'[x] = employee[x] \/ employee'[x] = Gone,
           DOMAIN asked' = DOMAIN asked,
           \A i \in DOMAIN asked : asked'[i].employee = asked[i].employee
    PROVE  AskersKnow' /\ OneEach'
<1>1. W!Idle.pc = "idle"
  BY StaffParts, IdleTyped
<1>2. ASSUME NEW d \in Calls, In(d, Asking)' PROVE call'[d] = call[d] /\ In(d, Asking)
  BY <1>1, <1>2 DEF In, Asking
<1>3. \A x \in Employees : employee[x] # Null => employee'[x] # Null
  BY StaffParts, RowsAre
<1>4. AskersKnow'
  BY <1>2, <1>3, StaffParts DEF AskersKnow
<1>5. OneEach'
  BY <1>3, StaffParts DEF OneEach, W!Request
<1>6. QED
  BY <1>4, <1>5

LEMMA MapIsSeq ==
    ASSUME NEW S, NEW n \in Nat, NEW f \in [1..n -> S]
    PROVE  f \in Seq(S) /\ Len(f) = n
<1>1. f \in Seq(S)
  BY SeqDef
<1>2. Len(f) \in Nat /\ 1..Len(f) = 1..n
  BY <1>1, LenProperties
<1>3. QED
  BY <1>1, <1>2

LEMMA RemoveSafe ==
    ASSUME StaffSafe, NEW e \in Employees, W!Remove(e)
    PROVE  StaffSafe'
<1>1. /\ e \in W!Existing /\ employee' = [employee EXCEPT ![e] = Gone]
      /\ size.serial => \A c \in Calls : W!At(c, "idle")
      /\ UNCHANGED <<member, membership, call, size, torn, collided>>
  BY DEF W!Remove, W!Alone, W!At, W!Logins, W!History
<1>2. asked' = [i \in DOMAIN asked |-> [asked[i] EXCEPT !.deleted = @ \/ asked[i].employee = e]]
  BY DEF W!Remove
<1>3. ASSUME NEW i \in DOMAIN asked
      PROVE  /\ asked'[i] \in W!Request
             /\ asked'[i].employee = asked[i].employee /\ asked'[i].email = asked[i].email
             /\ asked'[i].role = asked[i].role /\ asked'[i].status = asked[i].status
             /\ asked'[i].cooling = asked[i].cooling /\ (asked[i].deleted => asked'[i].deleted)
  <2>1. asked[i] \in W!Request
    BY StaffParts
  <2>2. PICK b \in BOOLEAN : b = (asked[i].deleted \/ asked[i].employee = e)
    OBVIOUS
  <2>3. asked'[i] = [asked[i] EXCEPT !.deleted = b]
    BY <1>2, <2>2
  <2>4. asked[i].deleted => b
    BY <2>2
  <2>5. QED
    BY <2>1, <2>3, <2>4 DEF W!Request
<1>4. asked' \in Seq(W!Request) /\ Len(asked') = Len(asked) /\ DOMAIN asked' = DOMAIN asked
  <2>1. DOMAIN asked' = DOMAIN asked
    BY <1>2
  <2>2. asked' \in [1..Len(asked) -> W!Request] /\ Len(asked) \in Nat
    BY <1>2, <1>3, StaffParts
  <2>3. QED
    BY <2>1, <2>2, MapIsSeq
<1>5. Len(asked') <= size.requests
  BY <1>4 DEF StaffSafe, W!TypeOK
<1>6. /\ employee' \in [Employees -> W!Row \cup {Null, Gone}]
      /\ \A x \in Employees : employee'[x] = employee[x] \/ employee'[x] = Gone
  BY <1>1 DEF StaffSafe, W!TypeOK
<1>7. call' \in [Calls -> W!CallState] /\ \A d \in Calls : call'[d] = call[d]
  BY <1>1, StaffParts
<1>8. /\ W!TypeOK' /\ CreatorsKnow' /\ DecidersKnow' /\ RoomLeft'
      /\ size.serial => OneCall' /\ CodesNew'
      /\ W!ApprovedIsIn' /\ W!OnlyApprovedAreIn'
  <2>1. \A d \in Calls : call'[d] \in {call[d], W!Idle}
    BY <1>7
  <2>2. DOMAIN asked \subseteq DOMAIN asked'
    BY <1>4
  <2>3. \A i \in DOMAIN asked : /\ asked'[i].employee = asked[i].employee
                                /\ asked'[i].email = asked[i].email /\ asked'[i].role = asked[i].role
    BY <1>3
  <2>4. \A i \in DOMAIN asked' : asked'[i].status = "approved" =>
                (\/ i \in DOMAIN asked /\ asked[i].status = "approved"
                 \/ \E d \in Calls : W!At(d, "decide") /\ call[d].request = i)
    BY <1>3, <1>4
  <2>5. size.serial => \A i \in DOMAIN asked :
                asked[i].status = "approved" => asked'[i].status = "approved"
    BY <1>3
  <2>6. \A d \in Calls : W!At(d, "decide") =>
                (call'[d] = call[d] \/ asked'[call[d].request].status = "approved")
    BY <1>7
  <2>7. QED
    BY <1>1, <1>4, <1>5, <1>6, <1>7, <2>1, <2>2, <2>3, <2>4, <2>5, <2>6, RequestsMarked
<1>9. AskersKnow' /\ OneEach'
  <2>1. \A d \in Calls : call'[d] \in {call[d], W!Idle}
    BY <1>7
  <2>2. \A i \in DOMAIN asked : asked'[i].employee = asked[i].employee
    BY <1>3
  <2>3. QED
    BY <1>4, <1>6, <2>1, <2>2, AskersKept
<1>10. Serial'
  <2>1. SUFFICES ASSUME size.serial PROVE RequestsInTurn'
    BY <1>1, <1>8 DEF Serial
  <2>2. \A d \in Calls : call'[d].pc = "idle"
    BY <1>1, <1>7, <2>1 DEF W!At
  <2>3. \A i \in DOMAIN asked' : asked'[i].cooling => asked'[i].status = "rejected"
    BY <1>3, <1>4, <2>1, StaffParts DEF RequestsInTurn
  <2>4. QED
    BY <2>2, <2>3 DEF RequestsInTurn, In, Approving, W!At
<1>11. W!OneAtATime'
  <2>1. SUFFICES ASSUME size.serial, NEW i \in DOMAIN asked, NEW j \in 1..(i - 1),
                        asked'[j].email = asked'[i].email, ~asked'[i].deleted, ~asked'[j].deleted
                 PROVE  asked'[j].status # "pending" /\ ~asked'[j].cooling
    BY <1>1, <1>4 DEF W!OneAtATime
  <2>2. j \in DOMAIN asked
    BY StaffParts
  <2>3. asked[j].email = asked[i].email /\ ~asked[i].deleted /\ ~asked[j].deleted
    BY <1>3, <2>1, <2>2
  <2>4. asked[j].status # "pending" /\ ~asked[j].cooling
    BY <2>1, <2>3 DEF StaffSafe, W!OneAtATime
  <2>5. QED
    BY <1>3, <2>2, <2>4
<1>12. QED
  BY <1>8, <1>9, <1>10, <1>11 DEF StaffSafe

\* What a mark on one request leaves of the others.
LEMMA MarkOne ==
    ASSUME W!TypeOK, NEW i \in DOMAIN asked, NEW r \in W!Request,
           asked' = [asked EXCEPT ![i] = r]
    PROVE  /\ asked' \in Seq(W!Request) /\ Len(asked') <= size.requests
           /\ DOMAIN asked' = DOMAIN asked
           /\ asked'[i] = r /\ \A j \in DOMAIN asked : j # i => asked'[j] = asked[j]
<1>1. asked \in Seq(W!Request) /\ Len(asked) <= size.requests /\ i \in 1..Len(asked)
  BY LenProperties DEF W!TypeOK
<1>2. /\ [asked EXCEPT ![i] = r] \in Seq(W!Request) /\ Len([asked EXCEPT ![i] = r]) = Len(asked)
  BY <1>1, ExceptSeq
<1>3. QED
  BY <1>1, <1>2

LEMMA CoolDownSafe ==
    ASSUME StaffSafe, NEW i, W!CoolDown(i)
    PROVE  StaffSafe'
<1>1. /\ i \in DOMAIN asked /\ asked' = [asked EXCEPT ![i].cooling = FALSE]
      /\ UNCHANGED <<employee, member, membership, call, size, torn, collided>>
  BY DEF W!CoolDown, W!Logins, W!History
<1>2. PICK r : r = [asked[i] EXCEPT !.cooling = FALSE]
  OBVIOUS
<1>3. /\ r \in W!Request /\ r.employee = asked[i].employee /\ r.email = asked[i].email
      /\ r.role = asked[i].role /\ r.status = asked[i].status /\ r.deleted = asked[i].deleted
      /\ r.cooling = FALSE
  <2>1. asked[i] \in W!Request
    BY <1>1, StaffParts
  <2>2. QED
    BY <1>2, <2>1 DEF W!Request
<1>4. /\ asked' \in Seq(W!Request) /\ Len(asked') <= size.requests
      /\ DOMAIN asked' = DOMAIN asked
      /\ asked'[i] = r /\ \A j \in DOMAIN asked : j # i => asked'[j] = asked[j]
  <2>1. asked' = [asked EXCEPT ![i] = r]
    BY <1>1, <1>2
  <2>2. QED
    BY <1>1, <1>3, <2>1, StaffParts, MarkOne
<1>5. \A j \in DOMAIN asked :
          /\ asked'[j].employee = asked[j].employee /\ asked'[j].email = asked[j].email
          /\ asked'[j].role = asked[j].role /\ asked'[j].status = asked[j].status
          /\ asked'[j].deleted = asked[j].deleted /\ (asked'[j].cooling => asked[j].cooling)
  BY <1>3, <1>4
<1>6. /\ employee' \in [Employees -> W!Row \cup {Null, Gone}]
      /\ \A x \in Employees : employee'[x] = employee[x] \/ employee'[x] = Gone
  BY <1>1 DEF StaffSafe, W!TypeOK
<1>7. call' \in [Calls -> W!CallState] /\ \A d \in Calls : call'[d] = call[d]
  BY <1>1, StaffParts
<1>8. /\ W!TypeOK' /\ CreatorsKnow' /\ DecidersKnow' /\ RoomLeft'
      /\ size.serial => OneCall' /\ CodesNew'
      /\ W!ApprovedIsIn' /\ W!OnlyApprovedAreIn'
  <2>1. \A d \in Calls : call'[d] \in {call[d], W!Idle}
    BY <1>7
  <2>2. DOMAIN asked \subseteq DOMAIN asked'
    BY <1>4
  <2>3. \A j \in DOMAIN asked : /\ asked'[j].employee = asked[j].employee
                                /\ asked'[j].email = asked[j].email /\ asked'[j].role = asked[j].role
    BY <1>5
  <2>4. \A j \in DOMAIN asked' : asked'[j].status = "approved" =>
                (\/ j \in DOMAIN asked /\ asked[j].status = "approved"
                 \/ \E d \in Calls : W!At(d, "decide") /\ call[d].request = j)
    BY <1>4, <1>5
  <2>5. size.serial => \A j \in DOMAIN asked :
                asked[j].status = "approved" => asked'[j].status = "approved"
    BY <1>5
  <2>6. \A d \in Calls : W!At(d, "decide") =>
                (call'[d] = call[d] \/ asked'[call[d].request].status = "approved")
    BY <1>7
  <2>7. QED
    BY <1>1, <1>4, <1>6, <1>7, <2>1, <2>2, <2>3, <2>4, <2>5, <2>6, RequestsMarked
<1>9. AskersKnow' /\ OneEach'
  <2>1. \A d \in Calls : call'[d] \in {call[d], W!Idle}
    BY <1>7
  <2>2. \A j \in DOMAIN asked : asked'[j].employee = asked[j].employee
    BY <1>5
  <2>3. QED
    BY <1>4, <1>6, <2>1, <2>2, AskersKept
<1>10. Serial'
  <2>1. SUFFICES ASSUME size.serial PROVE RequestsInTurn'
    BY <1>1, <1>8 DEF Serial
  <2>2. RequestsInTurn
    BY <2>1, StaffParts
  <2>3. \A j \in DOMAIN asked' : asked'[j].cooling => asked'[j].status = "rejected"
    BY <1>4, <1>5, <2>2 DEF RequestsInTurn
  <2>4. ASSUME NEW d \in Calls, In(d, Approving)' \/ W!At(d, "refuse")'
        PROVE  /\ call'[d].request \in DOMAIN asked' /\ ~asked'[call'[d].request].deleted
               /\ asked'[call'[d].request].status = "pending"
    <3>1. W!Pending(call[d].request)
      BY <1>7, <2>2, <2>4 DEF RequestsInTurn, In, W!At
    <3>2. QED
      BY <1>4, <1>5, <1>7, <3>1 DEF W!Pending
  <2>5. ASSUME NEW d \in Calls, W!At(d, "ask")', NEW j \in DOMAIN asked,
               asked'[j].email = call'[d].email, ~asked'[j].deleted
        PROVE  asked'[j].status # "pending" /\ ~asked'[j].cooling
    BY <1>5, <1>7, <2>2, <2>5 DEF RequestsInTurn, Settled, W!At
  <2>6. QED
    BY <1>4, <2>3, <2>4, <2>5 DEF RequestsInTurn, W!Pending, Settled
<1>11. W!OneAtATime'
  <2>1. SUFFICES ASSUME size.serial, NEW k \in DOMAIN asked, NEW j \in 1..(k - 1),
                        asked'[j].email = asked'[k].email, ~asked'[k].deleted, ~asked'[j].deleted
                 PROVE  asked'[j].status # "pending" /\ ~asked'[j].cooling
    BY <1>1, <1>4 DEF W!OneAtATime
  <2>2. j \in DOMAIN asked
    BY StaffParts
  <2>3. asked[j].email = asked[k].email /\ ~asked[k].deleted /\ ~asked[j].deleted
    BY <1>5, <2>1, <2>2
  <2>4. asked[j].status # "pending" /\ ~asked[j].cooling
    BY <2>1, <2>3 DEF StaffSafe, W!OneAtATime
  <2>5. QED
    BY <1>5, <2>2, <2>4
<1>12. QED
  BY <1>8, <1>9, <1>10, <1>11 DEF StaffSafe

\* What is written down as approved was provisioned.
LEMMA DecideSafe ==
    ASSUME StaffSafe, NEW c \in Calls, W!Decide(c)
    PROVE  StaffSafe'
<1> DEFINE i == call[c].request
<1>1. /\ W!At(c, "decide") /\ ~W!At(c, "idle")
      /\ asked' = [asked EXCEPT ![i].status = "approved"]
      /\ call' = [call EXCEPT ![c] = W!Idle]
      /\ UNCHANGED <<employee, member, membership, size, torn, collided>>
  BY DEF W!Decide, W!Return, W!Logins, W!History, W!At
<1>2. i \in DOMAIN asked /\ asked[i] \in W!Request
  BY <1>1, StaffParts DEF DecidersKnow, In, Approving, W!At
<1>3. PICK r : r = [asked[i] EXCEPT !.status = "approved"]
  OBVIOUS
<1>4. /\ r \in W!Request /\ r.employee = asked[i].employee /\ r.email = asked[i].email
      /\ r.role = asked[i].role /\ r.deleted = asked[i].deleted
      /\ r.status = "approved" /\ r.cooling = asked[i].cooling
  BY <1>2, <1>3 DEF W!Request
<1>5. /\ asked' \in Seq(W!Request) /\ Len(asked') <= size.requests
      /\ DOMAIN asked' = DOMAIN asked
      /\ asked'[i] = r /\ \A j \in DOMAIN asked : j # i => asked'[j] = asked[j]
  <2>1. asked' = [asked EXCEPT ![i] = r]
    BY <1>1, <1>2, <1>3
  <2>2. QED
    BY <1>2, <1>4, <2>1, StaffParts, MarkOne
<1>6. \A j \in DOMAIN asked :
          /\ asked'[j].employee = asked[j].employee /\ asked'[j].email = asked[j].email
          /\ asked'[j].role = asked[j].role /\ asked'[j].deleted = asked[j].deleted
  BY <1>4, <1>5
<1>7. /\ employee' \in [Employees -> W!Row \cup {Null, Gone}]
      /\ \A x \in Employees : employee'[x] = employee[x] \/ employee'[x] = Gone
  BY <1>1 DEF StaffSafe, W!TypeOK
<1>8. /\ call' \in [Calls -> W!CallState] /\ call'[c] = W!Idle
      /\ \A d \in Calls : d # c => call'[d] = call[d]
  <2>1. W!Idle \in W!CallState
    BY StaffParts, IdleTyped
  <2>2. QED
    BY <1>1, <2>1, StaffParts
<1>9. size.serial => /\ W!Pending(i) /\ asked[i].status = "pending" /\ ~asked[i].deleted /\ asked[i].cooling = FALSE
                     /\ \A d \in Calls : call'[d].pc = "idle"
  <2>1. SUFFICES ASSUME size.serial
                 PROVE  /\ W!Pending(i) /\ asked[i].status = "pending" /\ ~asked[i].deleted
                        /\ asked[i].cooling = FALSE /\ \A d \in Calls : call'[d].pc = "idle"
    OBVIOUS
  <2>2. OneCall /\ RequestsInTurn
    BY <2>1, StaffParts
  <2>3. W!Pending(i)
    BY <1>1, <2>2 DEF RequestsInTurn, In, Approving, W!At
  <2>4. asked[i].status = "pending" /\ ~asked[i].deleted
    BY <2>3 DEF W!Pending
  <2>5. asked[i].cooling = FALSE
    BY <1>2, <2>2, <2>4 DEF RequestsInTurn, W!Request
  <2>6. \A d \in Calls : d # c => call[d].pc = "idle"
    BY <1>1, <2>2 DEF OneCall, W!At
  <2>7. \A d \in Calls : call'[d].pc = "idle"
    BY <1>8, <2>6, StaffParts, IdleTyped
  <2>8. QED
    BY <2>3, <2>4, <2>5, <2>7
<1>10. /\ W!TypeOK' /\ CreatorsKnow' /\ DecidersKnow' /\ RoomLeft'
       /\ size.serial => OneCall' /\ CodesNew'
       /\ W!ApprovedIsIn' /\ W!OnlyApprovedAreIn'
  <2>1. \A d \in Calls : call'[d] \in {call[d], W!Idle}
    BY <1>8
  <2>2. DOMAIN asked \subseteq DOMAIN asked'
    BY <1>5
  <2>3. \A j \in DOMAIN asked : /\ asked'[j].employee = asked[j].employee
                                /\ asked'[j].email = asked[j].email /\ asked'[j].role = asked[j].role
    BY <1>6
  <2>4. \A j \in DOMAIN asked' : asked'[j].status = "approved" =>
                (\/ j \in DOMAIN asked /\ asked[j].status = "approved"
                 \/ \E d \in Calls : W!At(d, "decide") /\ call[d].request = j)
    BY <1>1, <1>4, <1>5
  <2>5. size.serial => \A j \in DOMAIN asked :
                asked[j].status = "approved" => asked'[j].status = "approved"
    BY <1>4, <1>5, <1>9
  <2>6. \A d \in Calls : W!At(d, "decide") =>
                (call'[d] = call[d] \/ asked'[call[d].request].status = "approved")
    BY <1>1, <1>4, <1>5, <1>8 DEF W!At
  <2>7. QED
    BY <1>1, <1>5, <1>7, <1>8, <2>1, <2>2, <2>3, <2>4, <2>5, <2>6, RequestsMarked
<1>11. AskersKnow' /\ OneEach'
  <2>1. \A d \in Calls : call'[d] \in {call[d], W!Idle}
    BY <1>8
  <2>2. \A j \in DOMAIN asked : asked'[j].employee = asked[j].employee
    BY <1>6
  <2>3. QED
    BY <1>5, <1>7, <2>1, <2>2, AskersKept
<1>12. Serial'
  <2>1. SUFFICES ASSUME size.serial PROVE RequestsInTurn'
    BY <1>1, <1>10 DEF Serial
  <2>2. RequestsInTurn
    BY <2>1, StaffParts
  <2>3. \A j \in DOMAIN asked' : asked'[j].cooling => asked'[j].status = "rejected"
    BY <1>4, <1>5, <1>9, <2>1, <2>2 DEF RequestsInTurn
  <2>4. QED
    BY <1>9, <2>1, <2>3 DEF RequestsInTurn, In, Approving, W!At
<1>13. W!OneAtATime'
  <2>1. SUFFICES ASSUME size.serial, NEW k \in DOMAIN asked, NEW j \in 1..(k - 1),
                        asked'[j].email = asked'[k].email, ~asked'[k].deleted, ~asked'[j].deleted
                 PROVE  asked'[j].status # "pending" /\ ~asked'[j].cooling
    BY <1>1, <1>5 DEF W!OneAtATime
  <2>2. j \in DOMAIN asked
    BY StaffParts
  <2>3. asked[j].email = asked[k].email /\ ~asked[k].deleted /\ ~asked[j].deleted
    BY <1>6, <2>1, <2>2
  <2>4. asked[j].status # "pending" /\ ~asked[j].cooling
    BY <2>1, <2>3 DEF StaffSafe, W!OneAtATime
  <2>5. j # i
    BY <1>9, <2>1, <2>4
  <2>6. QED
    BY <1>5, <2>2, <2>4, <2>5
<1>14. QED
  BY <1>10, <1>11, <1>12, <1>13 DEF StaffSafe

\* A handler that is alone refuses what is pending, the last request of the person.
LEMMA RefuseSafe ==
    ASSUME StaffSafe, NEW c \in Calls, W!Refuse(c)
    PROVE  StaffSafe'
<1> DEFINE i == call[c].request
<1>1. /\ W!At(c, "refuse") /\ ~W!At(c, "idle")
      /\ asked' = [asked EXCEPT ![i].status = "rejected", ![i].cooling = TRUE]
      /\ call' = [call EXCEPT ![c] = W!Idle]
      /\ UNCHANGED <<employee, member, membership, size, torn, collided>>
  BY DEF W!Refuse, W!Return, W!Logins, W!History, W!At
<1>2. i \in DOMAIN asked /\ asked[i] \in W!Request
  BY <1>1, StaffParts DEF DecidersKnow, In, Approving, W!At
<1>3. PICK r : r = [asked[i] EXCEPT !.status = "rejected", !.cooling = TRUE]
  OBVIOUS
<1>4. /\ r \in W!Request /\ r.employee = asked[i].employee /\ r.email = asked[i].email
      /\ r.role = asked[i].role /\ r.deleted = asked[i].deleted
      /\ r.status = "rejected" /\ r.cooling = TRUE
  BY <1>2, <1>3 DEF W!Request
<1>5. /\ asked' \in Seq(W!Request) /\ Len(asked') <= size.requests
      /\ DOMAIN asked' = DOMAIN asked
      /\ asked'[i] = r /\ \A j \in DOMAIN asked : j # i => asked'[j] = asked[j]
  <2>1. asked' = [asked EXCEPT ![i] = r]
    BY <1>1, <1>2, <1>3
  <2>2. QED
    BY <1>2, <1>4, <2>1, StaffParts, MarkOne
<1>6. \A j \in DOMAIN asked :
          /\ asked'[j].employee = asked[j].employee /\ asked'[j].email = asked[j].email
          /\ asked'[j].role = asked[j].role /\ asked'[j].deleted = asked[j].deleted
  BY <1>4, <1>5
<1>7. /\ employee' \in [Employees -> W!Row \cup {Null, Gone}]
      /\ \A x \in Employees : employee'[x] = employee[x] \/ employee'[x] = Gone
  BY <1>1 DEF StaffSafe, W!TypeOK
<1>8. /\ call' \in [Calls -> W!CallState] /\ call'[c] = W!Idle
      /\ \A d \in Calls : d # c => call'[d] = call[d]
  <2>1. W!Idle \in W!CallState
    BY StaffParts, IdleTyped
  <2>2. QED
    BY <1>1, <2>1, StaffParts
<1>9. size.serial => /\ W!Pending(i) /\ asked[i].status = "pending" /\ ~asked[i].deleted /\ asked[i].cooling = FALSE
                     /\ \A d \in Calls : call'[d].pc = "idle"
  <2>1. SUFFICES ASSUME size.serial
                 PROVE  /\ W!Pending(i) /\ asked[i].status = "pending" /\ ~asked[i].deleted
                        /\ asked[i].cooling = FALSE /\ \A d \in Calls : call'[d].pc = "idle"
    OBVIOUS
  <2>2. OneCall /\ RequestsInTurn
    BY <2>1, StaffParts
  <2>3. W!Pending(i)
    BY <1>1, <2>2 DEF RequestsInTurn, In, Approving, W!At
  <2>4. asked[i].status = "pending" /\ ~asked[i].deleted
    BY <2>3 DEF W!Pending
  <2>5. asked[i].cooling = FALSE
    BY <1>2, <2>2, <2>4 DEF RequestsInTurn, W!Request
  <2>6. \A d \in Calls : d # c => call[d].pc = "idle"
    BY <1>1, <2>2 DEF OneCall, W!At
  <2>7. \A d \in Calls : call'[d].pc = "idle"
    BY <1>8, <2>6, StaffParts, IdleTyped
  <2>8. QED
    BY <2>3, <2>4, <2>5, <2>7
<1>10. /\ W!TypeOK' /\ CreatorsKnow' /\ DecidersKnow' /\ RoomLeft'
       /\ size.serial => OneCall' /\ CodesNew'
       /\ W!ApprovedIsIn' /\ W!OnlyApprovedAreIn'
  <2>1. \A d \in Calls : call'[d] \in {call[d], W!Idle}
    BY <1>8
  <2>2. DOMAIN asked \subseteq DOMAIN asked'
    BY <1>5
  <2>3. \A j \in DOMAIN asked : /\ asked'[j].employee = asked[j].employee
                                /\ asked'[j].email = asked[j].email /\ asked'[j].role = asked[j].role
    BY <1>6
  <2>4. \A j \in DOMAIN asked' : asked'[j].status = "approved" =>
                (\/ j \in DOMAIN asked /\ asked[j].status = "approved"
                 \/ \E d \in Calls : W!At(d, "decide") /\ call[d].request = j)
    BY <1>1, <1>4, <1>5
  <2>5. size.serial => \A j \in DOMAIN asked :
                asked[j].status = "approved" => asked'[j].status = "approved"
    BY <1>4, <1>5, <1>9
  <2>6. \A d \in Calls : W!At(d, "decide") =>
                (call'[d] = call[d] \/ asked'[call[d].request].status = "approved")
    BY <1>1, <1>4, <1>5, <1>8 DEF W!At
  <2>7. QED
    BY <1>1, <1>5, <1>7, <1>8, <2>1, <2>2, <2>3, <2>4, <2>5, <2>6, RequestsMarked
<1>11. AskersKnow' /\ OneEach'
  <2>1. \A d \in Calls : call'[d] \in {call[d], W!Idle}
    BY <1>8
  <2>2. \A j \in DOMAIN asked : asked'[j].employee = asked[j].employee
    BY <1>6
  <2>3. QED
    BY <1>5, <1>7, <2>1, <2>2, AskersKept
<1>12. Serial'
  <2>1. SUFFICES ASSUME size.serial PROVE RequestsInTurn'
    BY <1>1, <1>10 DEF Serial
  <2>2. RequestsInTurn
    BY <2>1, StaffParts
  <2>3. \A j \in DOMAIN asked' : asked'[j].cooling => asked'[j].status = "rejected"
    BY <1>4, <1>5, <1>9, <2>1, <2>2 DEF RequestsInTurn
  <2>4. QED
    BY <1>9, <2>1, <2>3 DEF RequestsInTurn, In, Approving, W!At
<1>13. W!OneAtATime'
  <2>1. SUFFICES ASSUME size.serial, NEW k \in DOMAIN asked, NEW j \in 1..(k - 1),
                        asked'[j].email = asked'[k].email, ~asked'[k].deleted, ~asked'[j].deleted
                 PROVE  asked'[j].status # "pending" /\ ~asked'[j].cooling
    BY <1>1, <1>5 DEF W!OneAtATime
  <2>2. j \in DOMAIN asked
    BY StaffParts
  <2>3. asked[j].email = asked[k].email /\ ~asked[k].deleted /\ ~asked[j].deleted
    BY <1>6, <2>1, <2>2
  <2>4. asked[j].status # "pending" /\ ~asked[j].cooling
    BY <2>1, <2>3 DEF StaffSafe, W!OneAtATime
  <2>5. j # i
    BY <1>9, <2>1, <2>4
  <2>6. QED
    BY <1>5, <2>2, <2>4, <2>5
<1>14. QED
  BY <1>10, <1>11, <1>12, <1>13 DEF StaffSafe

\* A request of an employee nobody else asks for, of a person who may ask.
LEMMA AskForSafe ==
    ASSUME StaffSafe, NEW c \in Calls, W!AskFor(c)
    PROVE  StaffSafe'
<1> DEFINE e == call[c].employee
           n == Len(asked)
<1>1. /\ W!At(c, "ask") /\ In(c, Asking) /\ ~W!At(c, "idle") /\ ~W!At(c, "decide")
      /\ Len(asked) < size.requests /\ W!Return(c) /\ call' = [call EXCEPT ![c] = W!Idle]
      /\ UNCHANGED <<employee, member, membership, size, torn, collided>>
  BY DEF W!AskFor, W!Return, W!Logins, W!History, W!At, In, Asking
<1>2. CASE e \notin W!Existing
  <2>1. asked' = asked
    BY <1>2 DEF W!AskFor
  <2>2. torn \subseteq torn' /\ torn' \subseteq People
    BY <1>1, StaffParts
  <2>3. QED
    BY <1>1, <2>1, <2>2, EndsSafe
<1>3. CASE e \in W!Existing
  <2>1. PICK r : r = [employee |-> e, email |-> call[c].email, role |-> call[c].role,
                      status |-> "pending", cooling |-> FALSE, deleted |-> FALSE]
    OBVIOUS
  <2>2. /\ e \in Employees /\ employee[e] # Null /\ call[c].email \in People /\ call[c].role \in W!Role
        /\ \A i \in DOMAIN asked : asked[i].employee # e
        /\ \A d \in Calls : In(d, Asking) /\ call[d].employee = e => c = d
    BY <1>1, StaffParts DEF AskersKnow
  <2>3. /\ r \in W!Request /\ r.employee = e /\ r.email = call[c].email
        /\ r.status = "pending" /\ r.cooling = FALSE
    BY <2>1, <2>2 DEF W!Request
  <2>4. asked' = Append(asked, r)
    BY <1>3, <2>1 DEF W!AskFor
  <2>5. /\ asked' \in Seq(W!Request) /\ Len(asked') = n + 1 /\ asked'[n + 1] = r
        /\ DOMAIN asked' = DOMAIN asked \cup {n + 1} /\ DOMAIN asked = 1..n /\ n \in Nat
        /\ \A i \in DOMAIN asked : asked'[i] = asked[i]
    <3>1. asked \in Seq(W!Request) /\ DOMAIN asked = 1..n /\ n \in Nat
      BY LenProperties DEF StaffSafe, W!TypeOK
    <3>2. /\ asked' \in Seq(W!Request) /\ Len(asked') = n + 1 /\ asked'[n + 1] = r
          /\ \A i \in 1..n : asked'[i] = asked[i]
      BY <2>3, <2>4, <3>1, AppendProperties
    <3>3. DOMAIN asked' = 1..(n + 1)
      BY <3>2, LenProperties
    <3>4. 1..(n + 1) = (1..n) \cup {n + 1}
      BY <3>1
    <3>5. QED
      BY <3>1, <3>2, <3>3, <3>4
  <2>6. Len(asked') <= size.requests
    BY <1>1, <2>5, StaffParts, SizesTyped
  <2>7. /\ employee' \in [Employees -> W!Row \cup {Null, Gone}]
        /\ \A x \in Employees : employee'[x] = employee[x] \/ employee'[x] = Gone
    BY <1>1 DEF StaffSafe, W!TypeOK
  <2>8. W!Idle \in W!CallState /\ W!Idle.pc = "idle"
    BY StaffParts, IdleTyped
  <2>9. /\ call' \in [Calls -> W!CallState] /\ call'[c] = W!Idle
        /\ \A d \in Calls : d # c => call'[d] = call[d]
    BY <1>1, <2>8, StaffParts
  <2>10. /\ W!TypeOK' /\ CreatorsKnow' /\ DecidersKnow' /\ RoomLeft'
         /\ size.serial => OneCall' /\ CodesNew'
         /\ W!ApprovedIsIn' /\ W!OnlyApprovedAreIn'
    <3>1. \A d \in Calls : call'[d] \in {call[d], W!Idle}
      BY <2>9
    <3>2. DOMAIN asked \subseteq DOMAIN asked'
      BY <2>5
    <3>3. \A j \in DOMAIN asked : /\ asked'[j].employee = asked[j].employee
                                  /\ asked'[j].email = asked[j].email /\ asked'[j].role = asked[j].role
      BY <2>5
    <3>4. \A j \in DOMAIN asked' : asked'[j].status = "approved" =>
                  (\/ j \in DOMAIN asked /\ asked[j].status = "approved"
                   \/ \E d \in Calls : W!At(d, "decide") /\ call[d].request = j)
      BY <2>3, <2>5
    <3>5. size.serial => \A j \in DOMAIN asked :
                  asked[j].status = "approved" => asked'[j].status = "approved"
      BY <2>5
    <3>6. \A d \in Calls : W!At(d, "decide") =>
                  (call'[d] = call[d] \/ asked'[call[d].request].status = "approved")
      BY <1>1, <2>9
    <3>7. QED
      BY <1>1, <2>5, <2>6, <2>7, <2>9, <3>1, <3>2, <3>3, <3>4, <3>5, <3>6, RequestsMarked
  <2>11. AskersKnow'
    <3>1. ASSUME NEW d \in Calls, In(d, Asking)'
          PROVE  call'[d] = call[d] /\ In(d, Asking) /\ d # c
      BY <2>8, <2>9, <3>1 DEF In, Asking
    <3>2. ASSUME NEW d \in Calls, In(d, Asking)' PROVE call[d].employee # e
      BY <2>2, <3>1, <3>2
    <3>3. ASSUME NEW d \in Calls, In(d, Asking)', NEW i \in DOMAIN asked'
          PROVE  asked'[i].employee # call[d].employee
      <4>1. CASE i = n + 1
        BY <2>3, <2>5, <3>2, <3>3, <4>1
      <4>2. CASE i \in DOMAIN asked
        BY <2>5, <3>1, <3>3, <4>2, StaffParts DEF AskersKnow
      <4>3. QED
        BY <2>5, <4>1, <4>2
    <3>4. QED
      BY <1>1, <3>1, <3>3, StaffParts DEF AskersKnow
  <2>12. OneEach'
    <3>1. \A i \in DOMAIN asked' : employee[asked'[i].employee] # Null
      BY <2>2, <2>3, <2>5, StaffParts DEF OneEach
    <3>2. \A i, j \in DOMAIN asked' : asked'[i].employee = asked'[j].employee => i = j
      BY <2>2, <2>3, <2>5, StaffParts DEF OneEach
    <3>3. QED
      BY <1>1, <3>1, <3>2 DEF OneEach
  <2>13. Serial'
    <3>1. SUFFICES ASSUME size.serial PROVE RequestsInTurn'
      BY <1>1, <2>10 DEF Serial
    <3>2. OneCall /\ RequestsInTurn
      BY <3>1, StaffParts
    <3>3. \A d \in Calls : call'[d].pc = "idle"
      BY <1>1, <2>8, <2>9, <3>2 DEF OneCall, W!At
    <3>4. \A j \in DOMAIN asked' : asked'[j].cooling => asked'[j].status = "rejected"
      BY <2>3, <2>5, <3>2 DEF RequestsInTurn
    <3>5. QED
      BY <3>3, <3>4 DEF RequestsInTurn, In, Approving, W!At
  <2>14. W!OneAtATime'
    <3>1. SUFFICES ASSUME size.serial, NEW k \in DOMAIN asked', NEW j \in 1..(k - 1),
                          asked'[j].email = asked'[k].email, ~asked'[k].deleted, ~asked'[j].deleted
                   PROVE  asked'[j].status # "pending" /\ ~asked'[j].cooling
      BY <1>1 DEF W!OneAtATime
    <3>2. j \in DOMAIN asked /\ asked'[j] = asked[j]
      BY <2>5
    <3>3. CASE k = n + 1
      <4>1. asked[j].email = call[c].email /\ ~asked[j].deleted
        BY <2>3, <2>5, <3>1, <3>2, <3>3
      <4>2. Settled(j)
        BY <1>1, <3>1, <3>2, <4>1, StaffParts DEF RequestsInTurn
      <4>3. QED
        BY <3>2, <4>2 DEF Settled
    <3>4. CASE k \in DOMAIN asked
      <4>1. asked'[k] = asked[k]
        BY <2>5, <3>4
      <4>2. asked[j].email = asked[k].email /\ ~asked[k].deleted /\ ~asked[j].deleted
        BY <3>1, <3>2, <4>1
      <4>3. asked[j].status # "pending" /\ ~asked[j].cooling
        BY <3>1, <3>4, <4>2 DEF StaffSafe, W!OneAtATime
      <4>4. QED
        BY <3>2, <4>3
    <3>5. QED
      BY <2>5, <3>3, <3>4
  <2>15. QED
    BY <2>10, <2>11, <2>12, <2>13, <2>14 DEF StaffSafe
<1>4. QED
  BY <1>2, <1>3

LEMMA StaffStep ==
    ASSUME StaffSafe, [W!Next]_(W!vars) PROVE StaffSafe'
<1>1. CASE UNCHANGED W!vars
  <2>1. UNCHANGED <<employee, member, membership, asked, call, size, torn, collided>>
    BY <1>1 DEF W!vars
  <2>2. /\ W!Existing' = W!Existing /\ W!Members' = W!Members /\ Left' = Left
        /\ Seated' = Seated /\ Others' = Others
    BY <2>1 DEF W!Existing, W!Members, Left, Seated, Others, In, W!At
  <2>3. W!TypeOK'
    BY <2>1, StaffParts DEF W!TypeOK, W!CallState, W!Row
  <2>4. CreatorsKnow' /\ AskersKnow' /\ OneEach'
    BY <2>1, StaffParts DEF CreatorsKnow, AskersKnow, OneEach, In, W!At
  <2>5. DecidersKnow'
    BY <2>1, <2>2, StaffParts DEF DecidersKnow, Linked, In, W!At
  <2>6. RoomLeft'
    BY <2>1, <2>2, StaffParts, RoomKept
  <2>7. Serial'
    BY <2>1, <2>2 DEF StaffSafe, Serial, OneCall, CodesNew, RequestsInTurn, W!Pending, Settled, In, W!At
  <2>8. W!OneAtATime' /\ W!ApprovedIsIn'
    BY <2>1, <2>2 DEF StaffSafe, W!OneAtATime, W!ApprovedIsIn
  <2>9. W!OnlyApprovedAreIn'
    BY <2>1, <2>2 DEF StaffSafe, W!OnlyApprovedAreIn, W!At
  <2>10. QED
    BY <2>3, <2>4, <2>5, <2>6, <2>7, <2>8, <2>9 DEF StaffSafe
<1>2. ASSUME NEW c \in Calls, NEW n \in 1..size.batch, NEW actor \in Askers, NEW p \in People \cup {Null},
             NEW role \in Wanted, W!Create(c, n, actor, p, role)
      PROVE  StaffSafe'
  BY <1>2, CreateRowsSafe
<1>3. ASSUME NEW c \in Calls, NEW given \in 0..size.given, W!TakeCode(c, given) PROVE StaffSafe'
  BY <1>3, TakeCodeSafe
<1>4. ASSUME NEW c \in Calls, NEW e \in Employees, W!Insert(c, e) PROVE StaffSafe'
  <2>1. CASE \E x \in W!Existing : employee[x].code = call[c].code
    <3>1. /\ W!At(c, "insert") /\ W!NextRow(c) /\ collided' = (collided \/ call[c].generated)
          /\ UNCHANGED <<employee, member, membership, asked, size, torn>>
      BY <1>4, <2>1 DEF W!Insert, W!Logins
    <3>2. QED
      BY <2>1, <3>1, TakenSafe
  <2>2. CASE ~ \E x \in W!Existing : employee[x].code = call[c].code
    BY <1>4, <2>2, InsertRowSafe
  <2>3. QED
    BY <2>1, <2>2
<1>5. ASSUME NEW c \in Calls, W!Raise(c) \/ W!AskFor(c) PROVE StaffSafe'
  BY <1>5, RaiseSafe, AskForSafe
<1>6. ASSUME NEW c \in Calls, NEW i \in 1..size.requests, W!Approve(c, i) \/ W!Reject(c, i) PROVE StaffSafe'
  BY <1>6, ApproveSafe, RejectSafe
<1>7. ASSUME NEW c \in Calls, W!CheckSeats(c) \/ W!Provision(c) PROVE StaffSafe'
  BY <1>7, CheckSeatsSafe, ProvisionSafe
<1>8. ASSUME NEW c \in Calls, W!Decide(c) \/ W!Refuse(c) PROVE StaffSafe'
  BY <1>8, DecideSafe, RefuseSafe
<1>9. ASSUME NEW c \in Calls, W!Crash(c) PROVE StaffSafe'
  BY <1>9, CrashSafe
<1>10. ASSUME NEW e \in Employees, W!Remove(e) PROVE StaffSafe'
  BY <1>10, RemoveSafe
<1>11. ASSUME NEW e \in Employees, NEW code \in 1..size.given, W!Update(e, code) PROVE StaffSafe'
  BY <1>11, UpdateSafe
<1>12. ASSUME NEW i \in 1..size.requests, W!CoolDown(i) PROVE StaffSafe'
  BY <1>12, CoolDownSafe
<1>13. QED
  BY <1>1, <1>2, <1>3, <1>4, <1>5, <1>6, <1>7, <1>8, <1>9, <1>10, <1>11, <1>12 DEF W!Next

\* What the invariant says of the caps and codes, in the words of the properties.
LEMMA CapsKept ==
    ASSUME StaffSafe
    PROVE  W!EmployeesWithinLimit /\ W!MembersWithinSeats /\ W!CodesAreFree
<1>1. /\ Cardinality(W!Existing) + Cardinality(Left) <= size.limit + Others * size.batch
      /\ Cardinality(W!Members) + Cardinality(Seated) <= size.seats + Others
  BY StaffParts DEF RoomLeft
<1>2. /\ Cardinality(W!Existing) <= size.limit + Others * size.batch
      /\ Cardinality(W!Members) <= size.seats + Others
  <2>1. \A a, b \in Nat, n \in Int : a + b <= n => a <= n
    OBVIOUS
  <2>2. size.limit + Others * size.batch \in Int /\ size.seats + Others \in Int
    BY StaffParts, SizesTyped
  <2>3. /\ Cardinality(W!Existing) \in Nat /\ Cardinality(Left) \in Nat
        /\ Cardinality(W!Members) \in Nat /\ Cardinality(Seated) \in Nat
    BY StaffParts, CountsFinite
  <2>4. QED
    BY <1>1, <2>1, <2>2, <2>3
<1>3. CASE size.serial
  <2>1. Others = 0 /\ Others * size.batch = 0
    BY <1>3, StaffParts, SizesTyped DEF Others
  <2>2. QED
    BY <1>2, <1>3, <2>1, StaffParts, StaffConstants
       DEF W!EmployeesWithinLimit, W!MembersWithinSeats, W!CodesAreFree, CodesNew
<1>4. CASE ~size.serial
  <2>1. Others = Cardinality(Calls) - 1
    BY <1>4 DEF Others
  <2>2. QED
    BY <1>2, <1>4, <2>1, StaffConstants
       DEF W!EmployeesWithinLimit, W!MembersWithinSeats, W!CodesAreFree
<1>5. QED
  BY <1>3, <1>4

-----------------------------------------------------------------------------
(* Staff, as it is composed *)

StaffHolds ==
    /\ scene \in {"workforce", "records", "recruiting", "onboarding"}
    /\ scene = "workforce" => StaffSafe
    /\ scene = "records" => RecordsSafe
    /\ scene = "recruiting" => HiringSafe
    /\ scene = "onboarding" => ListsSafe

LEMMA StaffHoldsFirst == StaffInit => StaffHolds
<1> SUFFICES ASSUME StaffInit PROVE StaffHolds
  OBVIOUS
<1>1. scene = "workforce" => StaffSafe
  BY StaffBegins
<1>2. scene = "records" => RecordsSafe
  BY StaffAssumption, RecordsInit DEF StaffInit
<1>3. scene = "recruiting" => HiringSafe
  BY StaffAssumption, HiringInit DEF StaffInit
<1>4. scene = "onboarding" => ListsSafe
  BY StaffAssumption, ListsInit DEF StaffInit, ListsAssumption
<1>5. QED
  BY <1>1, <1>2, <1>3, <1>4 DEF StaffInit, StaffHolds

\* Each step is one of the part that runs.
LEMMA StaffSteps ==
    ASSUME [StaffNext]_staff
    PROVE  /\ scene' = scene
           /\ scene = "workforce" => [W!Next]_(W!vars)
           /\ scene = "records" => [R!Next]_(R!vars)
           /\ scene = "recruiting" => [Hiring!Next]_(Hiring!vars)
           /\ scene = "onboarding" => [Lists!Next]_(Lists!vars)
<1>1. CASE UNCHANGED staff
  BY <1>1 DEF staff, workforce, records, recruiting, onboarding,
     W!vars, R!vars, Hiring!vars, Lists!vars
<1>2. CASE StaffNext
  BY <1>2 DEF StaffNext
<1>3. QED
  BY <1>1, <1>2

LEMMA StaffHoldsNext == StaffHolds /\ [StaffNext]_staff => StaffHolds'
<1> SUFFICES ASSUME StaffHolds, [StaffNext]_staff PROVE StaffHolds'
  OBVIOUS
<1>1. scene' = scene
  BY StaffSteps
<1>2. scene = "workforce" => StaffSafe'
  BY StaffSteps, StaffStep DEF StaffHolds
<1>3. scene = "records" => RecordsSafe'
  BY StaffSteps, StaffAssumption, RecordsStep DEF StaffHolds
<1>4. scene = "recruiting" => HiringSafe'
  BY StaffSteps, StaffAssumption, HiringStep DEF StaffHolds
<1>5. scene = "onboarding" => ListsSafe'
  BY StaffSteps, StaffAssumption, ListsStep DEF StaffHolds, ListsAssumption
<1>6. QED
  BY <1>1, <1>2, <1>3, <1>4, <1>5 DEF StaffHolds

\* The types of what is kept of applicants, of employees, their logins, requests and
\* tasks, of a contract and accounts, for any number of each.
THEOREM StaffTyped == StaffSpec => []StaffTypes
<1>1. StaffHolds => StaffTypes
  BY DEF StaffHolds, StaffTypes, StaffSafe, RecordsSafe, HiringSafe, ListsSafe
<1>2. QED
  BY StaffHoldsFirst, StaffHoldsNext, <1>1, PTL DEF StaffSpec

\* For any number of handlers that create, renumber, delete and approve at once, and
\* whatever dies: the caps on employees and seats (assertCanAdd, assertCanActivate) are
\* kept by handlers that run one at a time and exceeded, at once, by no more than each but
\* one of them adds; alone, none generates a code that somebody has (nextEmployeeCode).
THEOREM CapsCorrect == StaffSpec => []WithinCaps
<1>1. StaffHolds => WithinCaps
  BY CapsKept DEF StaffHolds, WithinCaps
<1>2. QED
  BY StaffHoldsFirst, StaffHoldsNext, <1>1, PTL DEF StaffSpec

\* Alone, a request follows another of the same person once that is approved, or refused
\* and cooled down (raiseForEmployee), and who is in was approved; however handlers overlap
\* and die, who was written down as approved is in and linked (approve).
THEOREM RequestsCorrect == StaffSpec => []RequestsDecide
<1>1. StaffHolds => RequestsDecide
  BY DEF StaffHolds, RequestsDecide, StaffSafe
<1>2. QED
  BY StaffHoldsFirst, StaffHoldsNext, <1>1, PTL DEF StaffSpec

\* However handlers overlap: a contract that is deleted was cancelled (deleteContract), and
\* of the accounts no more than one for each handler is primary, alone one
\* (createBankAccount).
THEOREM RecordsCorrect == StaffSpec => []RecordsHold
<1>1. StaffHolds => RecordsHold
  BY RecordsKept, StaffConstants DEF StaffHolds, RecordsHold
<1>2. QED
  BY StaffHoldsFirst, StaffHoldsNext, <1>1, PTL DEF StaffSpec

\* For any number of handlers, jobs, candidates and members of HR: alone, a slug the loop
\* ends at is free (uniqueJobSlug); whatever overlaps or fails, who was thanked is known to
\* all of HR (publicApply) and a score is of the parse beside it (scoreCandidate).
THEOREM HiringCorrect == StaffSpec => []HiringHolds
<1>1. StaffHolds => HiringHolds
  BY DEF StaffHolds, HiringHolds, HiringSafe
<1>2. QED
  BY StaffHoldsFirst, StaffHoldsNext, <1>1, PTL DEF StaffSpec

\* For any number of handlers, employees and tasks, whatever overlaps, is deleted meanwhile
\* or fails: what an assignment promised is there (assign), alone with onlyMissing nothing
\* twice but for who was named twice, and a drop is applied whole (reorderTasks).
THEOREM ChecklistsCorrect == StaffSpec => []ChecklistsHold
<1>1. StaffHolds => ChecklistsHold
  BY DEF StaffHolds, ChecklistsHold, ListsSafe
<1>2. QED
  BY StaffHoldsFirst, StaffHoldsNext, <1>1, PTL DEF StaffSpec

\* Where handlers do not overlap, a cancelled contract keeps its end and who cancelled it
\* (extendContract, cancelContract), and what was parsed of a resume stays
\* (scoreCandidate).
THEOREM StaysInTurn == StaffSpec => KeptInTurn
<1>1. ASSUME StaffHolds, [StaffNext]_staff
      PROVE  (scene = "records" => R!KeepsCancelled) /\ (scene = "recruiting" => Hiring!KeepsParsed)
  <2>1. scene = "records" => R!KeepsCancelled
    BY <1>1, StaffSteps, StaffAssumption, CancelledStays DEF StaffHolds
  <2>2. scene = "recruiting" => Hiring!KeepsParsed
    BY <1>1, StaffSteps, ParsedStays DEF StaffHolds
  <2>3. QED
    BY <2>1, <2>2
<1>2. QED
  BY StaffHoldsFirst, StaffHoldsNext, <1>1, PTL DEF StaffSpec, KeptInTurn

-----------------------------------------------------------------------------
(* Inbox, as it is composed *)

InboxHolds ==
    /\ side = "mail" => MailSafe
    /\ side = "messaging" => TalkSafe /\ TalkTimes /\ DmBound

LEMMA InboxAssumes == L!MailAssumption /\ MessagesAssumption
  BY InboxAssumption DEF MessagesAssumption

LEMMA InboxHoldsFirst == InboxInit => InboxHolds
<1>1. InboxInit /\ side = "mail" => MailSafe
  BY InboxAssumes, MailInit DEF InboxInit
<1>2. InboxInit /\ side = "messaging" => TalkSafe /\ TalkTimes /\ DmBound
  BY InboxAssumes, TalkInit, TimesInit, DmInit DEF InboxInit
<1>3. QED
  BY <1>1, <1>2 DEF InboxHolds

LEMMA InboxHoldsNext == InboxHolds /\ [InboxNext]_inboxes => InboxHolds'
<1> SUFFICES ASSUME InboxHolds, [InboxNext]_inboxes PROVE InboxHolds'
  OBVIOUS
<1>1. side' = side
  BY DEF InboxNext, inboxes
<1>2. side = "mail" => [L!Next]_(L!vars)
  BY DEF InboxNext, inboxes, mail, L!vars
<1>3. side = "messaging" => [G!Next]_(G!vars)
  BY DEF InboxNext, inboxes, messaging, G!vars
<1>4. side = "mail" => MailSafe'
  BY <1>2, InboxAssumes, MailStep DEF InboxHolds
<1>5. side = "messaging" => TalkSafe' /\ TalkTimes' /\ DmBound'
  BY <1>3, InboxAssumes, TalkStepSafe, TimesStep, DmStep DEF InboxHolds
<1>6. QED
  BY <1>1, <1>4, <1>5 DEF InboxHolds

\* The types of the conversations, messages, notifications, e-mails and queues, for any
\* number of each.
THEOREM InboxTyped == InboxSpec => []InboxTypes
<1>1. InboxHolds => InboxTypes
  BY DEF InboxHolds, InboxTypes, MailSafe, TalkSafe
<1>2. QED
  BY InboxHoldsFirst, InboxHoldsNext, <1>1, PTL DEF InboxSpec

\* For any number of handlers that send, of e-mails and of attempts: an e-mail is recorded
\* as sent only if the provider took it.  One that was tried once the provider has at most
\* once, and it is recorded as failed only if it did not, or if its answer was lost
\* (deliver of the e-mail service, send of the mailer).
THEOREM MailTellsTheTruth == InboxSpec => []StatusIsTrue
<1>1. InboxHolds => StatusIsTrue
  BY DEF InboxHolds, StatusIsTrue, MailSafe
<1>2. QED
  BY InboxHoldsFirst, InboxHoldsNext, <1>1, PTL DEF InboxSpec

\* Whoever was in a conversation when a message was written is told of it, and nobody
\* else is; handlers in turn count no message as unread that is of an earlier millisecond than
\* one's own (what unreadCount makes of the marker); and there are no more direct messages of two people than handlers, as long as findDmBetween
\* looks at all of them (MessagingService.createConversation, sendMessage, markRead).
THEOREM MessagesCorrect == InboxSpec => []ConversationsHold
<1>1. TalkSafe /\ TalkTimes /\ DmBound =>
                             /\ G!OneDm /\ G!EveryoneIsTold
                             /\ G!OnlyMembersAreTold /\ G!UnreadIsNewer
  <2>1. TalkSafe => G!EveryoneIsTold /\ G!OnlyMembersAreTold
    BY DEF TalkSafe
  <2>2. QED
    BY <2>1, InboxAssumes, TalkUnread, DmFound
<1>2. InboxHolds => ConversationsHold
  BY <1>1 DEF InboxHolds, ConversationsHold
<1>3. QED
  BY InboxHoldsFirst, InboxHoldsNext, <1>2, PTL DEF InboxSpec
=============================================================================
