------------------------------ MODULE MCInbox ------------------------------
(* An instance of Inbox for TLC, with the fairness of the mail worker. *)
EXTENDS Inbox, TLC

CONSTANTS u1, u2, u3, c1, c2

World(limit, calls, users, conversations, messages) ==
    [limit |-> limit, calls |-> calls, users |-> users,
     conversations |-> conversations, messages |-> messages]
MCWorlds ==
    {World(500, {c1}, {u1, u2, u3}, 3, 0), World(500, {c1, c2}, {u1, u2}, 3, 0),
     World(1, {c1}, {u1, u2}, 3, 0), World(500, {c1}, {u1, u2, u3}, 1, 1),
     World(500, {c1, c2}, {u1, u2}, 1, 2), World(500, {c1}, {u1, u2}, 1, 2),
     World(500, {c1}, {u1, u2}, 2, 1)}

MCSizes == {[notes |-> 2, emails |-> 0], [notes |-> 1, emails |-> 1], [notes |-> 0, emails |-> 2]}

\* When messages were sent matters only to what is counted as unread, and that only where
\* handlers do not overlap.
Within ==
    side = "messaging" /\ G!Overlap => \A m \in DOMAIN message : message[m].ms = 1 /\ message[m].past

MCNext == InboxNext /\ Within'

Mailing == side = "mail" /\ UNCHANGED <<side, messaging>>
WorkOnEmail == Mailing /\ L!WorkOnEmail
Enqueue(c) == Mailing /\ L!Enqueue(c)
FairSpec ==
    /\ InboxInit /\ [][MCNext]_inboxes
    /\ WF_inboxes(WorkOnEmail)
    /\ \A c \in Senders : WF_inboxes(Enqueue(c))

\* QueuedIsDecided of Mail.
Queued(i) == side = "mail" /\ i \in DOMAIN email
QueuedIsDecided == \A i \in 1..2 : Queued(i) ~> Queued(i) /\ L!Decided(i)
=============================================================================
