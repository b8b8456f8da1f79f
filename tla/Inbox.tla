------------------------------- MODULE Inbox -------------------------------
(***************************************************************************)
(* Messaging and Mail, what people write and are told.  They share         *)
(* nothing: in each behaviour one of them runs, and the other is not       *)
(* there.                                                                  *)
(***************************************************************************)
EXTENDS Naturals, Sequences, FiniteSets

CONSTANTS
    None,                                                           \* of both
    Talkers, Users, MaxConversations, MaxMessages, CountLimits, Worlds,     \* Messaging
    Senders, Readers, MaxNotes, MaxEmails, Sizes, Attempts          \* Mail

VARIABLES
    side,                                                           \* never changes
    conversation, message, marker, heard, chat, world, due, back,   \* Messaging
    pref, note, email, post, worker, inbox, mailed, sending, bound, lost, again, unheard    \* Mail

messaging == <<conversation, message, marker, heard, chat, world, due, back>>
mail == <<pref, note, email, post, worker, inbox, mailed, sending, bound, lost, again, unheard>>
inboxes == <<side, messaging, mail>>

G == INSTANCE Messaging WITH Calls <- Talkers, Null <- None, told <- heard, call <- chat

L == INSTANCE Mail WITH
        Calls <- Senders, Users <- Readers, Null <- None,
        job <- post, call <- sending, size <- bound

ASSUME InboxAssumption ==
    G!MessagingAssumption /\ L!MailAssumption /\ IsFiniteSet(Talkers)

NoMessaging ==
    /\ conversation = None /\ message = None /\ marker = None /\ heard = None
    /\ chat = None /\ world = None /\ due = None /\ back = None
NoMail ==
    /\ pref = None /\ note = None /\ email = None /\ post = None /\ worker = None /\ inbox = None
    /\ mailed = None /\ sending = None /\ bound = None /\ lost = None /\ again = None
    /\ unheard = None

InboxInit ==
    \/ side = "messaging" /\ G!Init /\ NoMail
    \/ side = "mail" /\ L!Init /\ NoMessaging

InboxNext ==
    \/ side = "messaging" /\ G!Next /\ UNCHANGED <<side, mail>>
    \/ side = "mail" /\ L!Next /\ UNCHANGED <<side, messaging>>

InboxSpec == InboxInit /\ [][InboxNext]_inboxes

\* What is kept is of its type.
InboxTypes == (side = "messaging" => G!TypeOK) /\ (side = "mail" => L!TypeOK)

\* Two people have one direct message.  Of a message, everyone in the conversation is
\* told but its sender, nobody else is, and it is unread by those who have not read it.
ConversationsHold ==
    side = "messaging" => G!OneDm /\ G!EveryoneIsTold /\ G!OnlyMembersAreTold /\ G!UnreadIsNewer

\* What is recorded of an e-mail is what became of it.
StatusIsTrue == side = "mail" => L!StatusIsTrue
=============================================================================
