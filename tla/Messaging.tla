----------------------------- MODULE Messaging -----------------------------
(***************************************************************************)
(* MessagingService: conversations of one company, their messages, what    *)
(* each member has read, and the notification that a message leaves with   *)
(* the others.  Each step of a handler is a transaction of its own.  Rows  *)
(* are numbered in the order of created_at, and so are the milliseconds    *)
(* that messages fall into; nobody leaves a conversation.                  *)
(***************************************************************************)
EXTENDS Naturals, Sequences, FiniteSets, FiniteSetsExt

CONSTANTS
    Calls,           \* handlers that run at a time
    Users,
    Null,
    MaxConversations, MaxMessages,   \* bounds on the rows
    CountLimits,     \* at how many rows a count of messages may be cut (1000 in the code)
    Worlds           \* what an instance fixes: see world

MessagingAssumption ==
    /\ {MaxConversations, MaxMessages} \subseteq Nat /\ CountLimits \subseteq Nat
    /\ Worlds \subseteq [limit : Nat \ {0}, calls : SUBSET Calls, users : SUBSET Users,
                        conversations : 0..MaxConversations, messages : 0..MaxMessages]
    /\ Null \notin Users

VARIABLES
    conversation,    \* conversations with conversation_members
    message,         \* messages
    marker,          \* reads
    told,            \* notifications: the messages that each user is told of
    call,            \* the locals of each handler
    world,           \* never changes: how many direct messages findDmBetween looks
                     \* at (500), who there is, which handlers run, bounds on the rows
    due,             \* history: the members when a message was written
    back             \* history: who has gone back to an older message, in which conversations

vars == <<conversation, message, marker, told, call, world, due, back>>

-----------------------------------------------------------------------------
(* Types *)

Conversation == [kind : {"dm", "channel"}, members : SUBSET Users]

\* created_at: in which millisecond, and whether past its first microsecond.
Message == [in : 1..MaxConversations, sender : Users, ms : 1..MaxMessages, past : BOOLEAN]

\* The last message read of a conversation by a user, or 0.
Marker == [(1..MaxConversations) \X Users -> 0..MaxMessages]

CallState == [pc : {"idle", "create", "members", "read", "others", "emit"},
              user : Users \cup {Null}, in : 0..MaxConversations, message : 0..MaxMessages,
              people : SUBSET Users,      \* who is to be added, or to be told
              kind : {"dm", "channel"}]

TypeOK ==
    /\ conversation \in Seq(Conversation) /\ Len(conversation) <= MaxConversations
    /\ message \in Seq(Message) /\ Len(message) <= MaxMessages
    /\ marker \in Marker
    /\ told \in [Users -> SUBSET (1..MaxMessages)]
    /\ call \in [Calls -> CallState]
    /\ world \in Worlds
    /\ due \in Seq(SUBSET Users) /\ Len(due) = Len(message)
    /\ back \subseteq (1..MaxConversations) \X Users

Idle == [pc |-> "idle", user |-> Null, in |-> 0, message |-> 0, people |-> {}, kind |-> "dm"]

Init ==
    /\ conversation = <<>> /\ message = <<>>
    /\ marker = [ku \in (1..MaxConversations) \X Users |-> 0]
    /\ told = [u \in Users |-> {}]
    /\ call = [c \in Calls |-> Idle]
    /\ world \in Worlds
    /\ due = <<>> /\ back = {}

At(c, pc) == call[c].pc = pc
MayStart(c) == At(c, "idle") /\ c \in world.calls
Overlap == Cardinality(world.calls) > 1
Return(c) == call' = [call EXCEPT ![c] = Idle]
Rest == <<world, due, back>>

IsMember(k, u) == k \in DOMAIN conversation /\ u \in conversation[k].members

-----------------------------------------------------------------------------
(* createConversation *)

Dms == {k \in DOMAIN conversation : conversation[k].kind = "dm"}

\* (mutant of FoundDm: who asks is not counted)
FoundWithoutMe(k, u, v) == conversation[k].members = {v}

FoundDm(k, u, v) == conversation[k].members = {u, v}

\* A direct message with v, unless one is among the rows that are looked at.
\* Whoever else is named becomes a member too.
CreateDm(c, u, v, people) ==
    /\ MayStart(c) /\ u # v
    /\ \E rows \in kSubset(Min({world.limit, Cardinality(Dms)}), Dms) :
          \A k \in rows : ~FoundDm(k, u, v)
    /\ call' = [call EXCEPT ![c] = [Idle EXCEPT !.pc = "create", !.user = u, !.people = people \cup {u, v}]]
    /\ UNCHANGED <<conversation, message, marker, told, Rest>>

CreateChannel(c, u, people) ==
    /\ MayStart(c)
    /\ call' = [call EXCEPT ![c] = [Idle EXCEPT !.pc = "create", !.user = u, !.people = people \cup {u},
                                               !.kind = "channel"]]
    /\ UNCHANGED <<conversation, message, marker, told, Rest>>

InsertConversation(c) ==
    /\ At(c, "create") /\ Len(conversation) < world.conversations
    /\ conversation' = Append(conversation, [kind |-> call[c].kind, members |-> {}])
    /\ call' = [call EXCEPT ![c].pc = "members", ![c].in = Len(conversation) + 1]
    /\ UNCHANGED <<message, marker, told, Rest>>

InsertMembers(c) ==
    /\ At(c, "members")
    /\ conversation' = [conversation EXCEPT ![call[c].in].members = @ \cup call[c].people]
    /\ Return(c)
    /\ UNCHANGED <<message, marker, told, Rest>>

\* Who has asked is a member and stays one: the check and the write are one step here.
AddMembers(u, k, v) ==
    /\ IsMember(k, u)
    /\ conversation' = [conversation EXCEPT ![k].members = @ \cup {v}]
    /\ UNCHANGED <<message, marker, told, call, Rest>>

-----------------------------------------------------------------------------
(* sendMessage *)

CreateMessage(c, u, k, ms, past) ==
    /\ MayStart(c) /\ IsMember(k, u) /\ Len(message) < world.messages
    /\ \A m \in DOMAIN message :
          message[m].ms < ms \/ (message[m].ms = ms /\ (message[m].past => past))
    /\ message' = Append(message, [in |-> k, sender |-> u, ms |-> ms, past |-> past])
    /\ due' = Append(due, conversation[k].members)
    /\ call' = [call EXCEPT ![c] = [Idle EXCEPT !.pc = "read", !.user = u, !.in = k,
                                               !.message = Len(message) + 1]]
    /\ UNCHANGED <<conversation, marker, told, world, back>>

\* (mutant of UpsertRead: the message that comes next)
ReadNext(k, u, m) == [marker EXCEPT ![<<k, u>>] = m + 1]

\* (mutant of UpsertRead: only who has read something has a row)
UpdateRead(k, u, m) == IF marker[k, u] = 0 THEN marker ELSE [marker EXCEPT ![<<k, u>>] = m]

UpsertRead(k, u, m) == [marker EXCEPT ![<<k, u>>] = m]

\* "Sender has implicitly read their own latest message."
ReadOwn(c) ==
    /\ At(c, "read")
    /\ marker' = UpsertRead(call[c].in, call[c].user, call[c].message)
    /\ call' = [call EXCEPT ![c].pc = "others"]
    /\ UNCHANGED <<conversation, message, told, Rest>>

Others(k, u) == conversation[k].members \ {u}

MemberIds(c) ==
    LET others == Others(call[c].in, call[c].user)
    IN  /\ At(c, "others")
        /\ IF others = {} THEN Return(c)
                          ELSE call' = [call EXCEPT ![c].pc = "emit", ![c].people = others]
        /\ UNCHANGED <<conversation, message, marker, told, Rest>>

\* NotificationsService.emit: the row, then the job of its e-mail.
Emit(c, v) ==
    /\ At(c, "emit") /\ v \in call[c].people
    /\ told' = [told EXCEPT ![v] = @ \cup {call[c].message}]
    /\ IF call[c].people = {v} THEN Return(c) ELSE call' = [call EXCEPT ![c].people = @ \ {v}]
    /\ UNCHANGED <<conversation, message, marker, Rest>>

\* The queue cannot be reached: the row is there, and the handler fails.
EmitFails(c, v) ==
    /\ At(c, "emit") /\ v \in call[c].people
    /\ told' = [told EXCEPT ![v] = @ \cup {call[c].message}]
    /\ due' = [due EXCEPT ![call[c].message] = {}]
    /\ Return(c)
    /\ UNCHANGED <<conversation, message, marker, world, back>>

\* A handler dies, or the database fails it.
Crash(c) ==
    /\ ~At(c, "idle")
    /\ due' = IF call[c].message = 0 THEN due ELSE [due EXCEPT ![call[c].message] = {}]
    /\ back' = IF At(c, "read") THEN back \cup {<<call[c].in, call[c].user>>} ELSE back
    /\ Return(c)
    /\ UNCHANGED <<conversation, message, marker, told, world>>

-----------------------------------------------------------------------------
(* Reading *)

\* Whatever message the caller names, older ones included.
MarkRead(u, k, m) ==
    /\ IsMember(k, u) /\ m \in DOMAIN message
    /\ marker' = UpsertRead(k, u, m)
    /\ back' = IF m < marker[k, u] THEN back \cup {<<k, u>>} ELSE back
    /\ UNCHANGED <<conversation, message, told, call, world, due>>

\* The marker's created_at is read as a Date, which has no microseconds: what is past it
\* includes the message itself and others of its millisecond.
After(m, n) == n = 0 \/ message[m].ms > message[n].ms \/ (message[m].ms = message[n].ms /\ message[m].past)
Newer(k, u) == {m \in DOMAIN message : message[m].in = k /\ After(m, marker[k, u])}

\* What may be counted: of the rows that a query with a limit and no order lists, those
\* of somebody else.
Unread(k, u) ==
    {{m \in rows : message[m].sender # u} : rows \in
        {S \in SUBSET Newer(k, u) : \E n \in CountLimits :
            Cardinality(S) <= n /\ (S = Newer(k, u) \/ Cardinality(S) = n)}}

-----------------------------------------------------------------------------

Next ==
    \/ \E c \in world.calls :
          \/ \E u \in world.users :
                \/ \E v \in world.users, people \in SUBSET world.users : CreateDm(c, u, v, people)
                \/ \E people \in SUBSET world.users : CreateChannel(c, u, people)
                \/ \E k \in DOMAIN conversation, ms \in 1..(Len(message) + 1), past \in BOOLEAN :
                      CreateMessage(c, u, k, ms, past)
                \/ Emit(c, u)
                \/ EmitFails(c, u)
          \/ InsertConversation(c)
          \/ InsertMembers(c)
          \/ ReadOwn(c)
          \/ MemberIds(c)
          \/ Crash(c)
    \/ \E u \in world.users :
          \/ \E k \in DOMAIN conversation :
                \/ \E v \in world.users : AddMembers(u, k, v)
                \/ \E m \in DOMAIN message : MarkRead(u, k, m)

Spec == Init /\ [][Next]_vars

-----------------------------------------------------------------------------
(* Properties *)

\* "Existing 1:1 DM between exactly two users (avoids duplicate DMs)"
\* (messaging.repository.ts:53): as long as there are not more than are looked at,
\* handlers that do not overlap leave one for each two; each that does may add one.
OneDm ==
    Cardinality(Dms) <= world.limit => \A u, v \in Users : u # v =>
        Cardinality({k \in Dms : conversation[k].members = {u, v}})
            <= Cardinality(world.calls)

\* "new messages also emit an in-app notification to the other members"
\* (messaging.service.ts:18): whoever was a member when a message was written is
\* told of it, unless its handler failed half way or is still at it.
EveryoneIsTold ==
    \A m \in DOMAIN message : (\A c \in Calls : call[c].message # m) =>
        \A u \in due[m] \ {message[m].sender} : m \in told[u]

\* Nobody is told of a message of a conversation they are not in, or of their own.
OnlyMembersAreTold ==
    \A u \in Users : \A m \in told[u] :
        IsMember(message[m].in, u) /\ message[m].sender # u

\* "Count of messages in a conversation newer than the user's last-read marker"
\* (messaging.repository.ts:174): what is counted as unread is of the millisecond of what
\* one has written oneself, or newer, where handlers do not overlap, unless one has gone
\* back to an older message.
UnreadIsNewer ==
    ~Overlap => \A k \in DOMAIN conversation, u \in Users :
        <<k, u>> \in back \/ \A counted \in Unread(k, u) : \A m \in counted, own \in DOMAIN message :
            message[own].in = k /\ message[own].sender = u /\ message[own].ms > message[m].ms
                => \E c \in Calls : At(c, "read") /\ call[c].message = own
=============================================================================
