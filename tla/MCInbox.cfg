SPECIFICATION FairSpec
CONSTANTS
    None = None
    u1 = u1
    u2 = u2
    u3 = u3
    c1 = c1
    c2 = c2
    Talkers = {c1, c2}
    Users = {u1, u2, u3}
    MaxConversations = 3
    MaxMessages = 2
    CountLimits = {1, 1000}
    Worlds <- MCWorlds
    Senders = {c1}
    Readers = {u1, u2}
    MaxNotes = 2
    MaxEmails = 2
    Sizes <- MCSizes
    Attempts = 3
INVARIANTS
    InboxTypes
    ConversationsHold
    StatusIsTrue
PROPERTIES
    QueuedIsDecided
