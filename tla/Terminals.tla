------------------------------ MODULE Terminals ------------------------------
(***************************************************************************)
(* Store terminals and their rotating QR code: DevicesService over         *)
(* DevicesRepository.  A terminal shows a code good for Ttl ticks; the     *)
(* kiosk asks for the current one and the service makes a new secret when  *)
(* the old one is stale.  Every operation reads the terminal in one        *)
(* transaction and writes it in another.  A call that dies between the two *)
(* is one that never takes its second step.                                *)
(***************************************************************************)
EXTENDS Naturals, FiniteSets

CONSTANTS
    Calls,           \* HTTP calls, each served at most once
    Terminals, Stores,
    Null,
    Ttl,             \* terminal.qrTtlSeconds
    MaxTime,         \* bound on the clock
    Ops,             \* the operations clients call
    Serialized       \* the stores about which calls come one at a time

Time == 0..MaxTime
Op == {"create", "authorize", "block", "deactivate", "reactivate", "delete", "getQr"}

TerminalsAssumption ==
    /\ Ttl \in Nat /\ MaxTime \in Nat
    /\ Null \notin Calls /\ Null \notin Terminals /\ Null \notin Stores
    /\ Ops \subseteq Op /\ Serialized \subseteq Stores

VARIABLES
    now,             \* the server's clock
    terminal,        \* terminals
    call,            \* the locals of each HTTP call
    burned           \* history: secrets shown before an administrator's operation
                     \* on their terminal

vars == <<now, terminal, call, burned>>

-----------------------------------------------------------------------------
(* Types *)

\* newSecret never repeats: a secret is named after the call that made it.
Secret == Calls
TerminalStatus == {"none", "pending", "active", "inactive", "blocked", "gone"}
TerminalRow == [status : TerminalStatus, store : Stores \cup {Null},
                secret : Secret \cup {Null}, rotatedAt : Time]
Payload == [terminal : Terminals, secret : Secret \cup {Null}, rotatedAt : Time]

Pc == {"idle", "find", "insert", "read", "write", "done"}
CallState == [pc : Pc, op : Op \cup {"none"}, store : Stores \cup {Null},
              target : Terminals \cup {Null},
              qr : Payload \cup {Null}]     \* what getQr answered

TypeOK ==
    /\ now \in Time
    /\ terminal \in [Terminals -> TerminalRow]
    /\ call \in [Calls -> CallState]
    /\ burned \subseteq Secret

NoTerminal == [status |-> "none", store |-> Null, secret |-> Null, rotatedAt |-> 0]
Fresh == [pc |-> "idle", op |-> "none", store |-> Null, target |-> Null, qr |-> Null]

Init ==
    /\ now = 0
    /\ terminal = [t \in Terminals |-> NoTerminal]
    /\ call = [c \in Calls |-> Fresh]
    /\ burned = {}

-----------------------------------------------------------------------------

Exists(t) == terminal[t].status \notin {"none", "gone"}
AtStore(s) == {t \in Terminals : Exists(t) /\ terminal[t].store = s}

\* The unique index on store_id.
IndexAdmits(s) == AtStore(s) = {}

\* getQr makes a new secret when there is none or it has outlived Ttl.
Stale(row) == row.secret = Null \/ now - row.rotatedAt > Ttl

\* validateQrToken: the terminal is active, the secret its current one, and
\* the rotation at most Ttl ago.
Accepts(t, secret) ==
    /\ terminal[t].status = "active"
    /\ secret # Null /\ terminal[t].secret = secret
    /\ now - terminal[t].rotatedAt <= Ttl

Running(c) == call[c].pc \notin {"idle", "done"}
Goto(c, at) == call' = [call EXCEPT ![c].pc = at]
Finish(c) == Goto(c, "done")

Begin(c, op, s, t) ==
    /\ call[c].pc = "idle" /\ op \in Ops
    /\ IF op = "create" THEN t = Null ELSE t \in Terminals /\ terminal[t].store = s
    /\ s \in Serialized => \A d \in Calls : Running(d) => call[d].store # s
    /\ call' = [call EXCEPT ![c] = [pc |-> IF op = "create" THEN "find" ELSE "read",
                                    op |-> op, store |-> s, target |-> t, qr |-> Null]]
    /\ UNCHANGED <<now, terminal, burned>>

-----------------------------------------------------------------------------
(* createTerminal: none at the store, insert *)

FindByStore(c) ==
    /\ call[c].pc = "find"
    /\ IF AtStore(call[c].store) # {} THEN Finish(c) ELSE Goto(c, "insert")
    /\ UNCHANGED <<now, terminal, burned>>

InsertTerminal(c, t) ==
    /\ call[c].pc = "insert"
    /\ terminal[t].status = "none"
    /\ terminal' = IF IndexAdmits(call[c].store)
                   THEN [terminal EXCEPT ![t] = [NoTerminal EXCEPT !.status = "pending",
                                                                   !.store = call[c].store]]
                   ELSE terminal
    /\ Finish(c)
    /\ UNCHANGED <<now, burned>>

-----------------------------------------------------------------------------
(* The operations on a terminal: read and check, then write *)

\* getQr answers with the row it read unless it must rotate first.
Shown(t, row) == [terminal |-> t, secret |-> row.secret, rotatedAt |-> row.rotatedAt]

ReadTerminal(c) ==
    LET t == call[c].target
        row == terminal[t]
    IN  /\ call[c].pc = "read"
        /\ CASE \/ ~Exists(t)
                \/ call[c].op = "reactivate" /\ row.status # "inactive"
                \/ call[c].op = "getQr" /\ row.status # "active" -> Finish(c)
             [] call[c].op = "getQr" /\ row.status = "active" /\ ~Stale(row) ->
                    call' = [call EXCEPT ![c].pc = "done", ![c].qr = Shown(t, row)]
             [] OTHER -> Goto(c, "write")
        /\ UNCHANGED <<now, terminal, burned>>

\* (mutant of Written: freezing and thawing only change the status)
WrittenStatusOnly(c, row) ==
    LET op == call[c].op
    IN  CASE op = "authorize"  -> [row EXCEPT !.status = "active", !.secret = c, !.rotatedAt = now]
          [] op = "reactivate" -> [row EXCEPT !.status = "active"]
          [] op = "block"      -> [row EXCEPT !.status = "blocked"]
          [] op = "deactivate" -> [row EXCEPT !.status = "inactive"]
          [] op = "delete"     -> [row EXCEPT !.status = "gone"]
          [] op = "getQr"      -> [row EXCEPT !.secret = c, !.rotatedAt = now]

\* What each operation makes of the row; only the columns it sets change.
Written(c, row) ==
    LET op == call[c].op
    IN  CASE op \in {"authorize", "reactivate"} ->
                [row EXCEPT !.status = "active", !.secret = c, !.rotatedAt = now]
          [] op = "block"      -> [row EXCEPT !.status = "blocked", !.secret = Null]
          [] op = "deactivate" -> [row EXCEPT !.status = "inactive", !.secret = Null]
          [] op = "delete"     -> [row EXCEPT !.status = "gone", !.secret = Null]
          [] op = "getQr"      -> [row EXCEPT !.secret = c, !.rotatedAt = now]

ShownSecrets(t) ==
    {call[d].qr.secret : d \in {x \in Calls : call[x].qr # Null /\ call[x].qr.terminal = t}}

\* A write to a terminal deleted since changes no row, and getQr then fails.
WriteTerminal(c) ==
    LET t == call[c].target
        row == Written(c, terminal[t])
    IN  /\ call[c].pc = "write"
        /\ IF Exists(t)
           THEN /\ terminal' = [terminal EXCEPT ![t] = row]
                /\ call' = [call EXCEPT ![c].pc = "done",
                               ![c].qr = IF call[c].op = "getQr" THEN Shown(t, row) ELSE Null]
                /\ burned' = IF call[c].op = "getQr" THEN burned ELSE burned \cup ShownSecrets(t)
           ELSE Finish(c) /\ UNCHANGED <<terminal, burned>>
        /\ UNCHANGED now

Tick == /\ now < MaxTime
        /\ now' = now + 1
        /\ UNCHANGED <<terminal, call, burned>>

Next ==
    \/ \E c \in Calls :
          \/ \E op \in Op, s \in Stores, t \in Terminals \cup {Null} : Begin(c, op, s, t)
          \/ FindByStore(c)
          \/ \E t \in Terminals : InsertTerminal(c, t)
          \/ ReadTerminal(c)
          \/ WriteTerminal(c)
    \/ Tick

Spec == Init /\ [][Next]_vars

-----------------------------------------------------------------------------
(* Properties *)

\* However creations and deletions overlap, a store has at most one terminal:
\* "One terminal per store" (schema/terminals.ts:36).
OnePerStore == \A s \in Stores : Cardinality(AtStore(s)) <= 1

\* A code shown before a terminal was authorized anew, blocked, deactivated,
\* reactivated or deleted is never accepted again, whatever kiosk request was
\* rotating its secret at that time.
OldCodesDie == \A t \in Terminals, secret \in burned : ~Accepts(t, secret)

\* "Seconds a terminal QR stays valid before the secret rotates."
\* (devices.service.ts:23): where calls come one at a time a code is good from
\* the moment it is shown until it expires, unless an administrator's operation
\* comes between; rotation and validation agree about the very instant.
QrValidInTurn ==
    \A c \in Calls :
        LET qr == call[c].qr
        IN  /\ qr # Null /\ call[c].store \in Serialized /\ qr.secret \notin burned
            /\ now <= qr.rotatedAt + Ttl
            => Accepts(qr.terminal, qr.secret)

\* One terminal for a store; a code is good for its time where calls come one at a
\* time, and never again once an administrator has intervened.
TerminalsHold == TypeOK /\ OnePerStore /\ OldCodesDie /\ QrValidInTurn
=============================================================================
