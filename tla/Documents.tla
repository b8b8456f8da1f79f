----------------------------- MODULE Documents -----------------------------
(***************************************************************************)
(* Documents, their trash and their signatures: DocumentsService over its  *)
(* repository and the private bucket.  A document is a row and an object;  *)
(* deleting it adds a trash entry and marks the row, restoring undoes      *)
(* both, and purging removes object, row and entry, each in a step of its  *)
(* own.  Removing and copying objects is best effort.  A call that has     *)
(* answered is free for the next request; one that dies is lost.           *)
(***************************************************************************)
EXTENDS Naturals, FiniteSets

CONSTANTS
    Calls,           \* HTTP calls and jobs in progress at a time
    Docs, Entries, Signatures,
    Null,
    Dues,            \* the days on which documents expire
    Window,          \* days ahead that the expiry scan looks
    Keep,            \* TRASH_PURGE_DAYS
    MaxDay,          \* bound on the calendar
    ListLimits,      \* at how many rows a job's list may be cut (1000 in the code)
    FromList,        \* do clients delete only what the lists show as live?
    Mortal,          \* the operations that may die between two steps
    Exclusive        \* do calls come one at a time?

Day == 0..MaxDay
Op == {"delete", "restore", "purge", "purgeTrash", "scan", "request", "sign"}

ASSUME DocumentsAssumption ==
    /\ MaxDay \in Nat /\ Window \in Nat /\ Keep \in Nat
    /\ Dues \subseteq Day /\ ListLimits \subseteq Nat
    /\ Null \notin Docs \cup Entries \cup Signatures \cup Nat
    /\ Mortal \subseteq Op
    /\ {FromList, Exclusive} \subseteq BOOLEAN

VARIABLES
    today,
    doc,             \* documents
    bucket,          \* documents whose object is in the bucket
    copies,          \* documents whose signed copy is in the bucket
    trash,           \* doc_trash
    sig,             \* signatures
    call             \* the locals of each call

vars == <<today, doc, bucket, copies, trash, sig, call>>

-----------------------------------------------------------------------------
(* Types *)

Due == Dues \cup {Null}
DocStatus == {"none", "active", "expiring", "expired", "trashed", "gone"}
DocRow == [status : DocStatus, due : Due]
TrashRow == [state : {"none", "present", "gone"}, doc : Docs \cup {Null}, purgeAfter : Nat]
SigRow == [status : {"none", "requested", "signed", "gone"}, doc : Docs \cup {Null}]

Pc == {"idle", "entry", "mark", "revive", "object", "row", "drop", "purging", "scanning",
       "asking", "source", "copy", "signed", "dead"}
CallState == [pc : Pc, op : Op \cup {"none"},
              doc : Docs \cup {Null}, entry : Entries \cup {Null},
              sig : Signatures \cup {Null}, date : Day,
              entries : SUBSET Entries,                \* left of the purge's list
              docs : SUBSET (Docs \X Due),             \* left of the scan's list
              sigs : SUBSET Signatures,                \* signers still to ask
              cut : BOOLEAN]                           \* history: was more due than listed?

TypeOK ==
    /\ today \in Day
    /\ doc \in [Docs -> DocRow]
    /\ bucket \subseteq Docs /\ copies \subseteq Docs
    /\ trash \in [Entries -> TrashRow]
    /\ sig \in [Signatures -> SigRow]
    /\ call \in [Calls -> CallState]

Idle == [pc |-> "idle", op |-> "none", doc |-> Null, entry |-> Null, sig |-> Null,
         date |-> 0, entries |-> {}, docs |-> {}, sigs |-> {}, cut |-> FALSE]

Init ==
    /\ today = 0
    /\ doc = [d \in Docs |-> [status |-> "none", due |-> Null]]
    /\ bucket = {} /\ copies = {}
    /\ trash = [e \in Entries |-> [state |-> "none", doc |-> Null, purgeAfter |-> 0]]
    /\ sig = [s \in Signatures |-> [status |-> "none", doc |-> Null]]
    /\ call = [c \in Calls |-> Idle]

-----------------------------------------------------------------------------
(* Helpers *)

Exists(d) == doc[d].status \notin {"none", "gone"}
Live(d) == Exists(d) /\ doc[d].status # "trashed"
InTrash(e) == trash[e].state = "present"

Running(c) == call[c].pc \notin {"idle", "dead"}
Turn == Exclusive => \A d \in Calls : ~Running(d)
Begin(c) == call[c].pc = "idle" /\ Turn
Become(c, locals) == call' = [call EXCEPT ![c] = locals]
Goto(c, at) == call' = [call EXCEPT ![c].pc = at]
Answer(c) == Become(c, Idle)

\* What a query with a limit and no order may list of the rows S.
Listings(S) ==
    {L \in SUBSET S : \E n \in ListLimits : Cardinality(L) <= n /\ (L = S \/ Cardinality(L) = n)}

\* An update of a row that is no longer there changes nothing.
SetStatus(d, s) == doc' = IF Exists(d) THEN [doc EXCEPT ![d].status = s] ELSE doc

-----------------------------------------------------------------------------
(* create, once the client has put the bytes in the bucket; update of the   *)
(* expiry date.                                                             *)

CreateDocument(d, due) ==
    /\ Turn
    /\ doc[d].status = "none"
    /\ doc' = [doc EXCEPT ![d] = [status |-> "active", due |-> due]]
    /\ bucket' = bucket \cup {d}
    /\ UNCHANGED <<today, copies, trash, sig, call>>

UpdateDue(d, due) ==
    /\ Turn
    /\ Exists(d)
    /\ doc' = [doc EXCEPT ![d].due = due]
    /\ UNCHANGED <<today, bucket, copies, trash, sig, call>>

-----------------------------------------------------------------------------
(* softDelete: find, add a trash entry, mark the row. *)

\* (mutant of FindForDelete: the row is marked and no entry made)
FindAndMark(c, d) ==
    /\ Begin(c)
    /\ IF FromList THEN Live(d) ELSE Exists(d)
    /\ Become(c, [Idle EXCEPT !.pc = "mark", !.op = "delete", !.doc = d, !.date = today])
    /\ UNCHANGED <<today, doc, bucket, copies, trash, sig>>

FindForDelete(c, d) ==
    /\ Begin(c)
    /\ IF FromList THEN Live(d) ELSE Exists(d)
    /\ Become(c, [Idle EXCEPT !.pc = "entry", !.op = "delete", !.doc = d, !.date = today])
    /\ UNCHANGED <<today, doc, bucket, copies, trash, sig>>

AddEntry(c, e) ==
    /\ call[c].pc = "entry"
    /\ trash[e].state = "none"
    /\ trash' = [trash EXCEPT ![e] = [state |-> "present", doc |-> call[c].doc,
                                      purgeAfter |-> call[c].date + Keep]]
    /\ Goto(c, "mark")
    /\ UNCHANGED <<today, doc, bucket, copies, sig>>

MarkTrashed(c) ==
    /\ call[c].pc = "mark"
    /\ SetStatus(call[c].doc, "trashed")
    /\ Answer(c)
    /\ UNCHANGED <<today, bucket, copies, trash, sig>>

-----------------------------------------------------------------------------
(* restore: the row is active again, then the entry goes.                   *)
(* purge: the object, the row (its signatures with it), then the entry.     *)

FindEntry(c, op, e) ==
    /\ Begin(c)
    /\ InTrash(e)
    /\ Become(c, [Idle EXCEPT !.pc = IF op = "restore" THEN "revive" ELSE "object",
                              !.op = op, !.entry = e, !.doc = trash[e].doc])
    /\ UNCHANGED <<today, doc, bucket, copies, trash, sig>>

Revive(c) ==
    /\ call[c].pc = "revive"
    /\ SetStatus(call[c].doc, "active")
    /\ Goto(c, "drop")
    /\ UNCHANGED <<today, bucket, copies, trash, sig>>

\* A failure is logged and the purge goes on.
RemoveObject(c) ==
    /\ call[c].pc = "object"
    /\ bucket' \in {bucket, bucket \ {call[c].doc}}
    /\ Goto(c, "row")
    /\ UNCHANGED <<today, doc, copies, trash, sig>>

HardDelete(c) ==
    LET d == call[c].doc
    IN  /\ call[c].pc = "row"
        /\ SetStatus(d, "gone")
        /\ sig' = [s \in Signatures |-> IF sig[s].doc = d THEN [sig[s] EXCEPT !.status = "gone"]
                                                          ELSE sig[s]]
        /\ Goto(c, "drop")
        /\ UNCHANGED <<today, bucket, copies, trash>>

\* (mutant of DropEntry: restoring leaves the entry)
DropUnlessRestored(c) ==
    /\ call[c].pc = "drop"
    /\ trash' = IF call[c].op = "restore" THEN trash
                                          ELSE [trash EXCEPT ![call[c].entry].state = "gone"]
    /\ IF call[c].op = "purgeTrash" THEN Goto(c, "purging") ELSE Answer(c)
    /\ UNCHANGED <<today, doc, bucket, copies, sig>>

DropEntry(c) ==
    /\ call[c].pc = "drop"
    /\ trash' = [trash EXCEPT ![call[c].entry].state = "gone"]
    /\ IF call[c].op = "purgeTrash" THEN Goto(c, "purging") ELSE Answer(c)
    /\ UNCHANGED <<today, doc, bucket, copies, sig>>

-----------------------------------------------------------------------------
(* purgeTrash: the purge of every entry that is due, one after the other. *)

Purgeable == {e \in Entries : InTrash(e) /\ trash[e].purgeAfter <= today}

BeginPurge(c) ==
    /\ Begin(c)
    /\ \E listed \in Listings(Purgeable) :
          Become(c, [Idle EXCEPT !.pc = "purging", !.op = "purgeTrash", !.date = today,
                                 !.entries = listed, !.cut = listed # Purgeable])
    /\ UNCHANGED <<today, doc, bucket, copies, trash, sig>>

PurgeNext(c) ==
    /\ call[c].pc = "purging"
    /\ \/ /\ call[c].entries = {}
          /\ Answer(c)
       \/ \E e \in call[c].entries :
             Become(c, [call[c] EXCEPT !.pc = "object", !.entry = e, !.doc = trash[e].doc,
                                       !.entries = @ \ {e}])
    /\ UNCHANGED <<today, doc, bucket, copies, trash, sig>>

-----------------------------------------------------------------------------
(* runExpiryScan: list the active documents due soon, flag them one by one. *)

ExpiringBefore(date) == {d \in Docs : doc[d].status = "active" /\ doc[d].due # Null
                                                               /\ doc[d].due <= date}

BeginScan(c) ==
    /\ Begin(c)
    /\ \E listed \in Listings(ExpiringBefore(today + Window)) :
          Become(c, [Idle EXCEPT !.pc = "scanning", !.op = "scan", !.date = today,
                                 !.docs = {<<d, doc[d].due>> : d \in listed},
                                 !.cut = listed # ExpiringBefore(today + Window)])
    /\ UNCHANGED <<today, doc, bucket, copies, trash, sig>>

\* (mutant of Flag: a status the column does not admit)
FlagDue(due, date) == IF due <= date THEN "due" ELSE "expiring"

Flag(due, date) == IF due <= date THEN "expired" ELSE "expiring"

ScanNext(c) ==
    /\ call[c].pc = "scanning"
    /\ \/ /\ call[c].docs = {}
          /\ Answer(c)
          /\ UNCHANGED doc
       \/ \E row \in call[c].docs :
             /\ SetStatus(row[1], Flag(row[2], call[c].date))
             /\ Become(c, [call[c] EXCEPT !.docs = @ \ {row}])
    /\ UNCHANGED <<today, bucket, copies, trash, sig>>

-----------------------------------------------------------------------------
(* requestSignatures: find the document, insert a row per signer; a row of  *)
(* a document deleted meanwhile is refused by the foreign key.              *)

FindForRequest(c, d, signers) ==
    /\ Begin(c)
    /\ Exists(d)
    /\ \A s \in signers : sig[s].status = "none" /\ \A x \in Calls : s \notin call[x].sigs
    /\ Become(c, [Idle EXCEPT !.pc = "asking", !.op = "request", !.doc = d, !.sigs = signers])
    /\ UNCHANGED <<today, doc, bucket, copies, trash, sig>>

AskNext(c) ==
    /\ call[c].pc = "asking"
    /\ IF call[c].sigs = {} \/ ~Exists(call[c].doc)
       THEN Answer(c) /\ UNCHANGED sig
       ELSE \E s \in call[c].sigs :
               /\ sig' = [sig EXCEPT ![s] = [status |-> "requested", doc |-> call[c].doc]]
               /\ Become(c, [call[c] EXCEPT !.sigs = @ \ {s}])
    /\ UNCHANGED <<today, doc, bucket, copies, trash>>

(* sign: find the request, find the document, copy its object, mark.        *)

FindSignature(c, s) ==
    /\ Begin(c)
    /\ sig[s].status = "requested"
    /\ Become(c, [Idle EXCEPT !.pc = "source", !.op = "sign", !.sig = s, !.doc = sig[s].doc])
    /\ UNCHANGED <<today, doc, bucket, copies, trash, sig>>

FindSource(c) ==
    /\ call[c].pc = "source"
    /\ Goto(c, IF Exists(call[c].doc) THEN "copy" ELSE "signed")
    /\ UNCHANGED <<today, doc, bucket, copies, trash, sig>>

CopyObject(c) ==
    /\ call[c].pc = "copy"
    /\ \/ UNCHANGED copies
       \/ call[c].doc \in bucket /\ copies' = copies \cup {call[c].doc}
    /\ Goto(c, "signed")
    /\ UNCHANGED <<today, doc, bucket, trash, sig>>

MarkSigned(c) ==
    /\ call[c].pc = "signed"
    /\ sig' = IF sig[call[c].sig].status = "gone" THEN sig
                                                  ELSE [sig EXCEPT ![call[c].sig].status = "signed"]
    /\ Answer(c)
    /\ UNCHANGED <<today, doc, bucket, copies, trash>>

-----------------------------------------------------------------------------

\* What has died is remembered by its operation.
Crash(c) ==
    /\ Running(c) /\ call[c].op \in Mortal
    /\ Become(c, [Idle EXCEPT !.pc = "dead", !.op = call[c].op])
    /\ UNCHANGED <<today, doc, bucket, copies, trash, sig>>

Tick == /\ today < MaxDay
        /\ today' = today + 1
        /\ UNCHANGED <<doc, bucket, copies, trash, sig, call>>

Proceed(c) ==
    \/ \E e \in Entries : AddEntry(c, e)
    \/ MarkTrashed(c)
    \/ Revive(c)
    \/ RemoveObject(c)
    \/ HardDelete(c)
    \/ DropEntry(c)
    \/ PurgeNext(c)
    \/ ScanNext(c)
    \/ AskNext(c)
    \/ FindSource(c)
    \/ CopyObject(c)
    \/ MarkSigned(c)

Next ==
    \/ \E d \in Docs, due \in Due : CreateDocument(d, due) \/ UpdateDue(d, due)
    \/ \E c \in Calls :
          \/ \E d \in Docs : FindForDelete(c, d)
          \/ \E d \in Docs, signers \in SUBSET Signatures : FindForRequest(c, d, signers)
          \/ \E e \in Entries, op \in {"restore", "purge"} : FindEntry(c, op, e)
          \/ \E s \in Signatures : FindSignature(c, s)
          \/ BeginPurge(c)
          \/ BeginScan(c)
          \/ Proceed(c)
          \/ Crash(c)
    \/ Tick

Spec == Init /\ [][Next]_vars

-----------------------------------------------------------------------------
(* Properties *)

NoneRunning == \A c \in Calls : ~Running(c)
Died(ops) == \E c \in Calls : call[c].pc = "dead" /\ call[c].op \in ops

\* What is purged was in the trash: "Soft-deleted documents pending scheduled
\* purge" (schema/documents.ts:103).  It takes that each document has at most one
\* entry and that no delete or restore died between its two steps.
PurgesTrashOnly ==
    [][\A d \in Docs : Live(d) /\ ~Died({"delete", "restore"}) => doc'[d].status # "gone"]_vars

\* A live document can be downloaded, unless a purge of it died half way and it
\* was then restored.
LiveHasObject ==
    ~Died({"delete", "restore", "purge", "purgeTrash"}) => \A d \in Docs : Live(d) => d \in bucket

\* A document in the trash can be restored or purged: it has an entry, whatever
\* died before; the entry is made before the row is marked and goes after it.
TrashHasEntry ==
    NoneRunning => \A d \in Docs : doc[d].status = "trashed" =>
        \E e \in Entries : InTrash(e) /\ trash[e].doc = d

\* What is live can be downloaded, what is in the trash restored or purged.
NothingLost == LiveHasObject /\ TrashHasEntry

\* A scheduled purge that runs to its end has emptied the trash of all that
\* was due, what an earlier one left half done included, if its list was not cut
\* (documents.repository.ts:180).
PurgeCatchesUp ==
    \A c \in Calls : call[c].op = "purgeTrash" /\ ~call[c].cut /\ call'[c].pc = "idle" =>
        \A e \in Entries : InTrash(e) => trash[e].purgeAfter > call[c].date

\* A scan that runs to its end leaves no document shown as active that expires
\* within the window, if its list was not cut (documents.repository.ts:118).
ScanCatchesUp ==
    \A c \in Calls : call[c].op = "scan" /\ ~call[c].cut /\ call'[c].pc = "idle" =>
        \A d \in Docs : doc[d].status = "active" /\ doc[d].due # Null =>
            doc[d].due > call[c].date + Window
=============================================================================
