-------------------------- MODULE DocumentsProofs --------------------------
(***************************************************************************)
(* For any number of documents, entries, signatures, transfers, calls and  *)
(* days, and whatever dies between two steps: a move is made when its      *)
(* transfer says so, and where calls come one at a time a guest is linked  *)
(* while a visit is on, what is live has its object, what is in the trash  *)
(* an entry, what is purged was in the trash, and a sweep, a purge or a    *)
(* scan that ends leaves nothing due.                                      *)
(***************************************************************************)
EXTENDS Personnel, TLAPS

Filed(d) == d \in Docs /\ doc[d].status # "none"
Known(e) == e \in Entries /\ trash[e].state # "none"

\* What a call knows at each step, whatever the others do.
Placed(c) ==
    /\ call[c].pc \in {"entry", "mark"} => call[c].op = "delete"
    /\ call[c].pc = "revive" => call[c].op = "restore"
    /\ call[c].pc \in {"object", "row"} => call[c].op \in {"purge", "purgeTrash"}
    /\ call[c].pc = "purging" => call[c].op = "purgeTrash"
    /\ call[c].pc = "drop" => call[c].op \in {"restore", "purge", "purgeTrash"}
    /\ call[c].pc \in {"entry", "mark", "revive", "object", "row", "drop"} => Filed(call[c].doc)
    /\ call[c].pc \in {"revive", "object", "row", "drop"} => Known(call[c].entry)
    /\ call[c].pc \in {"source", "copy", "signed"} => call[c].sig \in Signatures
    /\ \A e \in call[c].entries : Known(e)
Located == \A c \in Calls : Placed(c)

\* An entry is of a document that was created.
EntryTells == \A e \in Entries : Known(e) => Filed(trash[e].doc)

Typed == TypeOK /\ Located /\ EntryTells

\* What was created, and what was put in the trash, is on record for good.
Grows ==
    /\ \A d \in Docs : Filed(d) => Filed(d)'
    /\ \A e \in Entries : Known(e) => Known(e)'

-----------------------------------------------------------------------------

LEMMA StatusSet ==
    ASSUME Typed, NEW d \in Docs, NEW s \in DocStatus, s # "none", SetStatus(d, s)
    PROVE  /\ doc' \in [Docs -> DocRow]
           /\ \A x \in Docs : Filed(x) => Filed(x)'
           /\ \A x \in Docs : x # d => doc'[x] = doc[x]
           /\ doc'[d].status = IF Exists(d) THEN s ELSE doc[d].status
BY DEF Typed, TypeOK, SetStatus, DocRow, Filed

LEMMA CallTyped ==
    ASSUME Typed, NEW c \in Calls, NEW l \in CallState, call' = [call EXCEPT ![c] = l],
           Placed(c)', Grows
    PROVE  call' \in [Calls -> CallState] /\ Located'
<1>1. /\ call' \in [Calls -> CallState] /\ call'[c] = l
      /\ \A x \in Calls : x # c => call'[x] = call[x]
  BY DEF Typed, TypeOK
<1>2. ASSUME NEW x \in Calls, x # c PROVE Placed(x)'
  <2>1. Placed(x) /\ call'[x] = call[x] /\ call[x].entries \subseteq Entries
    BY <1>1, <1>2 DEF Typed, TypeOK, Located, CallState
  <2>2. QED
    BY <2>1 DEF Placed, Grows, Filed, Known
<1>3. QED
  BY <1>1, <1>2 DEF Located

\* Steps that leave documents and trash as they are.
LEMMA QuietTyped ==
    ASSUME Typed, NEW c \in Calls, NEW l \in CallState, call' = [call EXCEPT ![c] = l],
           Placed(c)', UNCHANGED <<today, doc, bucket, trash>>,
           copies' \subseteq Docs, sig' \in [Signatures -> SigRow]
    PROVE  Typed'
<1>1. Grows
  BY DEF Grows, Filed, Known
<1>2. call' \in [Calls -> CallState] /\ Located'
  BY <1>1, CallTyped
<1>3. QED
  BY <1>2 DEF Typed, TypeOK, EntryTells, Known, Filed

LEMMA IdleTyped ==
    ASSUME DocumentsAssumption
    PROVE  Idle \in CallState
BY DEF DocumentsAssumption, Idle, CallState, Pc, Op, Day

LEMMA TypedInit == Init => Typed
<1> SUFFICES ASSUME Init PROVE Typed
  OBVIOUS
<1>1. TypeOK
  BY DocumentsAssumption, IdleTyped DEF Init, TypeOK, DocRow, Due, DocStatus, TrashRow, SigRow, Day, DocumentsAssumption
<1>2. Located /\ EntryTells
  BY DEF Init, Located, Placed, EntryTells, Known, Idle
<1>3. QED
  BY <1>1, <1>2 DEF Typed

-----------------------------------------------------------------------------
(* One step of one call, and the steps outside the calls *)

LEMMA CreateTyped ==
    ASSUME Typed, NEW d \in Docs, NEW due \in Due, CreateDocument(d, due) \/ UpdateDue(d, due)
    PROVE  Typed'
<1>1. /\ doc' \in [Docs -> DocRow] /\ bucket' \subseteq Docs /\ Grows
      /\ UNCHANGED <<today, copies, trash, sig, call>>
  <2>1. CASE CreateDocument(d, due)
    BY <2>1 DEF CreateDocument, Typed, TypeOK, Grows, Filed, Known, DocRow, DocStatus
  <2>2. CASE UpdateDue(d, due)
    BY <2>2 DEF UpdateDue, Typed, TypeOK, Grows, Filed, Known, DocRow, DocStatus
  <2>3. QED
    BY <2>1, <2>2
<1>2. Located'
  <2>1. ASSUME NEW x \in Calls PROVE Placed(x)'
    BY <1>1 DEF Typed, TypeOK, Located, Placed, Grows, Filed, Known
  <2>2. QED
    BY <2>1 DEF Located
<1>3. QED
  BY <1>1, <1>2 DEF Typed, TypeOK, EntryTells, Grows, Filed, Known, TrashRow

LEMMA BeginTyped ==
    ASSUME Typed, NEW c \in Calls,
           \/ \E d \in Docs : FindForDelete(c, d)
           \/ \E d \in Docs, signers \in SUBSET Signatures : FindForRequest(c, d, signers)
           \/ \E e \in Entries, op \in {"restore", "purge"} : FindEntry(c, op, e)
           \/ \E s \in Signatures : FindSignature(c, s)
           \/ BeginPurge(c)
           \/ BeginScan(c)
    PROVE  Typed'
<1>0. /\ DocumentsAssumption /\ Idle \in CallState
      /\ today \in Day /\ copies \subseteq Docs /\ sig \in [Signatures -> SigRow]
      /\ \A l \in CallState : call' = [call EXCEPT ![c] = l] => call'[c] = l
  BY DocumentsAssumption, IdleTyped DEF Typed, TypeOK
<1>1. CASE \E d \in Docs : FindForDelete(c, d)
  <2>1. PICK d \in Docs : FindForDelete(c, d)
    BY <1>1
  <2> DEFINE l == [Idle EXCEPT !.pc = "entry", !.op = "delete", !.doc = d, !.date = today]
  <2>2. l \in CallState /\ l.pc = "entry" /\ l.op = "delete" /\ l.doc = d /\ l.entries = {}
    BY <1>0 DEF CallState, Idle, Pc, Op
  <2>3. call' = [call EXCEPT ![c] = l] /\ UNCHANGED <<today, doc, bucket, copies, trash, sig>>
    BY <2>1 DEF FindForDelete, Become
  <2>4. Filed(d)
    BY <2>1 DEF FindForDelete, Live, Exists, Filed
  <2> HIDE DEF l
  <2>5. Placed(c)'
    BY <1>0, <2>2, <2>3, <2>4 DEF Placed, Filed
  <2>6. QED
    BY <1>0, <2>2, <2>3, <2>5, QuietTyped
<1>2. CASE \E d \in Docs, signers \in SUBSET Signatures : FindForRequest(c, d, signers)
  <2>1. PICK d \in Docs, signers \in SUBSET Signatures : FindForRequest(c, d, signers)
    BY <1>2
  <2> DEFINE l == [Idle EXCEPT !.pc = "asking", !.op = "request", !.doc = d, !.sigs = signers]
  <2>2. l \in CallState /\ l.pc = "asking" /\ l.entries = {}
    BY <1>0 DEF CallState, Idle, Pc, Op
  <2>3. call' = [call EXCEPT ![c] = l] /\ UNCHANGED <<today, doc, bucket, copies, trash, sig>>
    BY <2>1 DEF FindForRequest, Become
  <2> HIDE DEF l
  <2>5. Placed(c)'
    BY <1>0, <2>2, <2>3 DEF Placed
  <2>6. QED
    BY <1>0, <2>2, <2>3, <2>5, QuietTyped
<1>3. CASE \E e \in Entries, op \in {"restore", "purge"} : FindEntry(c, op, e)
  <2>1. PICK e \in Entries, op \in {"restore", "purge"} : FindEntry(c, op, e)
    BY <1>3
  <2> DEFINE at == IF op = "restore" THEN "revive" ELSE "object"
             l == [Idle EXCEPT !.pc = at, !.op = op, !.entry = e, !.doc = trash[e].doc]
  <2>2. Known(e) /\ Filed(trash[e].doc)
    BY <2>1 DEF FindEntry, InTrash, Known, Typed, EntryTells
  <2>3. /\ l \in CallState /\ l.pc = at /\ l.op = op /\ l.entry = e /\ l.doc = trash[e].doc
        /\ l.entries = {}
    <3>1. PICK x : x = trash[e].doc
      OBVIOUS
    <3>2. x \in Docs /\ at \in Pc /\ op \in Op
      BY <2>2, <3>1 DEF Filed, Pc, Op
    <3>3. [Idle EXCEPT !.pc = at, !.op = op, !.entry = e, !.doc = x] \in CallState
      BY <1>0, <3>2 DEF CallState
    <3>4. QED
      BY <3>1, <3>3 DEF Idle
  <2>4. call' = [call EXCEPT ![c] = l] /\ UNCHANGED <<today, doc, bucket, copies, trash, sig>>
    BY <2>1 DEF FindEntry, Become
  <2> HIDE DEF l
  <2>5. Placed(c)'
    BY <1>0, <2>2, <2>3, <2>4 DEF Placed, Filed, Known
  <2>6. QED
    BY <1>0, <2>3, <2>4, <2>5, QuietTyped
<1>4. CASE \E s \in Signatures : FindSignature(c, s)
  <2>1. PICK s \in Signatures : FindSignature(c, s)
    BY <1>4
  <2> DEFINE l == [Idle EXCEPT !.pc = "source", !.op = "sign", !.sig = s, !.doc = sig[s].doc]
  <2>2. l \in CallState /\ l.pc = "source" /\ l.sig = s /\ l.entries = {}
    BY <1>0 DEF CallState, Idle, Pc, Op, SigRow
  <2>3. call' = [call EXCEPT ![c] = l] /\ UNCHANGED <<today, doc, bucket, copies, trash, sig>>
    BY <2>1 DEF FindSignature, Become
  <2> HIDE DEF l
  <2>5. Placed(c)'
    BY <1>0, <2>2, <2>3 DEF Placed
  <2>6. QED
    BY <1>0, <2>2, <2>3, <2>5, QuietTyped
<1>5. CASE BeginPurge(c)
  <2>0. PICK listed \in Listings(Purgeable) :
           Become(c, [Idle EXCEPT !.pc = "purging", !.op = "purgeTrash", !.date = today,
                                  !.entries = listed, !.cut = listed # Purgeable])
    BY <1>5 DEF BeginPurge
  <2>4. PICK cut \in BOOLEAN : cut = (listed # Purgeable)
    OBVIOUS
  <2> DEFINE l == [Idle EXCEPT !.pc = "purging", !.op = "purgeTrash", !.date = today,
                               !.entries = listed, !.cut = cut]
  <2>1. listed \subseteq Entries /\ \A e \in listed : Known(e)
    BY DEF Listings, Purgeable, InTrash, Known
  <2>2. l \in CallState /\ l.pc = "purging" /\ l.op = "purgeTrash" /\ l.entries = listed
    BY <1>0, <2>1 DEF CallState, Idle, Pc, Op
  <2>3. call' = [call EXCEPT ![c] = l] /\ UNCHANGED <<today, doc, bucket, copies, trash, sig>>
    BY <1>5, <2>0, <2>4 DEF BeginPurge, Become
  <2> HIDE DEF l
  <2>5. Placed(c)'
    BY <1>0, <2>1, <2>2, <2>3 DEF Placed, Known
  <2>6. QED
    BY <1>0, <2>2, <2>3, <2>5, QuietTyped
<1>6. CASE BeginScan(c)
  <2>0. PICK listed \in Listings(ExpiringBefore(today + Window)) :
           Become(c, [Idle EXCEPT !.pc = "scanning", !.op = "scan", !.date = today,
                                  !.docs = {<<d, doc[d].due>> : d \in listed},
                                  !.cut = listed # ExpiringBefore(today + Window)])
    BY <1>6 DEF BeginScan
  <2>4. PICK cut \in BOOLEAN : cut = (listed # ExpiringBefore(today + Window))
    OBVIOUS
  <2> DEFINE list == {<<d, doc[d].due>> : d \in listed}
             l == [Idle EXCEPT !.pc = "scanning", !.op = "scan", !.date = today, !.docs = list,
                               !.cut = cut]
  <2>1. list \subseteq Docs \X Due
    BY DEF Listings, ExpiringBefore, Typed, TypeOK, DocRow
  <2>2. l \in CallState /\ l.pc = "scanning" /\ l.entries = {}
    <3> HIDE DEF list
    <3>1. QED
      BY <1>0, <2>1 DEF CallState, Idle, Pc, Op
  <2>3. call' = [call EXCEPT ![c] = l] /\ UNCHANGED <<today, doc, bucket, copies, trash, sig>>
    BY <1>6, <2>0, <2>4 DEF BeginScan, Become
  <2> HIDE DEF l
  <2>5. Placed(c)'
    BY <1>0, <2>2, <2>3 DEF Placed
  <2>6. QED
    BY <1>0, <2>2, <2>3, <2>5, QuietTyped
<1>7. QED
  BY <1>1, <1>2, <1>3, <1>4, <1>5, <1>6

\* What a call that goes on keeps of its locals.
LEMMA GoesOn ==
    ASSUME Typed, NEW c \in Calls, NEW at \in Pc, Goto(c, at)
    PROVE  /\ [call[c] EXCEPT !.pc = at] \in CallState
           /\ call' = [call EXCEPT ![c] = [call[c] EXCEPT !.pc = at]]
           /\ call'[c].pc = at /\ call'[c].op = call[c].op /\ call'[c].doc = call[c].doc
           /\ call'[c].entry = call[c].entry /\ call'[c].entries = call[c].entries
           /\ call'[c].sig = call[c].sig /\ call'[c].docs = call[c].docs
           /\ \A x \in Calls : x # c => call'[x] = call[x]
BY DEF Typed, TypeOK, CallState, Goto

LEMMA Answers ==
    ASSUME Typed, NEW c \in Calls, Answer(c)
    PROVE  /\ Idle \in CallState /\ call' = [call EXCEPT ![c] = Idle]
           /\ call'[c].pc = "idle" /\ Placed(c)'
           /\ \A x \in Calls : x # c => call'[x] = call[x]
<1>1. /\ Idle \in CallState /\ call' = [call EXCEPT ![c] = Idle] /\ call'[c] = Idle
      /\ \A x \in Calls : x # c => call'[x] = call[x]
  BY IdleTyped, DocumentsAssumption DEF Answer, Become, Typed, TypeOK
<1>2. QED
  BY <1>1 DEF Idle, Placed

\* Steps that write documents or trash.
LEMMA WriteTyped ==
    ASSUME Typed, NEW c \in Calls, NEW l \in CallState, call' = [call EXCEPT ![c] = l],
           Placed(c)', Grows, doc' \in [Docs -> DocRow], bucket' \subseteq Docs,
           trash' \in [Entries -> TrashRow], EntryTells', UNCHANGED <<today, copies>>,
           sig' \in [Signatures -> SigRow]
    PROVE  Typed'
<1>1. call' \in [Calls -> CallState] /\ Located'
  BY CallTyped
<1>2. QED
  BY <1>1 DEF Typed, TypeOK

LEMMA AddTyped ==
    ASSUME Typed, NEW c \in Calls, NEW e \in Entries, AddEntry(c, e)
    PROVE  Typed'
<1>1. /\ call[c].pc = "entry" /\ Goto(c, "mark") /\ trash[e].state = "none"
      /\ trash' = [trash EXCEPT ![e] = [state |-> "present", doc |-> call[c].doc,
                                        purgeAfter |-> call[c].date + Keep]]
      /\ UNCHANGED <<today, doc, bucket, copies, sig>>
  BY DEF AddEntry
<1>2. /\ Placed(c) /\ Filed(call[c].doc) /\ call[c].date + Keep \in Nat
  BY <1>1, DocumentsAssumption DEF Typed, Located, Placed, TypeOK, CallState, Day, DocumentsAssumption
<1>3. /\ trash' \in [Entries -> TrashRow] /\ Grows /\ EntryTells'
  BY <1>1, <1>2 DEF Typed, TypeOK, TrashRow, Grows, EntryTells, Known, Filed
<1>4. Placed(c)'
  <2>1. "mark" \in Pc
    BY DEF Pc
  <2>2. call[c].entries \subseteq Entries
    BY DEF Typed, TypeOK, CallState
  <2>3. QED
    BY <1>1, <1>2, <1>3, <2>1, <2>2, GoesOn DEF Placed, Grows, Known, Filed
<1>5. QED
  BY <1>1, <1>3, <1>4, GoesOn, WriteTyped DEF Typed, TypeOK, Pc

LEMMA StatusTyped ==
    ASSUME Typed, NEW c \in Calls, MarkTrashed(c) \/ Revive(c) \/ HardDelete(c)
    PROVE  Typed'
<1> DEFINE d == call[c].doc
<1>1. Placed(c) /\ d \in Docs /\ call[c].entries \subseteq Entries
  BY DEF Typed, TypeOK, Located, Placed, Filed, CallState, MarkTrashed, Revive, HardDelete
<1>2. \E s \in DocStatus \ {"none"} : SetStatus(d, s)
  BY DEF MarkTrashed, Revive, HardDelete, DocStatus
<1>3. doc' \in [Docs -> DocRow] /\ \A x \in Docs : Filed(x) => Filed(x)'
  BY <1>1, <1>2, StatusSet
<1>4. UNCHANGED <<today, bucket, copies, trash>> /\ sig' \in [Signatures -> SigRow]
  BY DEF MarkTrashed, Revive, HardDelete, Typed, TypeOK, SigRow
<1>5. Grows /\ EntryTells'
  BY <1>3, <1>4 DEF Typed, TypeOK, EntryTells, Grows, Known, Filed, TrashRow
<1>6. \E l \in CallState : call' = [call EXCEPT ![c] = l] /\ Placed(c)'
  <2>1. CASE MarkTrashed(c)
    BY <2>1, Answers DEF MarkTrashed
  <2>2. CASE Revive(c)
    <3>1. call[c].pc = "revive" /\ Goto(c, "drop") /\ "drop" \in Pc
      BY <2>2 DEF Revive, Pc
    <3>2. Placed(c)'
      BY <1>1, <1>5, <3>1, GoesOn DEF Placed, Grows, Known, Filed
    <3>3. QED
      BY <3>1, <3>2, GoesOn
  <2>3. CASE HardDelete(c)
    <3>1. call[c].pc = "row" /\ Goto(c, "drop") /\ "drop" \in Pc
      BY <2>3 DEF HardDelete, Pc
    <3>2. Placed(c)'
      BY <1>1, <1>5, <3>1, GoesOn DEF Placed, Grows, Known, Filed
    <3>3. QED
      BY <3>1, <3>2, GoesOn
  <2>4. QED
    BY <2>1, <2>2, <2>3
<1>7. QED
  BY <1>3, <1>4, <1>5, <1>6, WriteTyped DEF Typed, TypeOK

LEMMA RemoveTyped ==
    ASSUME Typed, NEW c \in Calls, RemoveObject(c)
    PROVE  Typed'
<1>1. /\ call[c].pc = "object" /\ Goto(c, "row") /\ "row" \in Pc /\ Placed(c)
      /\ bucket' \subseteq Docs /\ UNCHANGED <<today, doc, copies, trash, sig>>
      /\ call[c].entries \subseteq Entries
  BY DEF RemoveObject, Pc, Typed, TypeOK, Located, CallState
<1>2. Grows /\ EntryTells'
  BY <1>1 DEF Typed, EntryTells, Grows, Known, Filed
<1>3. Placed(c)'
  BY <1>1, GoesOn DEF Placed, Known, Filed
<1>4. QED
  BY <1>1, <1>2, <1>3, GoesOn, WriteTyped DEF Typed, TypeOK

LEMMA DropTyped ==
    ASSUME Typed, NEW c \in Calls, DropEntry(c)
    PROVE  Typed'
<1>1. /\ call[c].pc = "drop" /\ Placed(c) /\ call[c].entries \subseteq Entries
      /\ trash' = [trash EXCEPT ![call[c].entry].state = "gone"]
      /\ UNCHANGED <<today, doc, bucket, copies, sig>>
      /\ Known(call[c].entry)
  BY DEF DropEntry, Typed, TypeOK, Located, Placed, CallState
<1>2. trash' \in [Entries -> TrashRow] /\ Grows /\ EntryTells'
  BY <1>1 DEF Typed, TypeOK, TrashRow, EntryTells, Grows, Known, Filed
<1>3. \E l \in CallState : call' = [call EXCEPT ![c] = l] /\ Placed(c)'
  <2>1. CASE call[c].op = "purgeTrash"
    <3>1. Goto(c, "purging") /\ "purging" \in Pc
      BY <2>1 DEF DropEntry, Pc
    <3>2. Placed(c)'
      <4>1. /\ call'[c].pc = "purging" /\ call'[c].op = "purgeTrash"
            /\ call'[c].entries = call[c].entries
        BY <2>1, <3>1, GoesOn
      <4>2. \A e \in call[c].entries : Known(e)'
        BY <1>1, <1>2 DEF Placed, Grows
      <4>3. QED
        BY <4>1, <4>2 DEF Placed
    <3>3. QED
      BY <3>1, <3>2, GoesOn
  <2>2. CASE call[c].op # "purgeTrash"
    BY <2>2, Answers DEF DropEntry
  <2>3. QED
    BY <2>1, <2>2
<1>4. QED
  BY <1>1, <1>2, <1>3, WriteTyped DEF Typed, TypeOK

LEMMA PurgeNextTyped ==
    ASSUME Typed, NEW c \in Calls, PurgeNext(c)
    PROVE  Typed'
<1>1. UNCHANGED <<today, doc, bucket, trash, copies, sig>>
  BY DEF PurgeNext
<1>2. CASE Answer(c)
  BY <1>1, <1>2, Answers, QuietTyped DEF Typed, TypeOK
<1>3. CASE ~Answer(c)
  <2>1. PICK e \in call[c].entries :
           call' = [call EXCEPT ![c] = [call[c] EXCEPT !.pc = "object", !.entry = e, !.doc = trash[e].doc,
                                                       !.entries = @ \ {e}]]
    BY <1>3 DEF PurgeNext, Become
  <2> DEFINE l == [call[c] EXCEPT !.pc = "object", !.entry = e, !.doc = trash[e].doc,
                                  !.entries = @ \ {e}]
  <2>2. call[c] \in CallState /\ Placed(c) /\ Known(e) /\ Filed(trash[e].doc)
    BY DEF Typed, TypeOK, Located, Placed, EntryTells, Known
  <2>3. /\ l \in CallState /\ l.pc = "object" /\ l.entry = e /\ l.doc = trash[e].doc
        /\ l.entries = call[c].entries \ {e} /\ l.op = call[c].op
    BY <2>2 DEF CallState, Pc, Filed, Known
  <2>4. call' = [call EXCEPT ![c] = l]
    BY <2>1
  <2> HIDE DEF l
  <2>5. call'[c] = l
    BY <2>4 DEF Typed, TypeOK
  <2>6. call[c].op = "purgeTrash"
    BY <2>2 DEF PurgeNext, Placed
  <2>7. Placed(c)'
    BY <1>1, <2>2, <2>3, <2>5, <2>6 DEF Placed, Known, Filed
  <2>8. QED
    BY <1>1, <2>3, <2>4, <2>7, QuietTyped DEF Typed, TypeOK
<1>4. QED
  BY <1>2, <1>3

LEMMA ScanNextTyped ==
    ASSUME Typed, NEW c \in Calls, ScanNext(c)
    PROVE  Typed'
<1>1. /\ UNCHANGED <<today, bucket, copies, trash, sig>> /\ call[c].pc = "scanning"
      /\ call[c] \in CallState /\ Placed(c)
  BY DEF ScanNext, Typed, TypeOK, Located
<1>2. CASE Answer(c) /\ UNCHANGED doc
  BY <1>1, <1>2, Answers, QuietTyped DEF Typed, TypeOK
<1>3. CASE ~(Answer(c) /\ UNCHANGED doc)
  <2>1. PICK row \in call[c].docs :
           /\ SetStatus(row[1], Flag(row[2], call[c].date))
           /\ Become(c, [call[c] EXCEPT !.docs = @ \ {row}])
    BY <1>3 DEF ScanNext
  <2> DEFINE l == [call[c] EXCEPT !.docs = @ \ {row}]
  <2>2. row[1] \in Docs /\ Flag(row[2], call[c].date) \in DocStatus \ {"none"}
    BY <1>1 DEF CallState, Flag, DocStatus
  <2>3. doc' \in [Docs -> DocRow] /\ \A x \in Docs : Filed(x) => Filed(x)'
    BY <2>1, <2>2, StatusSet
  <2>4. Grows /\ EntryTells'
    BY <1>1, <2>3 DEF Typed, TypeOK, EntryTells, Grows, Known, Filed, TrashRow
  <2>5. l \in CallState /\ l.pc = "scanning" /\ l.entries = call[c].entries
    BY <1>1 DEF CallState
  <2>6. call' = [call EXCEPT ![c] = l]
    BY <2>1 DEF Become
  <2> HIDE DEF l
  <2>7. call'[c] = l
    BY <2>6 DEF Typed, TypeOK
  <2>8. Placed(c)'
    BY <1>1, <2>5, <2>7 DEF Placed, Known
  <2>9. QED
    BY <1>1, <2>3, <2>4, <2>5, <2>6, <2>8, WriteTyped DEF Typed, TypeOK
<1>4. QED
  BY <1>2, <1>3

LEMMA SignTyped ==
    ASSUME Typed, NEW c \in Calls,
           AskNext(c) \/ FindSource(c) \/ CopyObject(c) \/ MarkSigned(c)
    PROVE  Typed'
<1>1. /\ UNCHANGED <<today, doc, bucket, trash>> /\ call[c] \in CallState /\ Placed(c)
  BY DEF AskNext, FindSource, CopyObject, MarkSigned, Typed, TypeOK, Located
<1>2. copies' \subseteq Docs /\ sig' \in [Signatures -> SigRow]
  <2>1. CASE AskNext(c)
    <3>1. CASE UNCHANGED sig
      BY <2>1, <3>1 DEF AskNext, Typed, TypeOK
    <3>2. ASSUME NEW s \in call[c].sigs,
                 sig' = [sig EXCEPT ![s] = [status |-> "requested", doc |-> call[c].doc]]
          PROVE  sig' \in [Signatures -> SigRow]
      <4>1. [status |-> "requested", doc |-> call[c].doc] \in SigRow
        BY <1>1 DEF SigRow, CallState
      <4>2. QED
        BY <3>2, <4>1 DEF Typed, TypeOK
    <3>3. QED
      BY <2>1, <3>1, <3>2 DEF AskNext, Typed, TypeOK
  <2>2. CASE FindSource(c) \/ CopyObject(c)
    BY <2>2 DEF FindSource, CopyObject, Typed, TypeOK
  <2>3. CASE MarkSigned(c)
    BY <1>1, <2>3 DEF MarkSigned, Typed, TypeOK, SigRow, Placed
  <2>4. QED
    BY <2>1, <2>2, <2>3
<1>3. \E l \in CallState : call' = [call EXCEPT ![c] = l] /\ Placed(c)'
  <2>1. CASE Answer(c)
    BY <2>1, Answers
  <2>2. CASE \E s \in call[c].sigs : AskNext(c) /\ Become(c, [call[c] EXCEPT !.sigs = @ \ {s}])
    <3>1. PICK s \in call[c].sigs : Become(c, [call[c] EXCEPT !.sigs = @ \ {s}])
      BY <2>2
    <3> DEFINE l == [call[c] EXCEPT !.sigs = @ \ {s}]
    <3>2. l \in CallState /\ l.pc = "asking" /\ l.entries = call[c].entries
      BY <1>1, <2>2 DEF CallState, AskNext
    <3>3. call' = [call EXCEPT ![c] = l]
      BY <3>1 DEF Become
    <3> HIDE DEF l
    <3>4. call'[c] = l
      BY <3>3 DEF Typed, TypeOK
    <3>5. Placed(c)'
      BY <1>1, <3>2, <3>4 DEF Placed, Known
    <3>6. QED
      BY <3>2, <3>3, <3>5
  <2>3. CASE FindSource(c) \/ CopyObject(c)
    <3>1. PICK at \in {"copy", "signed"} : Goto(c, at) /\ at \in Pc
      BY <2>3 DEF FindSource, CopyObject, Pc
    <3>2. call[c].pc \in {"source", "copy"}
      BY <2>3 DEF FindSource, CopyObject
    <3>3. Placed(c)'
      BY <1>1, <3>1, <3>2, GoesOn DEF Placed, Known
    <3>4. QED
      BY <3>1, <3>3, GoesOn
  <2>4. QED
    BY <2>1, <2>2, <2>3 DEF AskNext, MarkSigned
<1>4. QED
  BY <1>1, <1>2, <1>3, QuietTyped

\* What dies keeps nothing but the name of its operation.
LEMMA Dies ==
    ASSUME Typed, NEW c \in Calls, Crash(c)
    PROVE  /\ \E l \in CallState : call' = [call EXCEPT ![c] = l]
           /\ call'[c].pc = "dead" /\ call'[c].op = call[c].op /\ Placed(c)'
           /\ \A x \in Calls : x # c => call'[x] = call[x]
<1> DEFINE l == [Idle EXCEPT !.pc = "dead", !.op = call[c].op]
<1>1. l \in CallState /\ l.pc = "dead" /\ l.op = call[c].op /\ l.entries = {}
  BY IdleTyped, DocumentsAssumption DEF Typed, TypeOK, CallState, Idle, Pc
<1>2. call' = [call EXCEPT ![c] = l]
  BY DEF Crash, Become
<1> HIDE DEF l
<1>3. /\ call'[c] = l /\ \A x \in Calls : x # c => call'[x] = call[x]
  BY <1>2 DEF Typed, TypeOK
<1>4. QED
  BY <1>1, <1>2, <1>3 DEF Placed

LEMMA CrashTyped ==
    ASSUME Typed, NEW c \in Calls, Crash(c)
    PROVE  Typed'
BY Dies, QuietTyped DEF Crash, Typed, TypeOK

LEMMA TypedStep == Typed /\ [Next]_vars => Typed'
<1> SUFFICES ASSUME Typed, [Next]_vars PROVE Typed'
  OBVIOUS
<1>1. CASE \E d \in Docs, due \in Due : CreateDocument(d, due) \/ UpdateDue(d, due)
  BY <1>1, CreateTyped
<1>2. ASSUME NEW c \in Calls,
             \/ \E d \in Docs : FindForDelete(c, d)
             \/ \E d \in Docs, signers \in SUBSET Signatures : FindForRequest(c, d, signers)
             \/ \E e \in Entries, op \in {"restore", "purge"} : FindEntry(c, op, e)
             \/ \E s \in Signatures : FindSignature(c, s)
             \/ BeginPurge(c)
             \/ BeginScan(c)
      PROVE  Typed'
  BY <1>2, BeginTyped
<1>3. ASSUME NEW c \in Calls, Proceed(c) PROVE Typed'
  BY <1>3, AddTyped, StatusTyped, RemoveTyped, DropTyped, PurgeNextTyped, ScanNextTyped, SignTyped
  DEF Proceed
<1>4. ASSUME NEW c \in Calls, Crash(c) PROVE Typed'
  BY <1>4, CrashTyped
<1>5. CASE Tick
  <2>1. today' \in Day /\ UNCHANGED <<doc, bucket, copies, trash, sig, call>>
    BY <1>5, DocumentsAssumption DEF Tick, Typed, TypeOK, Day, DocumentsAssumption
  <2>2. QED
    BY <2>1 DEF Typed, TypeOK, Located, Placed, EntryTells, Known, Filed
<1>6. CASE UNCHANGED vars
  BY <1>6 DEF vars, Typed, TypeOK, Located, Placed, EntryTells, Known, Filed
<1>7. QED
  BY <1>1, <1>2, <1>3, <1>4, <1>5, <1>6 DEF Next

\* Every variable keeps its type, however calls overlap and die.
THEOREM TypeCorrect == Spec => []TypeOK
<1>1. Typed => TypeOK
  BY DEF Typed
<1>2. QED
  BY TypedInit, TypedStep, <1>1, PTL DEF Spec

-----------------------------------------------------------------------------
(* Where calls come one at a time and delete what the lists show *)

OneRuns == \A c, d \in Calls : Running(c) /\ Running(d) => c = d

\* What a call has found stays as it was until the call is through.
Holding(c) ==
    /\ call[c].pc = "entry" => Live(call[c].doc)
    /\ call[c].pc = "mark" => \E e \in Entries : InTrash(e) /\ trash[e].doc = call[c].doc
    /\ call[c].pc \in {"revive", "object", "row", "drop"} =>
         InTrash(call[c].entry) /\ trash[call[c].entry].doc = call[c].doc
    /\ call[c].pc = "drop" => /\ doc[call[c].doc].status # "trashed"
                              /\ call[c].op # "restore" => ~Exists(call[c].doc)
    /\ call[c].pc \in {"revive", "purging", "object", "row", "drop"} =>
         \A e \in call[c].entries : InTrash(e)
    /\ call[c].pc \in {"revive", "object", "row", "drop"} => call[c].entry \notin call[c].entries
    /\ call[c].pc = "scanning" => \A row \in call[c].docs : Live(row[1])
CallsHold == \A c \in Calls : Holding(c)

TrashedHasEntry ==
    \A d \in Docs : doc[d].status = "trashed" => \E e \in Entries : InTrash(e) /\ trash[e].doc = d

\* While no delete or restore died, a document has one entry, and while it has it the
\* document is not live, but for the call that is between the two.
Whole == ~Died({"delete", "restore"})
OneEntry ==
    Whole => \A e, f \in Entries : InTrash(e) /\ InTrash(f) /\ trash[e].doc = trash[f].doc => e = f
Between(c, e) == \/ call[c].pc = "mark" /\ call[c].doc = trash[e].doc
                 \/ call[c].pc = "drop" /\ call[c].entry = e /\ call[c].op = "restore"
EntryNotLive ==
    Whole => \A e \in Entries : InTrash(e) /\ Live(trash[e].doc) => \E c \in Calls : Between(c, e)

\* While no purge died either, the object goes only with the row.
Kept == ~Died({"delete", "restore", "purge", "purgeTrash"})
HasObject ==
    Kept => \A d \in Docs : Exists(d) =>
        d \in bucket \/ \E c \in Calls : call[c].pc = "row" /\ call[c].doc = d

Safe == /\ Typed /\ OneRuns /\ CallsHold
        /\ TrashedHasEntry /\ OneEntry /\ EntryNotLive /\ HasObject

StepOf(c) == \E l : call' = [call EXCEPT ![c] = l]
Moves(c) == (Running(c) \/ Begin(c)) /\ StepOf(c)

LEMMA SafeInit == Init => Safe
<1> SUFFICES ASSUME Init PROVE Safe
  OBVIOUS
<1>1. /\ OneRuns /\ CallsHold /\ TrashedHasEntry /\ OneEntry /\ EntryNotLive /\ HasObject
  BY DEF Init, OneRuns, Running, CallsHold, Holding, TrashedHasEntry, OneEntry, EntryNotLive,
         HasObject, Idle, InTrash, Exists, Live
<1>2. QED
  BY <1>1, TypedInit DEF Safe

\* While a call moves the others stand still.
LEMMA Alone ==
    ASSUME Exclusive, Safe, NEW c \in Calls, Moves(c)
    PROVE  /\ \A x \in Calls : x # c => call[x].pc \in {"idle", "dead"} /\ call'[x] = call[x]
           /\ call[c].pc # "dead"
<1>1. /\ \A x \in Calls : x # c => call'[x] = call[x]
      /\ call[c].pc # "dead"
  BY DEF Moves, StepOf, Safe, Typed, TypeOK, Running, Begin
<1>2. ASSUME NEW x \in Calls, x # c PROVE ~Running(x)
  BY <1>2 DEF Moves, Safe, OneRuns, Begin, Turn
<1>3. QED
  BY <1>1, <1>2 DEF Running

LEMMA CallSafe ==
    ASSUME Exclusive, Safe, NEW c \in Calls, Moves(c), Holding(c)'
    PROVE  OneRuns' /\ CallsHold' /\ (Whole' => Whole) /\ (Kept' => Kept)
<1>1. /\ \A x \in Calls : x # c => call[x].pc \in {"idle", "dead"} /\ call'[x] = call[x]
      /\ call[c].pc # "dead"
  BY Alone
<1>2. OneRuns'
  BY <1>1 DEF OneRuns, Running
<1>3. ASSUME NEW x \in Calls, x # c PROVE Holding(x)'
  BY <1>1, <1>3 DEF Holding
<1>4. (Whole' => Whole) /\ (Kept' => Kept)
  BY <1>1 DEF Whole, Kept, Died
<1>5. QED
  BY <1>2, <1>3, <1>4 DEF CallsHold

\* Steps that leave documents, trash and bucket as they are.
LEMMA QuietSafe ==
    ASSUME Exclusive, Safe, Typed', NEW c \in Calls, Moves(c), Holding(c)',
           call[c].pc \notin {"mark", "drop", "row"}, UNCHANGED <<doc, bucket, trash>>
    PROVE  Safe'
<1>1. OneRuns' /\ CallsHold' /\ (Whole' => Whole) /\ (Kept' => Kept)
  BY CallSafe
<1>2. \A x \in Calls : x # c => call[x].pc \in {"idle", "dead"} /\ call'[x] = call[x]
  BY Alone
<1>3. TrashedHasEntry' /\ OneEntry'
  BY <1>1 DEF Safe, TrashedHasEntry, OneEntry, InTrash
<1>4. EntryNotLive'
  BY <1>1, <1>2 DEF Safe, EntryNotLive, InTrash, Live, Exists, Between
<1>5. HasObject'
  BY <1>1, <1>2 DEF Safe, HasObject, Exists
<1>6. QED
  BY <1>1, <1>3, <1>4, <1>5 DEF Safe

LEMMA BeginSafe ==
    ASSUME Exclusive, FromList, Safe, Typed', NEW c \in Calls,
           \/ \E d \in Docs : FindForDelete(c, d)
           \/ \E d \in Docs, signers \in SUBSET Signatures : FindForRequest(c, d, signers)
           \/ \E e \in Entries, op \in {"restore", "purge"} : FindEntry(c, op, e)
           \/ \E s \in Signatures : FindSignature(c, s)
           \/ BeginPurge(c)
           \/ BeginScan(c)
    PROVE  Safe'
<1>1. /\ Begin(c) /\ call[c].pc = "idle" /\ StepOf(c) /\ UNCHANGED <<doc, bucket, trash>>
  BY DEF FindForDelete, FindForRequest, FindEntry, FindSignature, BeginPurge, BeginScan,
         Become, StepOf, Begin
<1>2. \A l : Become(c, l) => call'[c] = l
  BY DEF Become, Safe, Typed, TypeOK
<1>3. Holding(c)'
  <2>1. ASSUME NEW d \in Docs, FindForDelete(c, d) PROVE Holding(c)'
    <3>1. call'[c].pc = "entry" /\ call'[c].doc = d /\ Live(d)
      BY <1>2, <2>1 DEF FindForDelete, Idle
    <3>2. QED
      BY <1>1, <3>1 DEF Holding, Live, Exists
  <2>2. ASSUME NEW e \in Entries, NEW op \in {"restore", "purge"}, FindEntry(c, op, e)
        PROVE  Holding(c)'
    <3>0. call'[c] = [Idle EXCEPT !.pc = IF op = "restore" THEN "revive" ELSE "object",
                                  !.op = op, !.entry = e, !.doc = trash[e].doc]
      BY <1>2, <2>2 DEF FindEntry
    <3>1. /\ call'[c].pc \in {"revive", "object"} /\ call'[c].entry = e
          /\ call'[c].doc = trash[e].doc /\ call'[c].entries = {} /\ InTrash(e)
      BY <2>2, <3>0 DEF FindEntry, Idle
    <3>2. QED
      BY <1>1, <3>1 DEF Holding, InTrash
  <2>3. CASE BeginPurge(c)
    <3>0. PICK listed \in Listings(Purgeable) : call'[c].pc = "purging" /\ call'[c].entries = listed
      BY <1>2, <2>3 DEF BeginPurge, Idle
    <3>1. call'[c].pc = "purging" /\ call'[c].entries \subseteq Purgeable
      BY <3>0 DEF Listings
    <3>2. QED
      BY <1>1, <3>1 DEF Holding, InTrash, Purgeable
  <2>4. CASE BeginScan(c)
    <3>1. PICK listed \in Listings(ExpiringBefore(today + Window)) :
             call'[c].pc = "scanning" /\ call'[c].docs = {<<d, doc[d].due>> : d \in listed}
      BY <1>2, <2>4 DEF BeginScan, Idle
    <3>2. \A row \in call'[c].docs : Live(row[1])
      BY <3>1 DEF Listings, ExpiringBefore, Live, Exists
    <3>3. QED
      BY <1>1, <3>1, <3>2 DEF Holding, Live, Exists
  <2>5. ASSUME NEW d \in Docs, NEW signers \in SUBSET Signatures, FindForRequest(c, d, signers)
        PROVE  Holding(c)'
    <3>1. call'[c].pc = "asking"
      BY <1>2, <2>5 DEF FindForRequest, Idle
    <3>2. QED
      BY <3>1 DEF Holding
  <2>6. ASSUME NEW s \in Signatures, FindSignature(c, s) PROVE Holding(c)'
    <3>1. call'[c].pc = "source"
      BY <1>2, <2>6 DEF FindSignature, Idle
    <3>2. QED
      BY <3>1 DEF Holding
  <2>7. QED
    BY <2>1, <2>2, <2>3, <2>4, <2>5, <2>6
<1>4. QED
  BY <1>1, <1>3, QuietSafe DEF Moves

-----------------------------------------------------------------------------
(* The steps that write documents, trash or bucket *)

LEMMA AddSafe ==
    ASSUME Exclusive, Safe, Typed', NEW c \in Calls, NEW e \in Entries, AddEntry(c, e)
    PROVE  Safe'
<1>1. /\ call[c].pc = "entry" /\ Goto(c, "mark") /\ "mark" \in Pc /\ trash[e].state = "none"
      /\ UNCHANGED <<doc, bucket>> /\ Moves(c) /\ Live(call[c].doc) /\ Typed
  BY DEF AddEntry, Goto, Moves, StepOf, Running, Pc, Safe, CallsHold, Holding
<1>2. /\ trash'[e].state = "present" /\ trash'[e].doc = call[c].doc
      /\ \A f \in Entries : f # e => trash'[f] = trash[f]
  BY DEF AddEntry, Safe, Typed, TypeOK
<1>3. call'[c].pc = "mark" /\ call'[c].doc = call[c].doc
  BY <1>1, GoesOn
<1>4. \A f \in Entries : InTrash(f) => f # e /\ InTrash(f)'
  BY <1>1, <1>2 DEF InTrash
<1>5. Holding(c)'
  BY <1>2, <1>3 DEF Holding, InTrash
<1>6. OneRuns' /\ CallsHold' /\ (Whole' => Whole) /\ (Kept' => Kept)
  BY <1>1, <1>5, CallSafe
<1>7. \A x \in Calls : x # c => call[x].pc \in {"idle", "dead"} /\ call'[x] = call[x]
  BY <1>1, Alone
<1>8. Whole => \A f \in Entries : InTrash(f) => ~Live(trash[f].doc)
  BY <1>1, <1>7 DEF Safe, EntryNotLive, Between
<1>9. TrashedHasEntry'
  BY <1>1, <1>2, <1>4 DEF Safe, TrashedHasEntry
<1>10. OneEntry'
  BY <1>1, <1>2, <1>4, <1>6, <1>8 DEF Safe, OneEntry, InTrash
<1>11. EntryNotLive'
  BY <1>1, <1>2, <1>3, <1>6, <1>8 DEF EntryNotLive, Between, InTrash, Live, Exists
<1>12. HasObject'
  BY <1>1, <1>6, <1>7 DEF Safe, HasObject, Exists
<1>13. QED
  BY <1>6, <1>9, <1>10, <1>11, <1>12 DEF Safe

LEMMA MarkSafe ==
    ASSUME Exclusive, Safe, Typed', NEW c \in Calls, MarkTrashed(c)
    PROVE  Safe'
<1> DEFINE d == call[c].doc
<1>1. /\ call[c].pc = "mark" /\ Answer(c) /\ SetStatus(d, "trashed") /\ Moves(c)
      /\ UNCHANGED <<bucket, trash>> /\ d \in Docs /\ Typed /\ Holding(c)
  BY DEF MarkTrashed, Answer, Become, Moves, StepOf, Running, Safe, Typed, Located, Placed, Filed,
         CallsHold
<1>2. /\ \A x \in Docs : x # d => doc'[x] = doc[x]
      /\ doc'[d].status = IF Exists(d) THEN "trashed" ELSE doc[d].status
  BY <1>1, StatusSet DEF DocStatus
<1>3. call'[c].pc = "idle"
  BY <1>1, Answers
<1>4. Holding(c)'
  BY <1>3 DEF Holding
<1>5. OneRuns' /\ CallsHold' /\ (Whole' => Whole) /\ (Kept' => Kept)
  BY <1>1, <1>4, CallSafe
<1>6. \A x \in Calls : x # c => call[x].pc \in {"idle", "dead"} /\ call'[x] = call[x]
  BY <1>1, Alone
<1>7. TrashedHasEntry'
  BY <1>1, <1>2 DEF Safe, TrashedHasEntry, Holding, InTrash
<1>8. OneEntry'
  BY <1>1, <1>5 DEF Safe, OneEntry, InTrash
<1>9. EntryNotLive'
  <2>1. SUFFICES ASSUME Whole', NEW e \in Entries, InTrash(e)', Live(trash[e].doc)' PROVE FALSE
    BY DEF EntryNotLive
  <2>2. InTrash(e) /\ Filed(trash[e].doc) /\ trash'[e].doc = trash[e].doc
    BY <1>1, <2>1 DEF InTrash, Typed, EntryTells, Known
  <2>3. trash[e].doc # d /\ Live(trash[e].doc)
    BY <1>2, <2>1, <2>2 DEF Live, Exists, Filed
  <2>4. QED
    BY <1>1, <1>5, <1>6, <2>1, <2>2, <2>3 DEF Safe, EntryNotLive, Between
<1>10. HasObject'
  BY <1>1, <1>2, <1>5, <1>6 DEF Safe, HasObject, Exists
<1>11. QED
  BY <1>5, <1>7, <1>8, <1>9, <1>10 DEF Safe

LEMMA ReviveSafe ==
    ASSUME Exclusive, Safe, Typed', NEW c \in Calls, Revive(c)
    PROVE  Safe'
<1> DEFINE d == call[c].doc
<1>1. /\ call[c].pc = "revive" /\ Goto(c, "drop") /\ "drop" \in Pc /\ SetStatus(d, "active")
      /\ Moves(c) /\ UNCHANGED <<bucket, trash>> /\ d \in Docs /\ Typed /\ Holding(c)
      /\ call[c].op = "restore" /\ Known(call[c].entry)
  BY DEF Revive, Goto, Pc, Moves, StepOf, Running, Safe, Typed, Located, Placed, Filed, CallsHold
<1>2. /\ \A x \in Docs : x # d => doc'[x] = doc[x]
      /\ doc'[d].status = IF Exists(d) THEN "active" ELSE doc[d].status
  BY <1>1, StatusSet DEF DocStatus
<1>3. /\ call'[c].pc = "drop" /\ call'[c].doc = d /\ call'[c].op = "restore"
      /\ call'[c].entry = call[c].entry /\ call'[c].entries = call[c].entries
  BY <1>1, GoesOn
<1>4. InTrash(call[c].entry) /\ trash[call[c].entry].doc = d
  BY <1>1 DEF Holding
<1>5. doc'[d].status # "trashed"
  BY <1>2 DEF Exists
<1>6. call[c].entry \notin call[c].entries /\ \A e \in call[c].entries : InTrash(e)
  BY <1>1 DEF Holding
<1>7. Holding(c)'
  BY <1>1, <1>3, <1>4, <1>5, <1>6 DEF Holding, InTrash
<1>8. OneRuns' /\ CallsHold' /\ (Whole' => Whole) /\ (Kept' => Kept)
  BY <1>1, <1>7, CallSafe
<1>9. \A x \in Calls : x # c => call[x].pc \in {"idle", "dead"} /\ call'[x] = call[x]
  BY <1>1, Alone
<1>10. TrashedHasEntry'
  BY <1>1, <1>2, <1>5 DEF Safe, TrashedHasEntry, InTrash
<1>11. OneEntry'
  BY <1>1, <1>8 DEF Safe, OneEntry, InTrash
<1>12. EntryNotLive'
  <2>1. SUFFICES ASSUME Whole', NEW e \in Entries, InTrash(e)', Live(trash[e].doc)'
                 PROVE  Between(c, e)'
    BY DEF EntryNotLive
  <2>2. Whole /\ InTrash(e) /\ Filed(trash[e].doc) /\ trash'[e].doc = trash[e].doc
    BY <1>1, <1>8, <2>1 DEF InTrash, Typed, EntryTells, Known
  <2>3. trash[e].doc # d => Live(trash[e].doc)
    BY <1>2, <2>1, <2>2 DEF Live, Exists, Filed
  <2>4. ~Live(trash[e].doc)
    BY <1>1, <1>9, <2>2 DEF Safe, EntryNotLive, Between
  <2>5. trash[e].doc = d
    BY <2>3, <2>4
  <2>6. e = call[c].entry
    BY <1>1, <1>4, <2>2, <2>5 DEF Safe, OneEntry, Known
  <2>7. QED
    BY <1>3, <2>6 DEF Between
<1>13. HasObject'
  BY <1>1, <1>2, <1>8, <1>9 DEF Safe, HasObject, Exists
<1>14. QED
  BY <1>8, <1>10, <1>11, <1>12, <1>13 DEF Safe

LEMMA RemoveSafe ==
    ASSUME Exclusive, Safe, Typed', NEW c \in Calls, RemoveObject(c)
    PROVE  Safe'
<1>1. /\ call[c].pc = "object" /\ Goto(c, "row") /\ "row" \in Pc /\ Moves(c) /\ Typed /\ Holding(c)
      /\ UNCHANGED <<doc, trash>> /\ bucket \ {call[c].doc} \subseteq bucket'
  BY DEF RemoveObject, Goto, Pc, Moves, StepOf, Running, Safe, CallsHold
<1>2. /\ call'[c].pc = "row" /\ call'[c].doc = call[c].doc
      /\ call'[c].entry = call[c].entry /\ call'[c].entries = call[c].entries
  BY <1>1, GoesOn
<1>3. Holding(c)'
  BY <1>1, <1>2 DEF Holding, InTrash
<1>4. OneRuns' /\ CallsHold' /\ (Whole' => Whole) /\ (Kept' => Kept)
  BY <1>1, <1>3, CallSafe
<1>5. \A x \in Calls : x # c => call[x].pc \in {"idle", "dead"} /\ call'[x] = call[x]
  BY <1>1, Alone
<1>6. TrashedHasEntry' /\ OneEntry'
  BY <1>1, <1>4 DEF Safe, TrashedHasEntry, OneEntry, InTrash
<1>7. EntryNotLive'
  BY <1>1, <1>4, <1>5 DEF Safe, EntryNotLive, Between, InTrash, Live, Exists
<1>8. HasObject'
  <2>1. SUFFICES ASSUME Kept', NEW d \in Docs, Exists(d)', d \notin bucket'
                 PROVE  call'[c].doc = d
    BY <1>2 DEF HasObject
  <2>2. Kept /\ Exists(d)
    BY <1>1, <1>4, <2>1 DEF Exists
  <2>3. d \in bucket
    BY <1>1, <1>5, <2>2 DEF Safe, HasObject
  <2>4. QED
    BY <1>1, <1>2, <2>1, <2>3
<1>9. QED
  BY <1>4, <1>6, <1>7, <1>8 DEF Safe

LEMMA HardDeleteSafe ==
    ASSUME Exclusive, Safe, Typed', NEW c \in Calls, HardDelete(c)
    PROVE  Safe'
<1> DEFINE d == call[c].doc
<1>1. /\ call[c].pc = "row" /\ Goto(c, "drop") /\ "drop" \in Pc /\ SetStatus(d, "gone")
      /\ Moves(c) /\ UNCHANGED <<bucket, trash>> /\ d \in Docs /\ Typed /\ Holding(c)
  BY DEF HardDelete, Goto, Pc, Moves, StepOf, Running, Safe, Typed, Located, Placed, Filed, CallsHold
<1>2. /\ \A x \in Docs : x # d => doc'[x] = doc[x]
      /\ doc'[d].status = IF Exists(d) THEN "gone" ELSE doc[d].status
  BY <1>1, StatusSet DEF DocStatus
<1>3. /\ call'[c].pc = "drop" /\ call'[c].doc = d
      /\ call'[c].entry = call[c].entry /\ call'[c].entries = call[c].entries
  BY <1>1, GoesOn
<1>4. doc'[d].status \in {"none", "gone"}
  BY <1>2 DEF Exists
<1>5. Holding(c)'
  BY <1>1, <1>3, <1>4 DEF Holding, InTrash, Exists
<1>6. OneRuns' /\ CallsHold' /\ (Whole' => Whole) /\ (Kept' => Kept)
  BY <1>1, <1>5, CallSafe
<1>7. \A x \in Calls : x # c => call[x].pc \in {"idle", "dead"} /\ call'[x] = call[x]
  BY <1>1, Alone
<1>8. TrashedHasEntry'
  BY <1>1, <1>2, <1>4 DEF Safe, TrashedHasEntry, InTrash, Exists
<1>9. OneEntry'
  BY <1>1, <1>6 DEF Safe, OneEntry, InTrash
<1>10. EntryNotLive'
  <2>1. SUFFICES ASSUME Whole', NEW e \in Entries, InTrash(e)', Live(trash[e].doc)' PROVE FALSE
    BY DEF EntryNotLive
  <2>2. Whole /\ InTrash(e) /\ Filed(trash[e].doc) /\ trash'[e].doc = trash[e].doc
    BY <1>1, <1>6, <2>1 DEF InTrash, Typed, EntryTells, Known
  <2>3. trash[e].doc # d /\ Live(trash[e].doc)
    BY <1>2, <1>4, <2>1, <2>2 DEF Live, Exists, Filed
  <2>4. QED
    BY <1>1, <1>7, <2>2, <2>3 DEF Safe, EntryNotLive, Between
<1>11. HasObject'
  BY <1>1, <1>2, <1>4, <1>6, <1>7 DEF Safe, HasObject, Exists
<1>12. QED
  BY <1>6, <1>8, <1>9, <1>10, <1>11 DEF Safe

LEMMA DropSafe ==
    ASSUME Exclusive, Safe, Typed', NEW c \in Calls, DropEntry(c)
    PROVE  Safe'
<1> DEFINE g == call[c].entry
<1>1. /\ call[c].pc = "drop" /\ Moves(c) /\ UNCHANGED <<doc, bucket>> /\ Typed /\ Holding(c)
      /\ Known(g) /\ g \in Entries /\ call[c].entries \subseteq Entries
  BY DEF DropEntry, Answer, Become, Goto, Moves, StepOf, Running, Safe, CallsHold, Typed, TypeOK,
         Located, Placed, Known, CallState
<1>2. /\ trash'[g].state = "gone" /\ \A f \in Entries : f # g => trash'[f] = trash[f]
  BY <1>1 DEF DropEntry, Typed, TypeOK
<1>3. \A f \in Entries : InTrash(f)' <=> f # g /\ InTrash(f)
  BY <1>2 DEF InTrash
<1>4. Holding(c)'
  <2>1. CASE call[c].op = "purgeTrash"
    <3>1. Goto(c, "purging") /\ "purging" \in Pc
      BY <2>1 DEF DropEntry, Pc
    <3>2. call'[c].pc = "purging" /\ call'[c].entries = call[c].entries
      BY <1>1, <3>1, GoesOn
    <3>3. QED
      BY <1>1, <1>3, <3>2 DEF Holding
  <2>2. CASE call[c].op # "purgeTrash"
    <3>1. call'[c].pc = "idle"
      BY <1>1, <2>2, Answers DEF DropEntry
    <3>2. QED
      BY <3>1 DEF Holding
  <2>3. QED
    BY <2>1, <2>2
<1>5. OneRuns' /\ CallsHold' /\ (Whole' => Whole) /\ (Kept' => Kept)
  BY <1>1, <1>4, CallSafe
<1>6. \A x \in Calls : x # c => call[x].pc \in {"idle", "dead"} /\ call'[x] = call[x]
  BY <1>1, Alone
<1>7. trash[g].doc = call[c].doc /\ doc[call[c].doc].status # "trashed"
  BY <1>1 DEF Holding
<1>8. TrashedHasEntry'
  BY <1>1, <1>2, <1>3, <1>7 DEF Safe, TrashedHasEntry
<1>9. OneEntry'
  BY <1>2, <1>3, <1>5 DEF Safe, OneEntry
<1>10. EntryNotLive'
  <2>1. SUFFICES ASSUME Whole', NEW e \in Entries, InTrash(e)', Live(trash[e].doc)' PROVE FALSE
    BY DEF EntryNotLive
  <2>2. e # g /\ InTrash(e) /\ Live(trash[e].doc)
    BY <1>1, <1>2, <1>3, <2>1 DEF Live, Exists
  <2>3. QED
    BY <1>1, <1>5, <1>6, <2>1, <2>2 DEF Safe, EntryNotLive, Between
<1>11. HasObject'
  BY <1>1, <1>5, <1>6 DEF Safe, HasObject, Exists
<1>12. QED
  BY <1>5, <1>8, <1>9, <1>10, <1>11 DEF Safe

LEMMA PurgeNextSafe ==
    ASSUME Exclusive, Safe, Typed', NEW c \in Calls, PurgeNext(c)
    PROVE  Safe'
<1>1. /\ call[c].pc = "purging" /\ Moves(c) /\ UNCHANGED <<doc, bucket, trash>> /\ Typed /\ Holding(c)
  BY DEF PurgeNext, Answer, Become, Moves, StepOf, Running, Safe, CallsHold
<1>2. Holding(c)'
  <2>1. CASE Answer(c)
    BY <1>1, <2>1, Answers DEF Holding
  <2>2. ASSUME NEW e \in call[c].entries,
               Become(c, [call[c] EXCEPT !.pc = "object", !.entry = e, !.doc = trash[e].doc,
                                         !.entries = @ \ {e}])
        PROVE  Holding(c)'
    <3>1. /\ call'[c].pc = "object" /\ call'[c].entry = e /\ call'[c].doc = trash[e].doc
          /\ call'[c].entries = call[c].entries \ {e}
      BY <2>2 DEF Become, Safe, Typed, TypeOK, CallState
    <3>2. QED
      BY <1>1, <3>1 DEF Holding, InTrash
  <2>3. QED
    BY <2>1, <2>2 DEF PurgeNext
<1>3. QED
  BY <1>1, <1>2, QuietSafe

LEMMA ScanNextSafe ==
    ASSUME Exclusive, Safe, Typed', NEW c \in Calls, ScanNext(c)
    PROVE  Safe'
<1>1. /\ call[c].pc = "scanning" /\ Moves(c) /\ UNCHANGED <<bucket, trash>> /\ Typed /\ Holding(c)
      /\ call[c] \in CallState
  BY DEF ScanNext, Answer, Become, Moves, StepOf, Running, Safe, CallsHold, Typed, TypeOK
<1>2. CASE Answer(c) /\ UNCHANGED doc
  <2>1. Holding(c)'
    BY <1>1, <1>2, Answers DEF Holding
  <2>2. QED
    BY <1>1, <1>2, <2>1, QuietSafe
<1>3. ASSUME NEW row \in call[c].docs,
             SetStatus(row[1], Flag(row[2], call[c].date)),
             Become(c, [call[c] EXCEPT !.docs = @ \ {row}])
      PROVE  Safe'
  <2> DEFINE d == row[1]
             s == Flag(row[2], call[c].date)
  <2>1. d \in Docs /\ s \in {"expired", "expiring"} /\ s \in DocStatus /\ Live(d)
    BY <1>1 DEF CallState, Flag, DocStatus, Holding
  <2> HIDE DEF s
  <2>2. (\A x \in Docs : x # d => doc'[x] = doc[x]) /\ doc'[d].status = s
    BY <1>1, <1>3, <2>1, StatusSet DEF s, Live
  <2>3. \A x \in Docs : /\ (Live(x)' <=> Live(x)) /\ (Exists(x)' <=> Exists(x))
                       /\ (doc'[x].status = "trashed" <=> doc[x].status = "trashed")
    BY <2>1, <2>2 DEF Live, Exists
  <2>4. call'[c].pc = "scanning" /\ call'[c].docs = call[c].docs \ {row}
    BY <1>1, <1>3 DEF Become, Typed, TypeOK, CallState
  <2>5. Holding(c)'
    BY <1>1, <2>3, <2>4 DEF Holding, CallState
  <2>6. OneRuns' /\ CallsHold' /\ (Whole' => Whole) /\ (Kept' => Kept)
    BY <1>1, <2>5, CallSafe
  <2>7. \A x \in Calls : x # c => call[x].pc \in {"idle", "dead"} /\ call'[x] = call[x]
    BY <1>1, Alone
  <2>8. TrashedHasEntry' /\ OneEntry'
    BY <1>1, <2>3, <2>6 DEF Safe, TrashedHasEntry, OneEntry, InTrash
  <2>9. EntryNotLive'
    BY <1>1, <2>3, <2>6, <2>7 DEF Safe, EntryNotLive, Between, InTrash, Typed, EntryTells, Known, Filed
  <2>10. HasObject'
    BY <1>1, <2>3, <2>6, <2>7 DEF Safe, HasObject
  <2>11. QED
    BY <2>6, <2>8, <2>9, <2>10 DEF Safe
<1>4. QED
  BY <1>1, <1>2, <1>3 DEF ScanNext

LEMMA SignSafe ==
    ASSUME Exclusive, Safe, Typed', NEW c \in Calls,
           AskNext(c) \/ FindSource(c) \/ CopyObject(c) \/ MarkSigned(c)
    PROVE  Safe'
<1>1. /\ call[c].pc \in {"asking", "source", "copy", "signed"}
      /\ Moves(c) /\ UNCHANGED <<doc, bucket, trash>> /\ Typed
  BY DEF AskNext, FindSource, CopyObject, MarkSigned, Answer, Become, Goto, Moves, StepOf, Running, Safe
<1>2. call'[c].pc \in {"idle", "asking", "copy", "signed"}
  <2>1. ASSUME NEW s \in call[c].sigs, Become(c, [call[c] EXCEPT !.sigs = @ \ {s}])
        PROVE  call'[c].pc = call[c].pc
    BY <2>1 DEF Become, Safe, Typed, TypeOK, CallState
  <2>2. CASE FindSource(c) \/ CopyObject(c)
    <3>1. \E at \in {"copy", "signed"} : Goto(c, at) /\ at \in Pc
      BY <2>2 DEF FindSource, CopyObject, Pc
    <3>2. QED
      BY <1>1, <3>1, GoesOn
  <2>3. QED
    BY <1>1, <2>1, <2>2, Answers DEF AskNext, MarkSigned
<1>3. Holding(c)'
  BY <1>2 DEF Holding
<1>4. QED
  BY <1>1, <1>3, QuietSafe

\* The steps outside the calls, and what dies.
LEMMA CreateSafe ==
    ASSUME Exclusive, Safe, Typed', NEW d \in Docs, NEW due \in Due,
           CreateDocument(d, due) \/ UpdateDue(d, due)
    PROVE  Safe'
<1>1. /\ \A x \in Calls : ~Running(x)
      /\ UNCHANGED <<trash, call>> /\ bucket \subseteq bucket' /\ Typed
  BY DEF CreateDocument, UpdateDue, Turn, Safe
<1>2. ASSUME NEW x \in Docs
      PROVE  \/ doc'[x].status = doc[x].status
             \/ doc[x].status = "none" /\ doc'[x].status = "active" /\ x \in bucket'
  <2>1. CASE CreateDocument(d, due)
    BY <2>1 DEF CreateDocument, Safe, Typed, TypeOK
  <2>2. CASE UpdateDue(d, due)
    BY <2>2 DEF UpdateDue, Safe, Typed, TypeOK, DocRow
  <2>3. QED
    BY <2>1, <2>2
<1>3. \A x \in Calls : call[x].pc \in {"idle", "dead"}
  BY <1>1 DEF Running
<1>4. OneRuns' /\ CallsHold' /\ (Whole' => Whole) /\ (Kept' => Kept)
  BY <1>1, <1>3 DEF OneRuns, Running, CallsHold, Holding, Whole, Kept, Died
<1>5. TrashedHasEntry' /\ OneEntry'
  BY <1>1, <1>2, <1>4 DEF Safe, TrashedHasEntry, OneEntry, InTrash
<1>6. EntryNotLive'
  <2>1. SUFFICES ASSUME Whole', NEW e \in Entries, InTrash(e)', Live(trash[e].doc)' PROVE FALSE
    BY DEF EntryNotLive
  <2>2. InTrash(e) /\ Filed(trash[e].doc) /\ trash'[e] = trash[e]
    BY <1>1, <2>1 DEF InTrash, Typed, EntryTells, Known
  <2>3. Live(trash[e].doc)
    BY <1>2, <2>1, <2>2 DEF Filed, Live, Exists
  <2>4. QED
    BY <1>3, <1>4, <2>1, <2>2, <2>3 DEF Safe, EntryNotLive, Between
<1>7. HasObject'
  BY <1>1, <1>2, <1>3, <1>4 DEF Safe, HasObject, Exists
<1>8. QED
  BY <1>4, <1>5, <1>6, <1>7 DEF Safe

LEMMA CrashSafe ==
    ASSUME Exclusive, Safe, Typed', NEW c \in Calls, Crash(c)
    PROVE  Safe'
<1>1. /\ Typed /\ Moves(c) /\ UNCHANGED <<doc, bucket, trash>> /\ Placed(c)
  BY DEF Crash, Become, Moves, StepOf, Safe, Typed, Located
<1>2. call'[c].pc = "dead" /\ call'[c].op = call[c].op
  BY <1>1, Dies
<1>3. Holding(c)'
  BY <1>2 DEF Holding
<1>4. OneRuns' /\ CallsHold' /\ (Whole' => Whole) /\ (Kept' => Kept)
  BY <1>1, <1>3, CallSafe
<1>5. \A x \in Calls : x # c => call[x].pc \in {"idle", "dead"} /\ call'[x] = call[x]
  BY <1>1, Alone
<1>6. /\ Whole' => call[c].op \notin {"delete", "restore"}
      /\ Kept' => call[c].op \notin {"delete", "restore", "purge", "purgeTrash"}
  BY <1>2 DEF Whole, Kept, Died
<1>7. TrashedHasEntry' /\ OneEntry'
  BY <1>1, <1>4 DEF Safe, TrashedHasEntry, OneEntry, InTrash
<1>8. EntryNotLive'
  <2>1. Whole' => call[c].pc # "mark" /\ call[c].op # "restore"
    BY <1>1, <1>6 DEF Placed
  <2>2. QED
    BY <1>1, <1>4, <1>5, <2>1 DEF Safe, EntryNotLive, Between, InTrash, Live, Exists
<1>9. HasObject'
  <2>1. Kept' => call[c].pc # "row"
    BY <1>1, <1>6 DEF Placed
  <2>2. QED
    BY <1>1, <1>4, <1>5, <2>1 DEF Safe, HasObject, Exists
<1>10. QED
  BY <1>4, <1>7, <1>8, <1>9 DEF Safe

LEMMA StillSafe ==
    ASSUME Safe, Typed', UNCHANGED <<doc, bucket, trash, call>>
    PROVE  Safe'
<1>1. OneRuns' /\ CallsHold'
  BY DEF Safe, OneRuns, Running, CallsHold, Holding, InTrash, Live, Exists
<1>2. TrashedHasEntry' /\ OneEntry' /\ EntryNotLive' /\ HasObject'
  BY DEF Safe, TrashedHasEntry, OneEntry, EntryNotLive, HasObject, Whole, Kept, Died, Between,
         InTrash, Live, Exists
<1>3. QED
  BY <1>1, <1>2 DEF Safe

LEMMA SafeStep ==
    ASSUME Exclusive, FromList, Safe, [Next]_vars
    PROVE  Safe'
<1>1. Typed'
  BY TypedStep DEF Safe
<1>2. CASE \E d \in Docs, due \in Due : CreateDocument(d, due) \/ UpdateDue(d, due)
  BY <1>1, <1>2, CreateSafe
<1>3. ASSUME NEW c \in Calls,
             \/ \E d \in Docs : FindForDelete(c, d)
             \/ \E d \in Docs, signers \in SUBSET Signatures : FindForRequest(c, d, signers)
             \/ \E e \in Entries, op \in {"restore", "purge"} : FindEntry(c, op, e)
             \/ \E s \in Signatures : FindSignature(c, s)
             \/ BeginPurge(c)
             \/ BeginScan(c)
      PROVE  Safe'
  BY <1>1, <1>3, BeginSafe
<1>4. ASSUME NEW c \in Calls, Proceed(c) PROVE Safe'
  BY <1>1, <1>4, AddSafe, MarkSafe, ReviveSafe, RemoveSafe, HardDeleteSafe, DropSafe, PurgeNextSafe,
     ScanNextSafe, SignSafe
  DEF Proceed
<1>5. ASSUME NEW c \in Calls, Crash(c) PROVE Safe'
  BY <1>1, <1>5, CrashSafe
<1>6. CASE Tick
  BY <1>1, <1>6, StillSafe DEF Tick
<1>7. CASE UNCHANGED vars
  BY <1>1, <1>7, StillSafe DEF vars
<1>8. QED
  BY <1>2, <1>3, <1>4, <1>5, <1>6, <1>7 DEF Next

\* What is live can be downloaded, unless a purge of it died, and what is in the trash
\* restored or purged, whatever died: where clients delete only what the lists show and
\* calls do not overlap.
THEOREM NothingIsLost ==
    ASSUME Exclusive, FromList
    PROVE  Spec => []NothingLost
<1>1. Safe => NothingLost
  <2>1. ASSUME Safe PROVE TrashHasEntry
    BY <2>1 DEF Safe, TrashedHasEntry, TrashHasEntry
  <2>2. ASSUME Safe PROVE LiveHasObject
    <3>1. SUFFICES ASSUME Kept, NEW d \in Docs, Live(d), d \notin bucket PROVE FALSE
      BY DEF LiveHasObject, Kept
    <3>2. PICK c \in Calls : call[c].pc = "row" /\ call[c].doc = d
      BY <2>2, <3>1 DEF Safe, HasObject, Live
    <3>3. /\ InTrash(call[c].entry) /\ trash[call[c].entry].doc = d /\ call[c].entry \in Entries
      BY <2>2, <3>2 DEF Safe, CallsHold, Holding, Typed, Located, Placed, Known
    <3>4. Whole
      BY <3>1 DEF Whole, Kept, Died
    <3>5. PICK x \in Calls : call[x].pc \in {"mark", "drop"}
      BY <2>2, <3>1, <3>3, <3>4 DEF Safe, EntryNotLive, Between
    <3>6. QED
      BY <2>2, <3>2, <3>5 DEF Safe, OneRuns, Running
  <2>3. QED
    BY <2>1, <2>2 DEF NothingLost
<1>2. Safe /\ [Next]_vars => Safe'
  BY SafeStep
<1>3. QED
  BY SafeInit, <1>1, <1>2, PTL DEF Spec

\* A document leaves for good only from the trash, unless a delete or a restore died
\* between its two steps.
THEOREM OnlyTrashIsPurged ==
    ASSUME Exclusive, FromList
    PROVE  Spec => PurgesTrashOnly
<1> DEFINE Purges == \A d \in Docs : Live(d) /\ ~Died({"delete", "restore"}) => doc'[d].status # "gone"
<1>1. ASSUME Safe, Next PROVE Purges
  <2>1. SUFFICES ASSUME NEW d \in Docs, Live(d), Whole, doc'[d].status = "gone" PROVE FALSE
    BY DEF Whole
  <2>2. PICK c \in Calls : HardDelete(c) /\ call[c].doc = d
    <3>1. doc[d].status # "gone" /\ Typed /\ doc' # doc
      BY <1>1, <2>1 DEF Live, Exists, Safe
    <3>2. ASSUME NEW c \in Calls, NEW x \in Docs, NEW s \in DocStatus, s \notin {"none", "gone"},
                 SetStatus(x, s)
          PROVE  FALSE
      BY <2>1, <3>1, <3>2, StatusSet
    <3>3. ASSUME NEW c \in Calls, MarkTrashed(c) \/ Revive(c) PROVE FALSE
      BY <3>1, <3>2, <3>3 DEF MarkTrashed, Revive, DocStatus, Typed, Located, Placed, Filed
    <3>4. ASSUME NEW c \in Calls, ScanNext(c) PROVE FALSE
      <4>1. call[c].docs \subseteq Docs \X Due
        BY <3>1 DEF Typed, TypeOK, CallState
      <4>2. QED
        BY <3>1, <3>2, <3>4, <4>1 DEF ScanNext, Flag, DocStatus
    <3>5. ASSUME NEW x \in Docs, NEW due \in Due, CreateDocument(x, due) \/ UpdateDue(x, due)
          PROVE  FALSE
      <4>1. doc \in [Docs -> DocRow]
        BY <3>1 DEF Typed, TypeOK
      <4>2. CASE CreateDocument(x, due)
        BY <2>1, <3>1, <4>1, <4>2 DEF CreateDocument
      <4>3. CASE UpdateDue(x, due)
        BY <2>1, <3>1, <4>1, <4>3 DEF UpdateDue, DocRow
      <4>4. QED
        BY <3>5, <4>2, <4>3
    <3>6. PICK c \in Calls : HardDelete(c)
      <4>1. ASSUME NEW c \in Calls, Proceed(c) PROVE HardDelete(c)
        BY <3>1, <3>3, <3>4, <4>1
        DEF Proceed, AddEntry, RemoveObject, DropEntry, PurgeNext, AskNext, FindSource,
            CopyObject, MarkSigned
      <4>2. ASSUME NEW c \in Calls,
                   \/ \E x \in Docs : FindForDelete(c, x)
                   \/ \E x \in Docs, signers \in SUBSET Signatures : FindForRequest(c, x, signers)
                   \/ \E e \in Entries, op \in {"restore", "purge"} : FindEntry(c, op, e)
                   \/ \E s \in Signatures : FindSignature(c, s)
                   \/ BeginPurge(c) \/ BeginScan(c) \/ Crash(c)
            PROVE  FALSE
        BY <3>1, <4>2
        DEF FindForDelete, FindForRequest, FindEntry, FindSignature, BeginPurge, BeginScan, Crash
      <4>3. ~Tick
        BY <3>1 DEF Tick
      <4>4. QED
        BY <1>1, <3>5, <4>1, <4>2, <4>3 DEF Next
    <3>7. call[c].doc \in Docs /\ SetStatus(call[c].doc, "gone")
      BY <3>1, <3>6 DEF HardDelete, Typed, Located, Placed, Filed
    <3>8. QED
      BY <2>1, <3>1, <3>6, <3>7, StatusSet DEF DocStatus
  <2>3. /\ call[c].pc = "row" /\ InTrash(call[c].entry) /\ trash[call[c].entry].doc = d
        /\ call[c].entry \in Entries
    BY <1>1, <2>2 DEF HardDelete, Safe, CallsHold, Holding, Typed, Located, Placed, Known
  <2>4. PICK x \in Calls : call[x].pc \in {"mark", "drop"}
    BY <1>1, <2>1, <2>3 DEF Safe, EntryNotLive, Between
  <2>5. QED
    BY <1>1, <2>3, <2>4 DEF Safe, OneRuns, Running
<1>2. Safe /\ [Next]_vars => [Purges]_vars
  BY <1>1
<1>3. Safe /\ [Next]_vars => Safe'
  BY SafeStep
<1>4. QED
  BY SafeInit, <1>2, <1>3, PTL DEF Spec, PurgesTrashOnly

\* What a scheduled purge and a scan have still to do is on their lists, if those
\* were not cut.
Purging(p) ==
    /\ p.pc \in {"purging", "object", "row", "drop"}
    /\ ~p.cut => \A e \in Entries : InTrash(e) /\ trash[e].purgeAfter <= p.date =>
          e \in p.entries \/ (p.pc # "purging" /\ e = p.entry)
Scanning(p) ==
    /\ p.pc = "scanning"
    /\ ~p.cut => \A d \in ExpiringBefore(p.date + Window) : <<d, doc[d].due>> \in p.docs
AtWork(p) == p.pc \notin {"idle", "dead"}
OnList(p) ==
    /\ p.pc = "idle" => p.op = "none"
    /\ AtWork(p) /\ p.op = "purgeTrash" => Purging(p)
    /\ AtWork(p) /\ p.op = "scan" => Scanning(p)
DueSafe == OneRuns /\ \A c \in Calls : OnList(call[c])

LEMMA DueInit == Init => DueSafe
  BY DEF Init, Idle, DueSafe, OneRuns, Running, OnList, AtWork

\* A step of the call c that leaves the locals q.
LEMMA DueStep ==
    ASSUME Exclusive, Typed, DueSafe, NEW c \in Calls, Running(c) \/ Begin(c),
           NEW q, call' = [call EXCEPT ![c] = q], OnList(q)'
    PROVE  DueSafe'
<1>1. /\ call'[c] = q /\ \A d \in Calls : d # c => call'[d] = call[d]
      /\ \A d \in Calls : d # c => ~Running(d)
  BY DEF Typed, TypeOK, DueSafe, OneRuns, Begin, Turn
<1>2. OneRuns'
  BY <1>1 DEF OneRuns, Running
<1>3. ASSUME NEW d \in Calls PROVE OnList(call[d])'
  <2>1. CASE d = c
    BY <1>1, <2>1 DEF OnList, Purging, Scanning, AtWork
  <2>2. CASE d # c
    BY <1>1, <2>2 DEF DueSafe, OnList, AtWork, Running
  <2>3. QED
    BY <2>1, <2>2
<1>4. QED
  BY <1>2, <1>3 DEF DueSafe

LEMMA DueIdle == OnList(Idle)'
  BY DEF OnList, Idle, AtWork

\* One of another operation.
LEMMA DueOther ==
    ASSUME Exclusive, Typed, DueSafe, NEW c \in Calls, Running(c) \/ Begin(c),
           NEW q, call' = [call EXCEPT ![c] = q], q.op \notin {"purgeTrash", "scan"}, q.pc # "idle"
    PROVE  DueSafe'
<1>1. OnList(q)'
  BY DEF OnList
<1>2. QED
  BY <1>1, DueStep

\* What the call has when it begins.
LEMMA BeginsAs ==
    ASSUME NEW c \in Calls,
           \/ \E d \in Docs : FindForDelete(c, d)
           \/ \E d \in Docs, signers \in SUBSET Signatures : FindForRequest(c, d, signers)
           \/ \E e \in Entries, op \in {"restore", "purge"} : FindEntry(c, op, e)
           \/ \E s \in Signatures : FindSignature(c, s)
    PROVE  \E q : call' = [call EXCEPT ![c] = q] /\ q.pc # "idle" /\ q.op \notin {"purgeTrash", "scan"}
<1>1. ASSUME NEW q, call' = [call EXCEPT ![c] = q], q.pc # "idle", q.op \notin {"purgeTrash", "scan"}
      PROVE  \E p : call' = [call EXCEPT ![c] = p] /\ p.pc # "idle" /\ p.op \notin {"purgeTrash", "scan"}
  BY <1>1
<1>2. ASSUME NEW d \in Docs, FindForDelete(c, d)
      PROVE  \E q : call' = [call EXCEPT ![c] = q] /\ q.pc # "idle" /\ q.op \notin {"purgeTrash", "scan"}
  <2>1. PICK q : q = [Idle EXCEPT !.pc = "entry", !.op = "delete", !.doc = d, !.date = today]
    OBVIOUS
  <2>2. call' = [call EXCEPT ![c] = q] /\ q.pc = "entry" /\ q.op = "delete"
    BY <1>2, <2>1 DEF FindForDelete, Become, Idle
  <2>3. QED
    BY <1>1, <2>2
<1>3. ASSUME NEW d \in Docs, NEW signers \in SUBSET Signatures, FindForRequest(c, d, signers)
      PROVE  \E q : call' = [call EXCEPT ![c] = q] /\ q.pc # "idle" /\ q.op \notin {"purgeTrash", "scan"}
  <2>1. PICK q : q = [Idle EXCEPT !.pc = "asking", !.op = "request", !.doc = d, !.sigs = signers]
    OBVIOUS
  <2>2. call' = [call EXCEPT ![c] = q] /\ q.pc = "asking" /\ q.op = "request"
    BY <1>3, <2>1 DEF FindForRequest, Become, Idle
  <2>3. QED
    BY <1>1, <2>2
<1>4. ASSUME NEW e \in Entries, NEW op \in {"restore", "purge"}, FindEntry(c, op, e)
      PROVE  \E q : call' = [call EXCEPT ![c] = q] /\ q.pc # "idle" /\ q.op \notin {"purgeTrash", "scan"}
  <2>1. PICK at \in {"revive", "object"} : at = IF op = "restore" THEN "revive" ELSE "object"
    OBVIOUS
  <2>2. PICK q : q = [Idle EXCEPT !.pc = at, !.op = op, !.entry = e, !.doc = trash[e].doc]
    OBVIOUS
  <2>3. call' = [call EXCEPT ![c] = q] /\ q.pc = at /\ q.op = op
    BY <1>4, <2>1, <2>2 DEF FindEntry, Become, Idle
  <2>4. QED
    BY <1>1, <2>3
<1>5. ASSUME NEW s \in Signatures, FindSignature(c, s)
      PROVE  \E q : call' = [call EXCEPT ![c] = q] /\ q.pc # "idle" /\ q.op \notin {"purgeTrash", "scan"}
  <2>1. PICK q : q = [Idle EXCEPT !.pc = "source", !.op = "sign", !.sig = s, !.doc = sig[s].doc]
    OBVIOUS
  <2>2. call' = [call EXCEPT ![c] = q] /\ q.pc = "source" /\ q.op = "sign"
    BY <1>5, <2>1 DEF FindSignature, Become, Idle
  <2>3. QED
    BY <1>1, <2>2
<1>6. QED
  BY <1>2, <1>3, <1>4, <1>5

LEMMA BeginDue ==
    ASSUME Exclusive, Typed, DueSafe, NEW c \in Calls,
           \/ \E d \in Docs : FindForDelete(c, d)
           \/ \E d \in Docs, signers \in SUBSET Signatures : FindForRequest(c, d, signers)
           \/ \E e \in Entries, op \in {"restore", "purge"} : FindEntry(c, op, e)
           \/ \E s \in Signatures : FindSignature(c, s)
           \/ BeginPurge(c)
           \/ BeginScan(c)
    PROVE  DueSafe'
<1>1. Begin(c)
  BY DEF FindForDelete, FindForRequest, FindEntry, FindSignature, BeginPurge, BeginScan
<1>2. CASE \/ \E d \in Docs : FindForDelete(c, d)
           \/ \E d \in Docs, signers \in SUBSET Signatures : FindForRequest(c, d, signers)
           \/ \E e \in Entries, op \in {"restore", "purge"} : FindEntry(c, op, e)
           \/ \E s \in Signatures : FindSignature(c, s)
  <2>1. \E q : /\ call' = [call EXCEPT ![c] = q] /\ q.pc # "idle" /\ q.op \notin {"purgeTrash", "scan"}
    BY <1>2, BeginsAs
  <2>2. QED
    BY <1>1, <2>1, DueOther
<1>3. CASE BeginPurge(c)
  <2>0. PICK listed \in Listings(Purgeable) :
           Become(c, [Idle EXCEPT !.pc = "purging", !.op = "purgeTrash", !.date = today,
                                  !.entries = listed, !.cut = listed # Purgeable])
    BY <1>3 DEF BeginPurge
  <2>1. PICK q : q = [Idle EXCEPT !.pc = "purging", !.op = "purgeTrash", !.date = today,
                                  !.entries = listed, !.cut = listed # Purgeable]
    OBVIOUS
  <2>2. /\ q.pc = "purging" /\ q.op = "purgeTrash" /\ q.date = today /\ q.entries = listed
        /\ ~q.cut => listed = Purgeable
    BY <2>1 DEF Idle
  <2>3. call' = [call EXCEPT ![c] = q] /\ trash' = trash
    BY <1>3, <2>0, <2>1 DEF BeginPurge, Become
  <2>4. ~q.cut => \A e \in Entries : InTrash(e) /\ trash[e].purgeAfter <= q.date => e \in q.entries
    BY <2>2 DEF Purgeable
  <2>5. OnList(q)'
    BY <2>2, <2>3, <2>4 DEF OnList, Purging, InTrash
  <2>6. QED
    BY <1>1, <2>3, <2>5, DueStep
<1>4. CASE BeginScan(c)
  <2>0. PICK listed \in Listings(ExpiringBefore(today + Window)) :
           Become(c, [Idle EXCEPT !.pc = "scanning", !.op = "scan", !.date = today,
                                  !.docs = {<<d, doc[d].due>> : d \in listed},
                                  !.cut = listed # ExpiringBefore(today + Window)])
    BY <1>4 DEF BeginScan
  <2>1. PICK docs : docs = {<<d, doc[d].due>> : d \in listed}
    OBVIOUS
  <2>2. PICK q : q = [Idle EXCEPT !.pc = "scanning", !.op = "scan", !.date = today, !.docs = docs,
                                  !.cut = listed # ExpiringBefore(today + Window)]
    OBVIOUS
  <2>3. /\ q.pc = "scanning" /\ q.op = "scan" /\ q.date = today /\ q.docs = docs
        /\ ~q.cut => listed = ExpiringBefore(today + Window)
    BY <2>2 DEF Idle
  <2>4. call' = [call EXCEPT ![c] = q] /\ doc' = doc
    BY <1>4, <2>0, <2>1, <2>2 DEF BeginScan, Become
  <2>5. ~q.cut => \A d \in ExpiringBefore(q.date + Window) : <<d, doc[d].due>> \in q.docs
    BY <2>1, <2>3
  <2>6. OnList(q)'
    BY <2>3, <2>4, <2>5 DEF OnList, Scanning, ExpiringBefore
  <2>7. QED
    BY <1>1, <2>4, <2>6, DueStep
<1>5. QED
  BY <1>2, <1>3, <1>4

LEMMA ProceedDue ==
    ASSUME Exclusive, Typed, DueSafe, NEW c \in Calls, Proceed(c) \/ Crash(c)
    PROVE  DueSafe'
<1>1. /\ call[c] \in CallState /\ Placed(c) /\ OnList(call[c]) /\ call \in [Calls -> CallState]
      /\ doc \in [Docs -> DocRow] /\ trash \in [Entries -> TrashRow]
  BY DEF Typed, TypeOK, Located, DueSafe
<1>2. Running(c)
  BY DEF Proceed, Crash, AddEntry, MarkTrashed, Revive, RemoveObject, HardDelete, DropEntry, PurgeNext,
     ScanNext, AskNext, FindSource, CopyObject, MarkSigned, Running
<1>3. CASE Answer(c)
  BY <1>2, <1>3, DueIdle, DueStep DEF Answer, Become
<1>4. CASE Crash(c)
  <2>1. PICK q : q = [Idle EXCEPT !.pc = "dead", !.op = call[c].op]
    OBVIOUS
  <2>2. call' = [call EXCEPT ![c] = q] /\ q.pc = "dead"
    BY <1>4, <2>1 DEF Crash, Become, Idle
  <2>3. OnList(q)'
    BY <2>2 DEF OnList, AtWork
  <2>4. QED
    BY <1>2, <2>2, <2>3, DueStep
<1>5. ASSUME NEW at, Goto(c, at), at # "idle", call[c].op \notin {"purgeTrash", "scan"} PROVE DueSafe'
  <2>1. PICK q : q = [call[c] EXCEPT !.pc = at]
    OBVIOUS
  <2>2. call' = [call EXCEPT ![c] = q] /\ q.pc = at /\ q.op = call[c].op
    BY <1>1, <1>5, <2>1 DEF Goto, CallState
  <2>3. QED
    BY <1>2, <1>5, <2>2, DueOther
<1>6. CASE \/ (\E e \in Entries : AddEntry(c, e)) \/ MarkTrashed(c) \/ Revive(c)
           \/ FindSource(c) \/ CopyObject(c) \/ MarkSigned(c)
  <2>1. call[c].pc \in {"entry", "mark", "revive", "source", "copy", "signed"}
    BY <1>6 DEF AddEntry, MarkTrashed, Revive, FindSource, CopyObject, MarkSigned
  <2>2. call[c].op \notin {"purgeTrash", "scan"}
    BY <1>1, <1>2, <2>1 DEF OnList, AtWork, Purging, Scanning, Running
  <2>3. Answer(c) \/ \E at \in Pc \ {"idle"} : Goto(c, at)
    BY <1>6 DEF AddEntry, MarkTrashed, Revive, FindSource, CopyObject, MarkSigned, Pc
  <2>4. QED
    BY <1>3, <1>5, <2>2, <2>3
<1>7. CASE AskNext(c)
  <2>1. call[c].op \notin {"purgeTrash", "scan"} /\ call[c].pc = "asking"
    BY <1>1, <1>2, <1>7 DEF OnList, AtWork, Purging, Scanning, Running, AskNext
  <2>2. Answer(c) \/ \E s \in call[c].sigs : Become(c, [call[c] EXCEPT !.sigs = @ \ {s}])
    BY <1>7 DEF AskNext
  <2>3. ASSUME NEW s, Become(c, [call[c] EXCEPT !.sigs = @ \ {s}]) PROVE DueSafe'
    <3>1. PICK q : q = [call[c] EXCEPT !.sigs = @ \ {s}]
      OBVIOUS
    <3>2. call' = [call EXCEPT ![c] = q] /\ q.pc = "asking" /\ q.op = call[c].op
      BY <1>1, <2>1, <2>3, <3>1 DEF Become, CallState
    <3>3. QED
      BY <1>2, <2>1, <3>2, DueOther
  <2>4. QED
    BY <1>3, <2>2, <2>3
<1>8. CASE RemoveObject(c) \/ HardDelete(c)
  <2>1. PICK at \in {"row", "drop"} : Goto(c, at)
    BY <1>8 DEF RemoveObject, HardDelete
  <2>2. call[c].pc \in {"object", "row"} /\ trash' = trash
    BY <1>8 DEF RemoveObject, HardDelete
  <2>3. PICK q : q = [call[c] EXCEPT !.pc = at]
    OBVIOUS
  <2>4. /\ call' = [call EXCEPT ![c] = q] /\ q.pc = at /\ q.op = call[c].op /\ q.date = call[c].date
        /\ q.entries = call[c].entries /\ q.entry = call[c].entry /\ q.cut = call[c].cut
    BY <1>1, <2>1, <2>3 DEF Goto, CallState
  <2>5. call[c].op # "scan" /\ (call[c].op = "purgeTrash" => Purging(call[c]))
    BY <1>1, <2>2 DEF OnList, AtWork, Scanning
  <2>6. OnList(q)'
    BY <2>2, <2>4, <2>5 DEF OnList, AtWork, Purging, InTrash
  <2>7. QED
    BY <1>2, <2>4, <2>6, DueStep
<1>9. CASE DropEntry(c)
  <2>1. PICK e \in Entries : e = call[c].entry
    BY <1>1, <1>9 DEF DropEntry, Placed, Known
  <2>2. /\ trash' = [trash EXCEPT ![e].state = "gone"] /\ call[c].pc = "drop"
        /\ IF call[c].op = "purgeTrash" THEN Goto(c, "purging") ELSE Answer(c)
    BY <1>9, <2>1 DEF DropEntry
  <2>3. CASE call[c].op = "purgeTrash"
    <3>1. PICK q : q = [call[c] EXCEPT !.pc = "purging"]
      OBVIOUS
    <3>2. /\ call' = [call EXCEPT ![c] = q] /\ q.pc = "purging" /\ q.op = "purgeTrash"
          /\ q.date = call[c].date /\ q.entries = call[c].entries /\ q.cut = call[c].cut
      BY <1>1, <2>2, <2>3, <3>1 DEF Goto, CallState
    <3>3. /\ ~(trash'[e].state = "present")
          /\ \A f \in Entries : f # e => trash'[f] = trash[f]
      BY <1>1, <2>2 DEF TrashRow
    <3>4. Purging(call[c])
      BY <1>1, <2>2, <2>3 DEF OnList, AtWork
    <3>5. OnList(q)'
      BY <2>1, <3>2, <3>3, <3>4 DEF OnList, AtWork, Purging, InTrash
    <3>6. QED
      BY <1>2, <3>2, <3>5, DueStep
  <2>4. QED
    BY <1>3, <2>2, <2>3
<1>10. CASE PurgeNext(c)
  <2>1. ASSUME NEW e \in call[c].entries,
               Become(c, [call[c] EXCEPT !.pc = "object", !.entry = e, !.doc = trash[e].doc,
                                         !.entries = @ \ {e}])
        PROVE  DueSafe'
    <3>1. PICK q : q = [call[c] EXCEPT !.pc = "object", !.entry = e, !.doc = trash[e].doc,
                                       !.entries = @ \ {e}]
      OBVIOUS
    <3>2. /\ call' = [call EXCEPT ![c] = q] /\ q.pc = "object" /\ q.op = call[c].op
          /\ q.date = call[c].date /\ q.entry = e /\ q.entries = call[c].entries \ {e}
          /\ q.cut = call[c].cut
      BY <1>1, <2>1, <3>1 DEF Become, CallState
    <3>3. trash' = trash /\ call[c].pc = "purging"
      BY <1>10 DEF PurgeNext
    <3>4. call[c].op = "purgeTrash" /\ Purging(call[c])
      BY <1>1, <3>3 DEF Placed, OnList, AtWork
    <3>5. OnList(q)'
      BY <3>2, <3>3, <3>4 DEF OnList, AtWork, Purging, InTrash
    <3>6. QED
      BY <1>2, <3>2, <3>5, DueStep
  <2>2. QED
    BY <1>3, <1>10, <2>1 DEF PurgeNext
<1>11. CASE ScanNext(c)
  <2>1. ASSUME NEW row \in call[c].docs, SetStatus(row[1], Flag(row[2], call[c].date)),
               Become(c, [call[c] EXCEPT !.docs = @ \ {row}])
        PROVE  DueSafe'
    <3>1. PICK q : q = [call[c] EXCEPT !.docs = @ \ {row}]
      OBVIOUS
    <3>2. /\ call' = [call EXCEPT ![c] = q] /\ q.pc = "scanning" /\ q.op = call[c].op
          /\ q.date = call[c].date /\ q.docs = call[c].docs \ {row} /\ q.cut = call[c].cut
      BY <1>1, <1>11, <2>1, <3>1 DEF Become, CallState, ScanNext
    <3>3. row[1] \in Docs
      BY <1>1 DEF CallState
    <3>4. PICK s \in {"expired", "expiring"} : s = Flag(row[2], call[c].date)
      BY DEF Flag
    <3>5. /\ doc'[row[1]].status # "active"
          /\ \A d \in Docs : d # row[1] => doc'[d] = doc[d]
      BY <1>1, <2>1, <3>3, <3>4 DEF SetStatus, Exists, DocRow
    <3>6. call[c].op # "purgeTrash" /\ (call[c].op = "scan" => Scanning(call[c]))
      BY <1>1, <3>2, <1>11 DEF OnList, AtWork, Purging, ScanNext
    <3>7. ASSUME q.op = "scan", ~q.cut, NEW d \in Docs, d \in ExpiringBefore(q.date + Window)'
          PROVE  <<d, doc'[d].due>> \in q.docs
      <4>1. d # row[1] /\ doc'[d] = doc[d] /\ d \in ExpiringBefore(call[c].date + Window)
        BY <3>2, <3>5, <3>7 DEF ExpiringBefore
      <4>2. <<d, doc[d].due>> \in call[c].docs /\ <<d, doc[d].due>> # row
        BY <3>2, <3>6, <3>7, <4>1 DEF Scanning
      <4>3. QED
        BY <3>2, <4>1, <4>2
    <3>8. OnList(q)'
      <4>1. \A d \in ExpiringBefore(q.date + Window)' : d \in Docs
        BY DEF ExpiringBefore
      <4>2. QED
        BY <3>2, <3>6, <3>7, <4>1 DEF OnList, AtWork, Scanning
    <3>9. QED
      BY <1>2, <3>2, <3>8, DueStep
  <2>2. QED
    BY <1>3, <1>11, <2>1 DEF ScanNext
<1>12. QED
  BY <1>4, <1>6, <1>7, <1>8, <1>9, <1>10, <1>11 DEF Proceed

LEMMA NextDue ==
    ASSUME Exclusive, Typed, DueSafe, [Next]_vars PROVE DueSafe'
<1>1. CASE (\E d \in Docs, due \in Due : CreateDocument(d, due) \/ UpdateDue(d, due))
  <2>1. call' = call /\ \A c \in Calls : ~Running(c)
    BY <1>1 DEF CreateDocument, UpdateDue, Turn
  <2>2. QED
    BY <2>1 DEF DueSafe, OneRuns, Running, OnList, AtWork
<1>2. CASE Tick \/ UNCHANGED vars
  <2>1. UNCHANGED <<doc, trash, call>>
    BY <1>2 DEF Tick, vars
  <2>2. QED
    BY <2>1 DEF DueSafe, OneRuns, Running, OnList, AtWork, Purging, Scanning, InTrash, ExpiringBefore
<1>3. QED
  BY <1>1, <1>2, BeginDue, ProceedDue DEF Next

\* A purge or a scan that answers has an empty list.
LEMMA DueDone ==
    ASSUME Exclusive, Typed, DueSafe, [Next]_vars PROVE PurgeCatchesUp /\ ScanCatchesUp
<1>1. ASSUME NEW c \in Calls, call[c].op \in {"purgeTrash", "scan"}, call'[c].pc = "idle"
      PROVE  \/ call[c].pc = "purging" /\ call[c].entries = {}
             \/ call[c].pc = "scanning" /\ call[c].docs = {}
  <2>1. /\ call \in [Calls -> CallState] /\ OnList(call[c]) /\ Placed(c)
    BY DEF Typed, TypeOK, Located, DueSafe
  <2>2. call[c].pc # "idle"
    BY <1>1, <2>1 DEF OnList
  <2>3. call'[c] # call[c]
    BY <1>1, <2>2
  <2>4. ASSUME NEW x \in Calls, x # c, StepOf(x) PROVE FALSE
    BY <2>1, <2>3, <2>4 DEF StepOf
  <2>5. Proceed(c)
    <3>1. ~(\E d \in Docs, due \in Due : CreateDocument(d, due) \/ UpdateDue(d, due)) /\ ~Tick /\ call' # call
      BY <2>3 DEF CreateDocument, UpdateDue, Tick
    <3>2. ASSUME NEW x \in Calls, Proceed(x) PROVE StepOf(x)
      BY <3>2 DEF Proceed, AddEntry, MarkTrashed, Revive, RemoveObject, HardDelete, DropEntry, PurgeNext,
         ScanNext, AskNext, FindSource, CopyObject, MarkSigned, Goto, Answer, Become, StepOf
    <3> DEFINE Starts(x) ==
                 \/ \E d \in Docs : FindForDelete(x, d)
                 \/ \E d \in Docs, signers \in SUBSET Signatures : FindForRequest(x, d, signers)
                 \/ \E e \in Entries, op \in {"restore", "purge"} : FindEntry(x, op, e)
                 \/ \E s \in Signatures : FindSignature(x, s)
                 \/ BeginPurge(x) \/ BeginScan(x) \/ Crash(x)
    <3>3. ASSUME NEW x \in Calls, Starts(x)
          PROVE  StepOf(x) /\ call'[x].pc # "idle"
      <4>1. CASE BeginPurge(x) \/ BeginScan(x) \/ Crash(x)
        BY <2>1, <4>1 DEF BeginPurge, BeginScan, Crash, Become, Idle, StepOf
      <4>2. QED
        BY <2>1, <3>3, <4>1, BeginsAs DEF StepOf
    <3>4. PICK x \in Calls : Starts(x) \/ Proceed(x)
      BY <3>1 DEF Next, vars
    <3> HIDE DEF Starts
    <3>5. StepOf(x) /\ (Proceed(x) \/ call'[x].pc # "idle")
      BY <3>2, <3>3, <3>4
    <3>6. QED
      BY <1>1, <2>4, <3>5
  <2>6. call[c].pc \in {"purging", "object", "row", "drop", "scanning"} /\ (call[c].pc = "scanning" => call[c].op = "scan")
    BY <1>1, <2>1, <2>2, <2>5 DEF OnList, AtWork, Purging, Scanning, Proceed, AddEntry, MarkTrashed, Revive,
       RemoveObject, HardDelete, DropEntry, PurgeNext, ScanNext, AskNext, FindSource, CopyObject, MarkSigned
  <2>7. CASE RemoveObject(c) \/ HardDelete(c)
    BY <1>1, <2>1, <2>7 DEF RemoveObject, HardDelete, Goto, CallState
  <2>8. CASE DropEntry(c)
    <3>1. call[c].op = "purgeTrash"
      BY <1>1, <2>1, <2>8 DEF DropEntry, Placed
    <3>2. QED
      BY <1>1, <2>1, <2>8, <3>1 DEF DropEntry, Goto, CallState
  <2>9. CASE PurgeNext(c)
    BY <1>1, <2>1, <2>9 DEF PurgeNext, Become, CallState
  <2>10. CASE ScanNext(c)
    BY <1>1, <2>1, <2>10 DEF ScanNext, Become, CallState
  <2>11. QED
    BY <2>5, <2>6, <2>7, <2>8, <2>9, <2>10 DEF Proceed, AddEntry, MarkTrashed, Revive, AskNext,
       FindSource, CopyObject, MarkSigned
<1>2. PurgeCatchesUp
  <2>1. SUFFICES ASSUME NEW c \in Calls, call[c].op = "purgeTrash", ~call[c].cut, call'[c].pc = "idle",
                        NEW e \in Entries, InTrash(e)
                 PROVE  trash[e].purgeAfter > call[c].date
    BY DEF PurgeCatchesUp
  <2>2. /\ call[c].pc \in {"purging", "scanning"} /\ OnList(call[c])
        /\ call[c].pc = "purging" => call[c].entries = {}
    BY <1>1, <2>1 DEF DueSafe
  <2>3. ~(trash[e].purgeAfter <= call[c].date)
    BY <2>1, <2>2 DEF OnList, AtWork, Purging
  <2>4. trash[e].purgeAfter \in Nat /\ call[c].date \in Nat
    BY DEF Typed, TypeOK, TrashRow, CallState, Day
  <2>5. QED
    BY <2>3, <2>4
<1>3. ScanCatchesUp
  <2>1. SUFFICES ASSUME NEW c \in Calls, call[c].op = "scan", ~call[c].cut, call'[c].pc = "idle",
                        NEW d \in Docs, doc[d].status = "active", doc[d].due # Null
                 PROVE  doc[d].due > call[c].date + Window
    BY DEF ScanCatchesUp
  <2>2. /\ call[c].pc \in {"purging", "scanning"} /\ OnList(call[c])
        /\ call[c].pc = "scanning" => call[c].docs = {}
    BY <1>1, <2>1 DEF DueSafe
  <2>3. ~(doc[d].due <= call[c].date + Window)
    BY <2>1, <2>2 DEF OnList, AtWork, Scanning, ExpiringBefore
  <2>4. doc[d].due \in Nat /\ call[c].date \in Nat /\ Window \in Nat
    <3>1. doc[d].due \in Dues /\ call[c].date \in Day
      BY <2>1 DEF Typed, TypeOK, DocRow, Due, CallState
    <3>2. \A x \in Day : x \in Nat
      BY DocumentsAssumption DEF Day
    <3>3. Dues \subseteq Day /\ Window \in Nat
      BY DocumentsAssumption
    <3>4. QED
      BY <3>1, <3>2, <3>3
  <2>5. QED
    BY <2>3, <2>4
<1>4. QED
  BY <1>2, <1>3

-----------------------------------------------------------------------------
(* Transfers *)

\* The only permanent transfer of its employee moves them where it says, until HR says
\* otherwise.
Sole(t) == \A u \in Transfers \ {t} : Asked[u].employee = Asked[t].employee => T!Temporary(u)
Arrived(t) == ~T!Temporary(t) /\ Sole(t) /\ ~home[Asked[t].employee].edited =>
                home[Asked[t].employee].store = Asked[t].to

\* What a call with the locals p knows, whatever the others do.
MoverKnows(p) ==
    /\ p.pc \in {"insert", "home", "link", "unlink", "status"} => p.t \in Transfers
    /\ p.pc = "home" => p.next = "completed" /\ ~T!Temporary(p.t)
    /\ p.pc = "link" => p.next = "active" /\ T!Temporary(p.t)
    /\ p.pc = "unlink" => p.next \in {"completed", "cancelled"} /\ p.link \in Links
    /\ p.pc = "unlink" /\ p.next = "completed" => T!Temporary(p.t)
    /\ p.pc = "status" => p.next # "none"
    /\ p.pc = "status" /\ p.next = "active" => p.link \in Links
    /\ p.pc = "status" /\ p.next = "completed" => Arrived(p.t)
    /\ \A d \in p.due : T!Temporary(d.t)

\* An employee has one link to a store.
OneLink ==
    \A l, m \in Links :
        /\ link[l].state = "present" /\ link[m].state = "present"
        /\ link[l].employee = link[m].employee /\ link[l].store = link[m].store
        => l = m

MovesSafe ==
    /\ T!TypeOK /\ (\A c \in Calls : MoverKnows(move[c])) /\ OneLink
    /\ \A t \in Transfers : transfer[t].status = "completed" => Arrived(t)

\* l is, or was, the link of the employee of t to its destination.
Owned(l, t) == link[l].state # "none" /\ <<link[l].employee, link[l].store>> = T!Pair(t)

LEMMA IdleMover == T!Idle \in T!CallState /\ MoverKnows(T!Idle) /\ MoverKnows(T!Idle)'
<1>1. 0 \in T!Day
  BY PersonnelAssumption DEF T!TransfersAssumption, T!Day
<1>2. QED
  BY <1>1 DEF T!Idle, T!CallState, T!Pc, T!Status, MoverKnows

LEMMA AskedTyped ==
    ASSUME NEW t \in Transfers
    PROVE  /\ Asked[t].employee \in Employees /\ Asked[t].to \in Stores
           /\ Null \notin Links /\ Null \notin Transfers
  BY PersonnelAssumption DEF T!TransfersAssumption, T!Terms

LEMMA MovesInit == T!Init => MovesSafe
<1> SUFFICES ASSUME T!Init PROVE MovesSafe
  OBVIOUS
<1>1. T!NoLink \in T!LinkRow
  BY PersonnelAssumption DEF T!TransfersAssumption, T!NoLink, T!LinkRow
<1>2. T!TypeOK
  <2>1. date \in T!Day /\ home \in [Employees -> T!HomeRow]
    BY PersonnelAssumption DEF T!TransfersAssumption, T!Init, T!Day, T!HomeRow
  <2>2. transfer \in [Transfers -> T!TransferRow]
    BY DEF T!Init, T!TransferRow, T!Status
  <2>3. link \in [Links -> T!LinkRow] /\ move \in [Calls -> T!CallState]
    BY <1>1, IdleMover DEF T!Init
  <2>4. QED
    BY <2>1, <2>2, <2>3 DEF T!TypeOK
<1>3. \A c \in Calls : MoverKnows(move[c])
  BY IdleMover DEF T!Init
<1>4. OneLink
  BY DEF T!Init, OneLink, T!NoLink
<1>5. QED
  BY <1>2, <1>3, <1>4 DEF MovesSafe, T!Init

\* What becomes of the links of each employee and store when one is upserted ...
LEMMA UpsertedLinks ==
    ASSUME T!TypeOK, OneLink, NEW l \in Links, NEW e \in Employees, NEW s \in Stores,
           NEW relation \in {"guest", "secondary"}, T!Upserted(l, e, s, relation)
    PROVE  /\ link' \in [Links -> T!LinkRow] /\ OneLink'
           /\ T!LinksOf(e, s)' = {l}
           /\ \A d \in Employees, r \in Stores : <<d, r>> # <<e, s>> => T!LinksOf(d, r)' = T!LinksOf(d, r)
           /\ \A m \in Links, t \in Transfers :
                 Owned(m, t) \/ (m = l /\ T!Pair(t) = <<e, s>>) => Owned(m, t)'
<1>1. PICK x : x = [state |-> "present", employee |-> e, store |-> s, relation |-> relation]
  OBVIOUS
<1>2. x \in T!LinkRow /\ x.state = "present" /\ x.employee = e /\ x.store = s
  BY <1>1 DEF T!LinkRow
<1>3. link' = [link EXCEPT ![l] = x]
  BY <1>1 DEF T!Upserted
<1>4. /\ link' \in [Links -> T!LinkRow] /\ link'[l] = x
      /\ \A m \in Links : m # l => link'[m] = link[m]
  BY <1>2, <1>3 DEF T!TypeOK
<1>5. \/ T!LinksOf(e, s) = {} /\ link[l].state = "none"
      \/ l \in T!LinksOf(e, s)
  BY DEF T!Upserted
<1>6. \A m \in Links : m # l => m \notin T!LinksOf(e, s)
  BY <1>5 DEF T!LinksOf, OneLink
<1>7. T!LinksOf(e, s)' = {l}
  BY <1>2, <1>4, <1>6 DEF T!LinksOf
<1>8. OneLink'
  BY <1>2, <1>4, <1>6 DEF OneLink, T!LinksOf
<1>9. ASSUME NEW d \in Employees, NEW r \in Stores, <<d, r>> # <<e, s>>
      PROVE  T!LinksOf(d, r)' = T!LinksOf(d, r)
  <2>1. l \notin T!LinksOf(d, r) /\ l \notin T!LinksOf(d, r)'
    BY <1>2, <1>4, <1>5, <1>9 DEF T!LinksOf
  <2>2. QED
    BY <1>4, <2>1 DEF T!LinksOf
<1>10. ASSUME NEW m \in Links, NEW t \in Transfers,
              Owned(m, t) \/ (m = l /\ T!Pair(t) = <<e, s>>)
       PROVE  Owned(m, t)'
  <2>1. CASE m = l
    <3>1. T!Pair(t) = <<e, s>>
      BY <1>5, <1>10, <2>1 DEF Owned, T!LinksOf
    <3>2. QED
      BY <1>2, <1>4, <2>1, <3>1 DEF Owned, T!Pair
  <2>2. CASE m # l
    BY <1>4, <1>10, <2>2 DEF Owned
  <2>3. QED
    BY <2>1, <2>2
<1>11. QED
  BY <1>4, <1>7, <1>8, <1>9, <1>10

\* ... and when those in L are deleted.
LEMMA DeletedLinks ==
    ASSUME T!TypeOK, OneLink, NEW L,
           link' \in [Links -> T!LinkRow],
           \A m \in Links : link'[m] = link[m]
                             \/ (m \in L /\ link'[m] = [link[m] EXCEPT !.state = "gone"]),
           \A m \in Links \cap L : link'[m].state # "present"
    PROVE  /\ OneLink'
           /\ \A d \in Employees, r \in Stores : T!LinksOf(d, r)' = T!LinksOf(d, r) \ L
           /\ \A m \in Links, t \in Transfers : Owned(m, t) => Owned(m, t)'
<1>1. ASSUME NEW m \in Links
      PROVE  /\ link'[m] = link[m] \/ (m \in L /\ link'[m].state = "gone")
             /\ link'[m].employee = link[m].employee /\ link'[m].store = link[m].store
  BY DEF T!TypeOK, T!LinkRow
<1>2. OneLink'
  BY <1>1 DEF OneLink
<1>3. \A m \in Links, t \in Transfers : Owned(m, t) => Owned(m, t)'
  BY <1>1 DEF Owned
<1>4. \A d \in Employees, r \in Stores : T!LinksOf(d, r)' = T!LinksOf(d, r) \ L
  BY <1>1 DEF T!LinksOf
<1>5. QED
  BY <1>2, <1>3, <1>4

\* A step of the call c: what is written down as completed has come about.
LEMMA MoverSteps ==
    ASSUME MovesSafe, NEW c \in Calls, NEW q \in T!CallState, move' = [move EXCEPT ![c] = q],
           date' = date, transfer' \in [Transfers -> T!TransferRow],
           link' \in [Links -> T!LinkRow], OneLink', home' \in [Employees -> T!HomeRow],
           \A t \in Transfers : Arrived(t) => Arrived(t)',
           MoverKnows(q)',
           \A t \in Transfers : transfer'[t].status = "completed" =>
              transfer[t].status = "completed" \/ Arrived(t)
    PROVE  MovesSafe'
<1>1. /\ move' \in [Calls -> T!CallState] /\ move'[c] = q
      /\ \A d \in Calls : d # c => move'[d] = move[d]
  BY DEF MovesSafe, T!TypeOK
<1>2. T!TypeOK'
  BY <1>1 DEF MovesSafe, T!TypeOK
<1>3. ASSUME NEW d \in Calls PROVE MoverKnows(move[d])'
  <2>1. CASE d = c
    BY <1>1, <2>1 DEF MoverKnows
  <2>2. CASE d # c
    BY <1>1, <2>2 DEF MovesSafe, MoverKnows
  <2>3. QED
    BY <2>1, <2>2
<1>4. \A t \in Transfers : transfer'[t].status = "completed" => Arrived(t)'
  BY DEF MovesSafe
<1>5. QED
  BY <1>2, <1>3, <1>4 DEF MovesSafe

\* One that only reads.
LEMMA MoverReads ==
    ASSUME MovesSafe, NEW c \in Calls, NEW q \in T!CallState, move' = [move EXCEPT ![c] = q],
           UNCHANGED <<date, transfer, link, home>>, MoverKnows(q)
    PROVE  MovesSafe'
<1>1. /\ transfer' \in [Transfers -> T!TransferRow] /\ link' \in [Links -> T!LinkRow]
      /\ home' \in [Employees -> T!HomeRow] /\ OneLink'
  BY DEF MovesSafe, T!TypeOK, OneLink
<1>2. (\A t \in Transfers : Arrived(t) => Arrived(t)') /\ MoverKnows(q)'
  BY DEF Arrived, MoverKnows
<1>3. QED
  BY <1>1, <1>2, MoverSteps

LEMMA MoverTyped ==
    ASSUME MovesSafe, NEW c \in Calls
    PROVE  /\ move[c] \in T!CallState /\ MoverKnows(move[c]) /\ date \in T!Day
           /\ move[c].pc \in {"insert", "home", "link", "unlink", "status"} => move[c].t \in Transfers
  BY DEF MovesSafe, T!TypeOK, MoverKnows

LEMMA BeginMoves ==
    ASSUME MovesSafe, NEW c \in Calls,
           \/ T!BeginSweep(c)
           \/ \E t \in Transfers : \/ T!FindEmployee(c, t) \/ T!ReadForApproval(c, t)
                                    \/ T!ReadForRejection(c, t) \/ T!ReadForCancel(c, t)
    PROVE  MovesSafe'
<1>1. ASSUME NEW t \in Transfers, NEW op \in {"approve", "reject", "cancel"},
             NEW at \in {"home", "link", "unlink", "status"}, NEW next \in T!Status,
             T!Decides(c, op, t, at, next),
             /\ at = "home" => next = "completed" /\ ~T!Temporary(t)
             /\ at = "link" => next = "active" /\ T!Temporary(t)
             /\ at = "unlink" => next = "cancelled" /\ transfer[t].link \in Links
             /\ at = "status" => next \notin {"none", "active", "completed"}
      PROVE  MovesSafe'
  <2>1. PICK k : k = transfer[t].link
    OBVIOUS
  <2>2. k \in Links \cup {Null}
    BY <2>1 DEF MovesSafe, T!TypeOK, T!TransferRow
  <2>3. PICK q : q = [T!Idle EXCEPT !.pc = at, !.op = op, !.t = t, !.next = next, !.link = k]
    OBVIOUS
  <2>4. /\ q \in T!CallState /\ q.pc = at /\ q.t = t /\ q.next = next /\ q.link = k /\ q.due = {}
    BY <2>2, <2>3, IdleMover DEF T!CallState, T!Idle, T!Pc
  <2>5. move' = [move EXCEPT ![c] = q] /\ UNCHANGED <<date, transfer, link, home>>
    BY <1>1, <2>1, <2>3 DEF T!Decides, T!Become
  <2>6. MoverKnows(q)
    BY <1>1, <2>1, <2>4 DEF MoverKnows
  <2>7. QED
    BY <2>4, <2>5, <2>6, MoverReads
<1>2. ASSUME NEW t \in Transfers, T!ReadForApproval(c, t) PROVE MovesSafe'
  <2>1. \/ ~T!Temporary(t) /\ T!Decides(c, "approve", t, "home", "completed")
        \/ T!Temporary(t) /\ T!Decides(c, "approve", t, "link", "active")
        \/ T!Temporary(t) /\ T!Decides(c, "approve", t, "status", "approved")
    BY <1>2 DEF T!ReadForApproval
  <2>2. {"completed", "active", "approved"} \subseteq T!Status
    BY DEF T!Status
  <2>3. QED
    BY <1>1, <2>1, <2>2
<1>3. ASSUME NEW t \in Transfers, T!ReadForRejection(c, t) PROVE MovesSafe'
  BY <1>1, <1>3 DEF T!ReadForRejection, T!Status
<1>4. ASSUME NEW t \in Transfers, T!ReadForCancel(c, t) PROVE MovesSafe'
  <2>1. PICK at : at = IF transfer[t].status = "active" /\ transfer[t].link # Null THEN "unlink" ELSE "status"
    OBVIOUS
  <2>2. T!Decides(c, "cancel", t, at, "cancelled") /\ at \in {"unlink", "status"}
    BY <1>4, <2>1 DEF T!ReadForCancel
  <2>3. at = "unlink" => transfer[t].link \in Links
    BY <2>1 DEF MovesSafe, T!TypeOK, T!TransferRow
  <2>4. QED
    BY <1>1, <2>2, <2>3 DEF T!Status
<1>5. ASSUME NEW t \in Transfers, T!FindEmployee(c, t) PROVE MovesSafe'
  <2>1. PICK q : q = [T!Idle EXCEPT !.pc = "insert", !.op = "create", !.t = t]
    OBVIOUS
  <2>2. q \in T!CallState /\ q.pc = "insert" /\ q.t = t /\ q.due = {}
    BY <2>1, IdleMover DEF T!CallState, T!Idle, T!Pc
  <2>3. move' = [move EXCEPT ![c] = q] /\ UNCHANGED <<date, transfer, link, home>> /\ MoverKnows(q)
    BY <1>5, <2>1, <2>2 DEF T!FindEmployee, T!Become, MoverKnows
  <2>4. QED
    BY <2>2, <2>3, MoverReads
<1>6. CASE T!BeginSweep(c)
  <2>1. PICK due : due = T!Listed(T!DueToActivate(date))
    OBVIOUS
  <2>2. due \in SUBSET T!Due /\ \A d \in due : T!Temporary(d.t)
    BY <2>1 DEF MovesSafe, T!TypeOK, T!TransferRow, T!Listed, T!DueToActivate, T!Due
  <2>3. PICK q : q = [T!Idle EXCEPT !.pc = "opening", !.op = "sweep", !.date = date, !.due = due]
    OBVIOUS
  <2>4. q \in T!CallState /\ q.pc = "opening" /\ q.due = due
    <3>1. date \in T!Day
      BY DEF MovesSafe, T!TypeOK
    <3>2. QED
      BY <2>2, <2>3, <3>1, IdleMover DEF T!CallState, T!Idle, T!Pc
  <2>5. move' = [move EXCEPT ![c] = q] /\ UNCHANGED <<date, transfer, link, home>> /\ MoverKnows(q)
    BY <1>6, <2>1, <2>2, <2>3, <2>4 DEF T!BeginSweep, T!Become, MoverKnows
  <2>6. QED
    BY <2>4, <2>5, MoverReads
<1>7. QED
  BY <1>2, <1>3, <1>4, <1>5, <1>6

LEMMA InsertMoves == ASSUME MovesSafe, NEW c \in Calls, T!InsertTransfer(c) PROVE MovesSafe'
<1>1. PICK t \in Transfers : t = move[c].t
  BY MoverTyped DEF T!InsertTransfer
<1>2. PICK q : q = T!Idle
  OBVIOUS
<1>3. /\ move' = [move EXCEPT ![c] = q] /\ q \in T!CallState /\ MoverKnows(q)'
      /\ UNCHANGED <<date, link, home>>
  BY <1>2, IdleMover DEF T!InsertTransfer, T!Answer, T!Become
<1>4. /\ transfer' \in [Transfers -> T!TransferRow]
      /\ \A u \in Transfers : transfer'[u].status = "completed" => transfer[u].status = "completed"
  BY <1>1 DEF T!InsertTransfer, MovesSafe, T!TypeOK, T!TransferRow, T!Status
<1>5. /\ link' \in [Links -> T!LinkRow] /\ home' \in [Employees -> T!HomeRow] /\ OneLink'
      /\ \A u \in Transfers : Arrived(u) => Arrived(u)'
  BY <1>3 DEF MovesSafe, T!TypeOK, OneLink, Arrived
<1>6. QED
  BY <1>3, <1>4, <1>5, MoverSteps

\* Nobody else moves an employee with one permanent transfer.
LEMMA HomeMoves ==
    ASSUME MovesSafe, NEW c \in Calls, T!SetPrimaryStore(c)
    PROVE  MovesSafe'
<1>1. PICK t \in Transfers : t = move[c].t
  BY MoverTyped DEF T!SetPrimaryStore
<1>2. /\ move[c].pc = "home"
      /\ home' = [home EXCEPT ![Asked[t].employee] = [store |-> Asked[t].to, edited |-> FALSE]]
      /\ move' = [move EXCEPT ![c].pc = "status"] /\ UNCHANGED <<date, transfer, link>>
  BY <1>1 DEF T!SetPrimaryStore
<1>3. ~T!Temporary(t) /\ move[c].next = "completed"
  BY <1>1, <1>2, MoverTyped DEF MoverKnows
<1>4. /\ home' \in [Employees -> T!HomeRow] /\ home'[Asked[t].employee].store = Asked[t].to
      /\ \A e \in Employees : e # Asked[t].employee => home'[e] = home[e]
  BY <1>2, AskedTyped DEF MovesSafe, T!TypeOK, T!HomeRow
<1>5. Arrived(t)'
  BY <1>4 DEF Arrived
<1>6. ASSUME NEW u \in Transfers, Arrived(u) PROVE Arrived(u)'
  <2>1. CASE Asked[u].employee = Asked[t].employee
    <3>1. u = t \/ ~Sole(u)
      BY <1>3, <2>1 DEF Sole
    <3>2. QED
      BY <1>5, <3>1 DEF Arrived
  <2>2. CASE Asked[u].employee # Asked[t].employee
    BY <1>4, <1>6, <2>2, AskedTyped DEF Arrived
  <2>3. QED
    BY <2>1, <2>2
<1>7. PICK q : q = [move[c] EXCEPT !.pc = "status"]
  OBVIOUS
<1>8. /\ q \in T!CallState /\ q.pc = "status" /\ q.t = t /\ q.next = "completed" /\ q.due = move[c].due
      /\ move' = [move EXCEPT ![c] = q]
  BY <1>1, <1>2, <1>3, <1>7, MoverTyped DEF T!CallState, T!Pc
<1>9. MoverKnows(q)'
  BY <1>5, <1>8, MoverTyped DEF MoverKnows
<1>10. /\ link' \in [Links -> T!LinkRow] /\ OneLink' /\ transfer' \in [Transfers -> T!TransferRow]
       /\ \A u \in Transfers : transfer'[u].status = "completed" => transfer[u].status = "completed"
  BY <1>2 DEF MovesSafe, T!TypeOK, OneLink
<1>11. QED
  BY <1>2, <1>4, <1>6, <1>8, <1>9, <1>10, MoverSteps

LEMMA AddMoves ==
    ASSUME MovesSafe, NEW c \in Calls, NEW l \in Links, T!AddLink(c, l),
           NEW t \in Transfers, t = move[c].t
    PROVE  /\ MovesSafe' /\ T!LinksFor(t)' = {l} /\ Owned(l, t)'
           /\ \A m \in Links, u \in Transfers : Owned(m, u) => Owned(m, u)'
           /\ \A d \in Employees, r \in Stores :
                 <<d, r>> # T!Pair(t) => T!LinksOf(d, r)' = T!LinksOf(d, r)
<1>1. t = move[c].t
  OBVIOUS
<1>2. /\ move[c].pc = "link" /\ T!Upserted(l, Asked[t].employee, Asked[t].to, "guest")
      /\ move' = [move EXCEPT ![c].pc = "status", ![c].link = l] /\ UNCHANGED <<date, transfer, home>>
  BY <1>1 DEF T!AddLink
<1>3. T!Temporary(t) /\ move[c].next = "active"
  BY <1>1, <1>2, MoverTyped DEF MoverKnows
<1>4. T!TypeOK /\ OneLink
  BY DEF MovesSafe
<1>5. /\ link' \in [Links -> T!LinkRow] /\ OneLink'
      /\ T!LinksOf(Asked[t].employee, Asked[t].to)' = {l}
      /\ \A d \in Employees, r \in Stores :
            <<d, r>> # <<Asked[t].employee, Asked[t].to>> => T!LinksOf(d, r)' = T!LinksOf(d, r)
      /\ \A m \in Links, u \in Transfers :
            Owned(m, u) \/ (m = l /\ T!Pair(u) = <<Asked[t].employee, Asked[t].to>>) => Owned(m, u)'
  BY <1>2, <1>4, AskedTyped, UpsertedLinks
<1>6. PICK q : q = [move[c] EXCEPT !.pc = "status", !.link = l]
  OBVIOUS
<1>7. /\ q \in T!CallState /\ q.pc = "status" /\ q.t = t /\ q.next = "active" /\ q.due = move[c].due
      /\ q.link = l
  BY <1>1, <1>3, <1>6, MoverTyped DEF T!CallState, T!Pc
<1>8. move' = [move EXCEPT ![c] = q]
  BY <1>2, <1>4, <1>6 DEF T!TypeOK
<1>9. MoverKnows(q)'
  BY <1>7, MoverTyped DEF MoverKnows
<1>10. /\ home' \in [Employees -> T!HomeRow] /\ transfer' \in [Transfers -> T!TransferRow]
       /\ \A u \in Transfers : transfer'[u].status = "completed" => transfer[u].status = "completed"
       /\ \A u \in Transfers : Arrived(u) => Arrived(u)'
  BY <1>2 DEF MovesSafe, T!TypeOK, Arrived
<1>11. MovesSafe'
  BY <1>2, <1>5, <1>7, <1>8, <1>9, <1>10, MoverSteps
<1>12. QED
  BY <1>5, <1>11 DEF T!LinksFor, T!Pair

LEMMA RemoveMoves ==
    ASSUME MovesSafe, NEW c \in Calls, T!RemoveLink(c)
    PROVE  /\ MovesSafe'
           /\ \A m \in Links, u \in Transfers : Owned(m, u) => Owned(m, u)'
           /\ \A d \in Employees, r \in Stores : T!LinksOf(d, r)' = T!LinksOf(d, r) \ {move[c].link}
<1>1. PICK l \in Links : l = move[c].link
  BY MoverTyped DEF T!RemoveLink, MoverKnows
<1>2. /\ move[c].pc = "unlink" /\ move' = [move EXCEPT ![c].pc = "status"]
      /\ link' = IF link[l].state = "present" THEN [link EXCEPT ![l].state = "gone"] ELSE link
      /\ UNCHANGED <<date, transfer, home>>
  BY <1>1 DEF T!RemoveLink
<1>3. /\ link' \in [Links -> T!LinkRow]
      /\ \A m \in Links : link'[m] = link[m]
                           \/ (m \in {l} /\ link'[m] = [link[m] EXCEPT !.state = "gone"])
      /\ \A m \in Links \cap {l} : link'[m].state # "present"
  <2>1. link \in [Links -> T!LinkRow]
    BY DEF MovesSafe, T!TypeOK
  <2>2. QED
    BY <1>2, <2>1 DEF T!LinkRow
<1>4. /\ OneLink'
      /\ \A m \in Links, u \in Transfers : Owned(m, u) => Owned(m, u)'
      /\ \A d \in Employees, r \in Stores : T!LinksOf(d, r)' = T!LinksOf(d, r) \ {l}
  BY <1>3, DeletedLinks DEF MovesSafe
<1>5. PICK q : q = [move[c] EXCEPT !.pc = "status"]
  OBVIOUS
<1>6. /\ q \in T!CallState /\ q.pc = "status" /\ q.t = move[c].t /\ q.next = move[c].next
      /\ q.due = move[c].due /\ q.t \in Transfers /\ move' = [move EXCEPT ![c] = q]
  BY <1>2, <1>5, MoverTyped DEF T!CallState, T!Pc
<1>7. MoverKnows(q)'
  <2>1. q.next \in {"completed", "cancelled"} /\ (q.next = "completed" => T!Temporary(q.t))
    BY <1>2, <1>6, MoverTyped DEF MoverKnows
  <2>2. q.next = "completed" => Arrived(q.t)'
    BY <2>1 DEF Arrived
  <2>3. QED
    BY <1>6, <2>1, <2>2, MoverTyped DEF MoverKnows
<1>8. /\ home' \in [Employees -> T!HomeRow] /\ transfer' \in [Transfers -> T!TransferRow]
      /\ \A u \in Transfers : transfer'[u].status = "completed" => transfer[u].status = "completed"
      /\ \A u \in Transfers : Arrived(u) => Arrived(u)'
  BY <1>2 DEF MovesSafe, T!TypeOK, Arrived
<1>9. MovesSafe'
  BY <1>2, <1>3, <1>4, <1>6, <1>7, <1>8, MoverSteps
<1>10. QED
  BY <1>1, <1>4, <1>9

LEMMA WriteMoves ==
    ASSUME MovesSafe, NEW c \in Calls, T!WriteStatus(c)
    PROVE  /\ MovesSafe' /\ move[c].t \in Transfers
           /\ transfer'[move[c].t].status = move[c].next
           /\ IF move[c].next = "active" THEN transfer'[move[c].t].link = move[c].link
                ELSE transfer'[move[c].t].link \in {Null, transfer[move[c].t].link}
           /\ \A u \in Transfers : u # move[c].t => transfer'[u] = transfer[u]
<1>1. PICK t \in Transfers : t = move[c].t
  BY MoverTyped DEF T!WriteStatus
<1>2. PICK k : k = T!LinkColumn(c)
  OBVIOUS
<1>3. PICK next : next = move[c].next
  OBVIOUS
<1>4. /\ k \in Links \cup {Null} /\ next \in T!Status
      /\ IF next = "active" THEN k = move[c].link ELSE k \in {Null, transfer[t].link}
  <2>1. move[c].link \in Links \cup {Null} /\ next \in T!Status
    BY <1>3, MoverTyped DEF T!CallState
  <2>2. transfer[t].link \in Links \cup {Null}
    BY DEF MovesSafe, T!TypeOK, T!TransferRow
  <2>3. QED
    BY <1>1, <1>2, <1>3, <2>1, <2>2 DEF T!LinkColumn
<1>5. transfer' = [transfer EXCEPT ![t] = [status |-> next, link |-> k]]
  BY <1>1, <1>2, <1>3 DEF T!WriteStatus
<1>6. /\ transfer' \in [Transfers -> T!TransferRow] /\ transfer'[t] = [status |-> next, link |-> k]
      /\ \A u \in Transfers : u # t => transfer'[u] = transfer[u]
  BY <1>4, <1>5 DEF MovesSafe, T!TypeOK, T!TransferRow
<1>7. PICK q : q = IF move[c].op = "sweep"
                   THEN [move[c] EXCEPT !.pc = IF next = "active" THEN "opening" ELSE "closing",
                                        !.t = Null, !.link = Null, !.next = "none"]
                   ELSE T!Idle
  OBVIOUS
<1>8. q \in T!CallState /\ MoverKnows(q)'
  <2>1. move[c] \in T!CallState /\ MoverKnows(move[c])
    BY MoverTyped
  <2>2. CASE move[c].op = "sweep"
    <3>1. PICK at \in {"opening", "closing"} : at = IF next = "active" THEN "opening" ELSE "closing"
      OBVIOUS
    <3>2. q = [move[c] EXCEPT !.pc = at, !.t = Null, !.link = Null, !.next = "none"]
      BY <1>7, <2>2, <3>1
    <3>3. q \in T!CallState /\ q.pc = at /\ q.due = move[c].due
      BY <2>1, <3>2 DEF T!CallState, T!Pc, T!Status
    <3>4. QED
      BY <2>1, <3>3 DEF MoverKnows
  <2>3. CASE move[c].op # "sweep"
    BY <1>7, <2>3, IdleMover
  <2>4. QED
    BY <2>2, <2>3
<1>9. move' = [move EXCEPT ![c] = q] /\ UNCHANGED <<date, link, home>>
  BY <1>3, <1>7 DEF T!WriteStatus, T!Become
<1>10. /\ link' \in [Links -> T!LinkRow] /\ home' \in [Employees -> T!HomeRow] /\ OneLink'
       /\ \A u \in Transfers : Arrived(u) => Arrived(u)'
  BY <1>9 DEF MovesSafe, T!TypeOK, OneLink, Arrived
<1>11. \A u \in Transfers : transfer'[u].status = "completed" =>
          transfer[u].status = "completed" \/ Arrived(u)
  <2>1. move[c].pc = "status"
    BY DEF T!WriteStatus
  <2>2. next = "completed" => Arrived(t)
    BY <1>1, <1>3, <2>1, MoverTyped DEF MoverKnows
  <2>3. QED
    BY <1>6, <2>2
<1>12. MovesSafe'
  BY <1>6, <1>8, <1>9, <1>10, <1>11, MoverSteps
<1>13. QED
  BY <1>1, <1>3, <1>4, <1>6, <1>12

\* The sweep: its two lists and the transfers it takes off them.
LEMMA SweepMoves ==
    ASSUME MovesSafe, NEW c \in Calls,
           T!Open(c) \/ T!FindOverdue(c) \/ T!Close(c) \/ T!EndSweep(c)
    PROVE  MovesSafe'
<1>1. move[c] \in T!CallState /\ MoverKnows(move[c])
  BY MoverTyped
<1>2. CASE T!Open(c)
  <2>1. PICK d \in move[c].due :
           move' = [move EXCEPT ![c] = [move[c] EXCEPT !.pc = "link", !.t = d.t, !.next = "active",
                                                       !.due = @ \ {d}]]
    BY <1>2 DEF T!Open, T!Become
  <2>2. PICK q : q = [move[c] EXCEPT !.pc = "link", !.t = d.t, !.next = "active", !.due = @ \ {d}]
    OBVIOUS
  <2>3. d.t \in Transfers /\ T!Temporary(d.t)
    BY <1>1, <2>1 DEF T!CallState, T!Due, MoverKnows
  <2>4. /\ q \in T!CallState /\ q.pc = "link" /\ q.t = d.t /\ q.next = "active"
        /\ q.due = move[c].due \ {d}
    BY <1>1, <2>2, <2>3 DEF T!CallState, T!Pc, T!Status
  <2>5. move' = [move EXCEPT ![c] = q] /\ UNCHANGED <<date, transfer, link, home>> /\ MoverKnows(q)
    BY <1>1, <1>2, <2>1, <2>2, <2>3, <2>4 DEF T!Open, MoverKnows
  <2>6. QED
    BY <2>4, <2>5, MoverReads
<1>3. CASE T!FindOverdue(c)
  <2>1. PICK due : due = T!Listed(T!DueToRevert(move[c].date))
    OBVIOUS
  <2>2. due \in SUBSET T!Due /\ \A d \in due : T!Temporary(d.t)
    BY <2>1 DEF MovesSafe, T!TypeOK, T!TransferRow, T!Listed, T!DueToRevert, T!Due
  <2>3. PICK q : q = [move[c] EXCEPT !.pc = "closing", !.due = due]
    OBVIOUS
  <2>4. q \in T!CallState /\ q.pc = "closing" /\ q.due = due
    BY <1>1, <2>2, <2>3 DEF T!CallState, T!Pc
  <2>5. move' = [move EXCEPT ![c] = q] /\ UNCHANGED <<date, transfer, link, home>> /\ MoverKnows(q)
    BY <1>3, <2>1, <2>2, <2>3, <2>4 DEF T!FindOverdue, T!Become, MoverKnows
  <2>6. QED
    BY <2>4, <2>5, MoverReads
<1>4. CASE T!Close(c)
  <2>1. PICK d \in move[c].due :
           move' = [move EXCEPT ![c] = [move[c] EXCEPT !.pc = IF d.link = Null THEN "status" ELSE "unlink",
                                                       !.t = d.t, !.link = d.link,
                                                       !.next = "completed", !.due = @ \ {d}]]
    BY <1>4 DEF T!Close, T!Become
  <2>2. PICK at \in {"status", "unlink"} : at = IF d.link = Null THEN "status" ELSE "unlink"
    OBVIOUS
  <2>3. PICK q : q = [move[c] EXCEPT !.pc = at, !.t = d.t, !.link = d.link, !.next = "completed",
                                     !.due = @ \ {d}]
    OBVIOUS
  <2>4. /\ d.t \in Transfers /\ T!Temporary(d.t) /\ d.link \in Links \cup {Null}
        /\ at = "unlink" => d.link \in Links
    BY <1>1, <2>1, <2>2 DEF T!CallState, T!Due, MoverKnows
  <2>5. /\ q \in T!CallState /\ q.pc = at /\ q.t = d.t /\ q.link = d.link /\ q.next = "completed"
        /\ q.due = move[c].due \ {d}
    BY <1>1, <2>2, <2>3, <2>4 DEF T!CallState, T!Pc, T!Status
  <2>6. MoverKnows(q)
    BY <1>1, <2>2, <2>4, <2>5 DEF MoverKnows, Arrived
  <2>7. move' = [move EXCEPT ![c] = q] /\ UNCHANGED <<date, transfer, link, home>>
    BY <1>4, <2>1, <2>2, <2>3 DEF T!Close
  <2>8. QED
    BY <2>5, <2>6, <2>7, MoverReads
<1>5. CASE T!EndSweep(c)
  <2>1. move' = [move EXCEPT ![c] = T!Idle] /\ UNCHANGED <<date, transfer, link, home>>
    BY <1>5 DEF T!EndSweep, T!Answer, T!Become
  <2>2. QED
    BY <2>1, IdleMover, MoverReads
<1>6. QED
  BY <1>2, <1>3, <1>4, <1>5

LEMMA DiesMoves == ASSUME MovesSafe, NEW c \in Calls, T!Crash(c) PROVE MovesSafe'
<1>1. PICK q : q = [T!Idle EXCEPT !.pc = "dead"]
  OBVIOUS
<1>2. q \in T!CallState /\ q.pc = "dead" /\ q.due = {}
  BY <1>1, IdleMover DEF T!CallState, T!Idle, T!Pc
<1>3. move' = [move EXCEPT ![c] = q] /\ UNCHANGED <<date, transfer, link, home>> /\ MoverKnows(q)
  BY <1>1, <1>2 DEF T!Crash, T!Become, MoverKnows
<1>4. QED
  BY <1>2, <1>3, MoverReads

\* The steps that are no call's.
LEMMA NobodyMoves ==
    ASSUME MovesSafe, UNCHANGED <<transfer, move>>,
           date' \in T!Day, link' \in [Links -> T!LinkRow], OneLink', home' \in [Employees -> T!HomeRow],
           \A t \in Transfers : Arrived(t) => Arrived(t)'
    PROVE  MovesSafe'
<1>1. T!TypeOK'
  BY DEF MovesSafe, T!TypeOK
<1>2. ASSUME NEW c \in Calls PROVE MoverKnows(move[c])'
  <2>1. MoverKnows(move[c])
    BY DEF MovesSafe
  <2>2. QED
    BY <2>1 DEF MoverKnows
<1>3. QED
  BY <1>1, <1>2 DEF MovesSafe

\* HR enters a primary store: the employee is no longer where a transfer put them.
LEMMA EditMoves ==
    ASSUME MovesSafe, NEW e \in Employees, NEW s \in Stores, T!UpdateEmployee(e, s)
    PROVE  MovesSafe' /\ UNCHANGED <<date, transfer, link, move>>
<1>1. PICK h : h = [store |-> s, edited |-> TRUE]
  OBVIOUS
<1>2. h \in T!HomeRow /\ h.edited
  BY <1>1 DEF T!HomeRow
<1>3. home' = [home EXCEPT ![e] = h] /\ UNCHANGED <<date, transfer, link, move>>
  BY <1>1 DEF T!UpdateEmployee
<1>4. /\ home' \in [Employees -> T!HomeRow] /\ home'[e] = h
      /\ \A d \in Employees : d # e => home'[d] = home[d]
  BY <1>2, <1>3 DEF MovesSafe, T!TypeOK
<1>5. ASSUME NEW t \in Transfers, Arrived(t) PROVE Arrived(t)'
  BY <1>2, <1>4, <1>5, AskedTyped DEF Arrived
<1>6. date' \in T!Day /\ link' \in [Links -> T!LinkRow] /\ OneLink'
  BY <1>3 DEF MovesSafe, T!TypeOK, OneLink
<1>7. QED
  BY <1>3, <1>4, <1>5, <1>6, NobodyMoves

LEMMA ByHandMoves ==
    ASSUME MovesSafe, NEW e \in Employees, NEW s \in Stores,
           (\E l \in Links : T!AddStoreLink(e, s, l)) \/ T!RemoveStoreLink(e, s)
    PROVE  /\ MovesSafe' /\ UNCHANGED <<date, transfer, home, move>> /\ <<e, s>> \in ByHand
           /\ \A m \in Links, u \in Transfers : Owned(m, u) => Owned(m, u)'
           /\ \A d \in Employees, r \in Stores :
                 <<d, r>> # <<e, s>> => T!LinksOf(d, r)' = T!LinksOf(d, r)
<1>0. home' = home => home' \in [Employees -> T!HomeRow] /\ \A t \in Transfers : Arrived(t) => Arrived(t)'
  BY DEF MovesSafe, T!TypeOK, Arrived
<1>1. T!TypeOK /\ OneLink /\ date \in T!Day
  BY DEF MovesSafe, T!TypeOK
<1>2. CASE \E l \in Links : T!AddStoreLink(e, s, l)
  <2>1. PICK l \in Links : T!AddStoreLink(e, s, l)
    BY <1>2
  <2>2. /\ UNCHANGED <<date, transfer, home, move>> /\ <<e, s>> \in ByHand
        /\ T!Upserted(l, e, s, "secondary")
    BY <2>1 DEF T!AddStoreLink
  <2>3. /\ link' \in [Links -> T!LinkRow] /\ OneLink'
        /\ \A m \in Links, u \in Transfers : Owned(m, u) => Owned(m, u)'
        /\ \A d \in Employees, r \in Stores :
              <<d, r>> # <<e, s>> => T!LinksOf(d, r)' = T!LinksOf(d, r)
    BY <1>1, <2>2, UpsertedLinks
  <2>4. QED
    BY <1>0, <1>1, <2>2, <2>3, NobodyMoves
<1>3. CASE T!RemoveStoreLink(e, s)
  <2>1. UNCHANGED <<date, transfer, home, move>> /\ <<e, s>> \in ByHand
    BY <1>3 DEF T!RemoveStoreLink
  <2>2. PICK L : L = T!LinksOf(e, s)
    OBVIOUS
  <2>3. /\ link' \in [Links -> T!LinkRow]
        /\ \A m \in Links : link'[m] = link[m]
                             \/ (m \in L /\ link'[m] = [link[m] EXCEPT !.state = "gone"])
        /\ \A m \in Links \cap L : link'[m].state # "present"
    <3>1. link \in [Links -> T!LinkRow]
      BY <1>1 DEF T!TypeOK
    <3>2. link' = [m \in Links |-> IF m \in L THEN [link[m] EXCEPT !.state = "gone"] ELSE link[m]]
      BY <1>3, <2>2 DEF T!RemoveStoreLink
    <3>3. QED
      BY <3>1, <3>2 DEF T!LinkRow
  <2>4. /\ OneLink'
        /\ \A m \in Links, u \in Transfers : Owned(m, u) => Owned(m, u)'
        /\ \A d \in Employees, r \in Stores : T!LinksOf(d, r)' = T!LinksOf(d, r) \ L
    BY <1>1, <2>3, DeletedLinks
  <2>5. ASSUME NEW d \in Employees, NEW r \in Stores, <<d, r>> # <<e, s>>
        PROVE  T!LinksOf(d, r) \ L = T!LinksOf(d, r)
    BY <2>2, <2>5 DEF T!LinksOf
  <2>6. QED
    BY <1>0, <1>1, <2>1, <2>3, <2>4, <2>5, NobodyMoves
<1>4. QED
  BY <1>2, <1>3

LEMMA MovesStep == MovesSafe /\ [T!Next]_transfers => MovesSafe'
<1> SUFFICES ASSUME MovesSafe, [T!Next]_transfers PROVE MovesSafe'
  OBVIOUS
<1>1. CASE UNCHANGED transfers
  <2>1. /\ link' \in [Links -> T!LinkRow] /\ OneLink' /\ date' \in T!Day
        /\ home' \in [Employees -> T!HomeRow] /\ \A t \in Transfers : Arrived(t) => Arrived(t)'
    BY <1>1 DEF transfers, MovesSafe, T!TypeOK, OneLink, Arrived
  <2>2. QED
    BY <1>1, <2>1, NobodyMoves DEF transfers
<1>2. CASE T!Tick
  <2>1. /\ link' \in [Links -> T!LinkRow] /\ OneLink' /\ date' \in T!Day
        /\ home' \in [Employees -> T!HomeRow] /\ \A t \in Transfers : Arrived(t) => Arrived(t)'
    BY <1>2, PersonnelAssumption
    DEF T!Tick, T!TransfersAssumption, MovesSafe, T!TypeOK, OneLink, T!Day, Arrived
  <2>2. QED
    BY <1>2, <2>1, NobodyMoves DEF T!Tick
<1>3. ASSUME NEW c \in Calls, T!BeginSweep(c) \/ T!Proceed(c) \/ T!Crash(c) PROVE MovesSafe'
  <2>1. ASSUME NEW l \in Links, T!AddLink(c, l) PROVE MovesSafe'
    <3>1. PICK t \in Transfers : t = move[c].t
      BY <2>1, MoverTyped DEF T!AddLink
    <3>2. QED
      BY <2>1, <3>1, AddMoves
  <2>2. QED
    BY <1>3, <2>1, BeginMoves, InsertMoves, HomeMoves, RemoveMoves, WriteMoves, SweepMoves, DiesMoves
       DEF T!Proceed
<1>4. QED
  BY <1>1, <1>2, <1>3, BeginMoves, ByHandMoves, EditMoves DEF T!Next

\* What the call with the locals p knows when it is the only one ...
Engaged(p) ==
    /\ p.pc = "insert" => p.op = "create" /\ transfer[p.t].status = "none"
    /\ p.pc = "home" => p.op = "approve"
    /\ p.pc \in {"opening", "closing"} => p.op = "sweep"
    /\ p.pc = "link" => transfer[p.t].status \in {"requested", "approved"}
    /\ p.pc = "unlink" => transfer[p.t].status = "active" /\ p.link = transfer[p.t].link
    /\ p.pc = "status" =>
          \/ /\ p.next = "active" /\ T!Temporary(p.t) /\ Owned(p.link, p.t)
             /\ T!Alone(p.t) => T!LinksFor(p.t) = {p.link}
          \/ p.next \in {"approved", "rejected"} /\ transfer[p.t].status = "requested"
          \/ p.next = "cancelled"
          \/ p.next = "completed" /\ (T!Alone(p.t) => T!LinksFor(p.t) = {})

\* ... and is a sweep: everything due is on its list or in its hands.
Taken(p, t) == t = p.t \/ \E d \in p.due : d.t = t
Opens(p) == p.pc = "opening" \/ p.next = "active"
Closes(p) == p.pc = "closing" \/ p.next = "completed"
Sweeps(p) ==
    /\ \/ p.pc \in {"opening", "closing"} /\ p.t = Null /\ p.next = "none"
       \/ p.pc \in {"link", "unlink", "status"}
    /\ Opens(p) \/ Closes(p)
    /\ \A d \in p.due : d.t # p.t /\ d.link = transfer[d.t].link
    /\ Opens(p) => /\ \A d \in p.due : transfer[d.t].status = "approved"
                   /\ \A t \in T!DueToActivate(p.date) : Taken(p, t)
    /\ Closes(p) => /\ \A d \in p.due : transfer[d.t].status = "active"
                    /\ T!DueToActivate(p.date) = {}
                    /\ \A t \in T!DueToRevert(p.date) : Taken(p, t)

\* A call is about to write t down as active, or as over.
OpensFor(p, t) == p.pc = "status" /\ p.t = t /\ p.next = "active"
EndsFor(p, t) == p.pc = "status" /\ p.t = t /\ p.next \in {"completed", "cancelled"}
Opening(t) == \E c \in Calls : OpensFor(move[c], t)
Ending(t) == \E c \in Calls : EndsFor(move[c], t)

OneMoves == \A c, d \in Calls : T!Running(c) /\ T!Running(d) => c = d
MoversHold ==
    \A c \in Calls : /\ T!Running(c) => Engaged(move[c])
                     /\ move[c].op = "sweep" => Sweeps(move[c])
RowsHold ==
    \A t \in Transfers : /\ transfer[t].status = "active" => T!Temporary(t)
                         /\ transfer[t].link # Null => Owned(transfer[t].link, t)
Guest(t) ==
    /\ transfer[t].status = "active" => transfer[t].link # Null /\ T!LinksFor(t) \subseteq {transfer[t].link}
    /\ transfer[t].status = "completed" => T!LinksFor(t) = {}
GuestsHold == \A t \in Transfers : T!Alone(t) => Guest(t)

\* Where no call has died a guest is linked exactly when the row, or what is
\* about to be written there, says so.
NoneDead == \A c \in Calls : move[c].pc # "dead"
VisitsHold ==
    NoneDead => \A t \in Transfers : T!Alone(t) =>
        (T!LinksFor(t) # {} <=> Opening(t) \/ (transfer[t].status = "active" /\ ~Ending(t)))

GuestsSafe == OneMoves /\ MoversHold /\ RowsHold /\ GuestsHold /\ VisitsHold

LEMMA GuestsInit == T!Init => GuestsSafe
<1> SUFFICES ASSUME T!Init PROVE GuestsSafe
  OBVIOUS
<1>1. /\ \A c \in Calls : move[c].pc = "idle" /\ move[c].op = "none"
      /\ \A t \in Transfers : transfer[t].status = "none" /\ transfer[t].link = Null
      /\ \A l \in Links : link[l].state = "none"
  BY DEF T!Init, T!Idle, T!NoLink
<1>2. \A t \in Transfers : T!LinksFor(t) = {}
  BY <1>1 DEF T!LinksFor, T!LinksOf
<1>3. QED
  BY <1>1, <1>2 DEF GuestsSafe, OneMoves, MoversHold, RowsHold, GuestsHold, VisitsHold, Guest, Opening,
     OpensFor, T!Running

\* A step of the call c is a step of the only one.
LEMMA Single ==
    ASSUME Exclusive, GuestsSafe, NEW c \in Calls, T!Begin(c) \/ T!Running(c)
    PROVE  /\ move[c].pc # "dead"
           /\ \A d \in Calls \ {c} : ~T!Running(d)
           /\ \A t \in Transfers : /\ Opening(t) <=> OpensFor(move[c], t)
                                   /\ Ending(t) <=> EndsFor(move[c], t)
<1>1. \A d \in Calls \ {c} : ~T!Running(d)
  BY DEF GuestsSafe, OneMoves, T!Begin
<1>2. \A d \in Calls, t \in Transfers : OpensFor(move[d], t) \/ EndsFor(move[d], t) => T!Running(d)
  BY DEF OpensFor, EndsFor, T!Running
<1>3. QED
  BY <1>1, <1>2 DEF Opening, Ending, T!Begin, T!Running

\* t is linked, as the call with the locals p sees it.
Visited(p, t) == OpensFor(p, t) \/ (transfer[t].status = "active" /\ ~EndsFor(p, t))

LEMMA VisitsSeen ==
    ASSUME Exclusive, GuestsSafe, NEW c \in Calls, T!Begin(c) \/ T!Running(c), NoneDead,
           NEW t \in Transfers, T!Alone(t)
    PROVE  T!LinksFor(t) # {} <=> Visited(move[c], t)
  BY Single DEF GuestsSafe, VisitsHold, Visited

\* A step of the call c that leaves the locals q.
LEMMA GuestStep ==
    ASSUME Exclusive, GuestsSafe, T!TypeOK, NEW c \in Calls, T!Begin(c) \/ T!Running(c),
           NEW q \in T!CallState, move' = [move EXCEPT ![c] = q],
           q.pc \notin {"idle", "dead"} => Engaged(q)', q.op = "sweep" => Sweeps(q)',
           RowsHold', GuestsHold',
           NoneDead /\ q.pc # "dead" => \A t \in Transfers : T!Alone(t) => (T!LinksFor(t)' # {} <=> Visited(q, t)')
    PROVE  GuestsSafe'
<1>1. /\ move'[c] = q /\ \A d \in Calls : d # c => move'[d] = move[d]
      /\ \A d \in Calls \ {c} : ~T!Running(d)
      /\ move[c].pc # "dead"
  BY Single DEF T!TypeOK
<1>2. \A d \in Calls : d # c => move'[d].pc \in {"idle", "dead"}
  BY <1>1 DEF T!Running
<1>3. OneMoves'
  BY <1>2 DEF OneMoves, T!Running
<1>4. ASSUME NEW d \in Calls
      PROVE  /\ move'[d].pc \notin {"idle", "dead"} => Engaged(move[d])'
             /\ move'[d].op = "sweep" => Sweeps(move[d])'
  <2>1. CASE d = c
    BY <1>1, <2>1 DEF Engaged, Sweeps, Taken
  <2>2. CASE d # c
    <3>1. move'[d].op # "sweep"
      BY <1>1, <2>2 DEF GuestsSafe, MoversHold, Sweeps, T!Running
    <3>2. QED
      BY <1>2, <2>2, <3>1
  <2>3. QED
    BY <2>1, <2>2
<1>5. MoversHold'
  BY <1>4 DEF MoversHold, T!Running
<1>6. VisitsHold'
  <2>1. SUFFICES ASSUME NoneDead', NEW t \in Transfers, T!Alone(t)
                 PROVE  T!LinksFor(t)' # {} <=> Opening(t)' \/ (transfer'[t].status = "active" /\ ~Ending(t)')
    BY DEF VisitsHold, T!Alone, T!Temporary, T!Pair
  <2>2. NoneDead /\ q.pc # "dead"
    BY <1>1, <2>1 DEF NoneDead
  <2>3. T!LinksFor(t)' # {} <=> Visited(q, t)'
    BY <2>1, <2>2
  <2>4. (Opening(t)' <=> OpensFor(q, t)) /\ (Ending(t)' <=> EndsFor(q, t))
    BY <1>1, <1>2 DEF Opening, Ending, OpensFor, EndsFor
  <2>5. QED
    BY <2>3, <2>4 DEF Visited, OpensFor, EndsFor
<1>7. QED
  BY <1>3, <1>5, <1>6 DEF GuestsSafe

\* One that changes neither rows nor links.
LEMMA GuestReads ==
    ASSUME Exclusive, GuestsSafe, T!TypeOK, NEW c \in Calls, T!Begin(c) \/ T!Running(c),
           NEW q \in T!CallState, move' = [move EXCEPT ![c] = q], UNCHANGED <<transfer, link>>,
           q.pc \notin {"idle", "dead"} => Engaged(q), q.op = "sweep" => Sweeps(q),
           q.pc # "dead" => \A t \in Transfers : T!Alone(t) => (Visited(move[c], t) <=> Visited(q, t))
    PROVE  GuestsSafe'
<1>1. /\ q.pc \notin {"idle", "dead"} => Engaged(q)'
      /\ q.op = "sweep" => Sweeps(q)'
  BY DEF Engaged, Owned, Sweeps, Taken, T!LinksFor, T!LinksOf, T!DueToActivate, T!DueToRevert
<1>2. RowsHold' /\ GuestsHold'
  BY DEF GuestsSafe, RowsHold, GuestsHold, Guest, Owned, T!LinksFor, T!LinksOf
<1>3. ASSUME NoneDead, q.pc # "dead", NEW t \in Transfers, T!Alone(t)
      PROVE  T!LinksFor(t)' # {} <=> Visited(q, t)'
  <2>1. T!LinksFor(t) # {} <=> Visited(move[c], t)
    BY <1>3, VisitsSeen
  <2>2. (T!LinksFor(t)' = T!LinksFor(t)) /\ (Visited(q, t)' <=> Visited(q, t))
    BY DEF T!LinksFor, T!LinksOf, Visited
  <2>3. QED
    BY <1>3, <2>1, <2>2
<1>4. QED
  BY <1>1, <1>2, <1>3, GuestStep

LEMMA GuestsNow ==
    ASSUME GuestsSafe, MovesSafe, NEW c \in Calls
    PROVE  /\ T!Running(c) => Engaged(move[c])
           /\ move[c].op = "sweep" => Sweeps(move[c])
           /\ T!TypeOK /\ move[c] \in T!CallState /\ MoverKnows(move[c])
           /\ RowsHold /\ GuestsHold
           /\ \A t \in Transfers : transfer[t].link \in Links \cup {Null}
  BY DEF GuestsSafe, MoversHold, MovesSafe, T!TypeOK, T!TransferRow

LEMMA ListHas ==
    ASSUME T!TypeOK, NEW S \in SUBSET Transfers
    PROVE  /\ T!Listed(S) \in SUBSET T!Due
           /\ \A d \in T!Listed(S) : d.t \in S /\ d.link = transfer[d.t].link
           /\ \A t \in S : \E d \in T!Listed(S) : d.t = t
<1>1. \A d \in T!Listed(S) : \E t \in S : d = [t |-> t, link |-> transfer[t].link]
  BY DEF T!Listed
<1>2. ASSUME NEW t \in S PROVE \E d \in T!Listed(S) : d.t = t
  <2>1. [t |-> t, link |-> transfer[t].link] \in T!Listed(S)
    BY DEF T!Listed
  <2>2. QED
    BY <2>1
<1>3. \A t \in Transfers : transfer[t].link \in Links \cup {Null}
  BY DEF T!TypeOK, T!TransferRow
<1>4. QED
  BY <1>1, <1>2, <1>3 DEF T!Due

LEMMA BeginGuests ==
    ASSUME Exclusive, MovesSafe, GuestsSafe, NEW c \in Calls,
           \/ T!BeginSweep(c)
           \/ \E t \in Transfers : \/ T!FindEmployee(c, t) \/ T!ReadForApproval(c, t)
                                    \/ T!ReadForRejection(c, t) \/ T!ReadForCancel(c, t)
    PROVE  GuestsSafe'
<1>1. T!Begin(c) /\ move[c].pc = "idle" /\ T!TypeOK /\ Null \notin Transfers
  BY GuestsNow, PersonnelAssumption DEF T!BeginSweep, T!FindEmployee, T!ReadForApproval, T!ReadForRejection,
     T!ReadForCancel, T!Begin, T!TransfersAssumption
<1>2. \A t : Visited(move[c], t) <=> transfer[t].status = "active"
  BY <1>1 DEF Visited, OpensFor, EndsFor
<1>3. ASSUME NEW t \in Transfers, NEW op \in {"approve", "reject", "cancel"},
             NEW at \in {"home", "link", "unlink", "status"}, NEW next \in T!Status,
             T!Decides(c, op, t, at, next),
             at = "home" => op = "approve",
             at = "link" => transfer[t].status \in {"requested", "approved"},
             at = "unlink" => transfer[t].status = "active",
             at = "status" => \/ next \in {"approved", "rejected"} /\ transfer[t].status = "requested"
                              \/ next = "cancelled" /\ (transfer[t].status = "active" => transfer[t].link = Null)
      PROVE  GuestsSafe'
  <2>1. PICK k : k = transfer[t].link
    OBVIOUS
  <2>2. PICK q : q = [T!Idle EXCEPT !.pc = at, !.op = op, !.t = t, !.next = next, !.link = k]
    OBVIOUS
  <2>3. /\ q \in T!CallState /\ q.pc = at /\ q.op = op /\ q.t = t /\ q.next = next /\ q.link = k
    <3>1. k \in Links \cup {Null}
      BY <2>1, GuestsNow
    <3>2. QED
      BY <2>2, <3>1, IdleMover DEF T!CallState, T!Idle, T!Pc
  <2>4. move' = [move EXCEPT ![c] = q] /\ UNCHANGED <<transfer, link>>
    BY <1>3, <2>1, <2>2 DEF T!Decides, T!Become
  <2>5. Engaged(q)
    BY <1>3, <2>1, <2>3 DEF Engaged
  <2>6. ASSUME NEW u \in Transfers, T!Alone(u) PROVE Visited(move[c], u) <=> Visited(q, u)
    <3>1. transfer[u].status = "active" => transfer[u].link # Null
      BY <2>6, GuestsNow DEF GuestsHold, Guest
    <3>2. QED
      BY <1>2, <1>3, <2>3, <3>1 DEF Visited, OpensFor, EndsFor
  <2>7. q.op # "sweep"
    BY <2>3
  <2>8. QED
    BY <1>1, <2>3, <2>4, <2>5, <2>6, <2>7, GuestReads
<1>4. ASSUME NEW t \in Transfers, T!ReadForApproval(c, t) PROVE GuestsSafe'
  <2>1. \/ T!Decides(c, "approve", t, "home", "completed")
        \/ T!Decides(c, "approve", t, "link", "active")
        \/ T!Decides(c, "approve", t, "status", "approved")
    BY <1>4 DEF T!ReadForApproval
  <2>2. {"completed", "active", "approved"} \subseteq T!Status /\ transfer[t].status = "requested"
    BY <1>4 DEF T!Status, T!ReadForApproval
  <2>3. QED
    BY <1>3, <2>1, <2>2
<1>5. ASSUME NEW t \in Transfers, T!ReadForRejection(c, t) PROVE GuestsSafe'
  BY <1>3, <1>5 DEF T!ReadForRejection, T!Status
<1>6. ASSUME NEW t \in Transfers, T!ReadForCancel(c, t) PROVE GuestsSafe'
  <2>1. PICK at : at = IF transfer[t].status = "active" /\ transfer[t].link # Null THEN "unlink" ELSE "status"
    OBVIOUS
  <2>2. T!Decides(c, "cancel", t, at, "cancelled") /\ at \in {"unlink", "status"}
    BY <1>6, <2>1 DEF T!ReadForCancel
  <2>3. /\ at = "unlink" => transfer[t].status = "active"
        /\ at = "status" => (transfer[t].status = "active" => transfer[t].link = Null)
    BY <2>1
  <2>4. QED
    BY <1>3, <2>2, <2>3 DEF T!Status
<1>7. ASSUME NEW t \in Transfers, T!FindEmployee(c, t) PROVE GuestsSafe'
  <2>1. PICK q : q = [T!Idle EXCEPT !.pc = "insert", !.op = "create", !.t = t]
    OBVIOUS
  <2>2. q \in T!CallState /\ q.pc = "insert" /\ q.op = "create" /\ q.t = t
    BY <2>1, IdleMover DEF T!CallState, T!Idle, T!Pc
  <2>3. move' = [move EXCEPT ![c] = q] /\ UNCHANGED <<transfer, link>> /\ transfer[t].status = "none"
    BY <1>7, <2>1 DEF T!FindEmployee, T!Become
  <2>4. Engaged(q) /\ \A u : Visited(q, u) <=> transfer[u].status = "active"
    BY <2>2, <2>3 DEF Engaged, Visited, OpensFor, EndsFor
  <2>5. QED
    BY <1>1, <1>2, <2>2, <2>3, <2>4, GuestReads
<1>8. CASE T!BeginSweep(c)
  <2>1. PICK due : due = T!Listed(T!DueToActivate(date))
    OBVIOUS
  <2>2. PICK q : q = [T!Idle EXCEPT !.pc = "opening", !.op = "sweep", !.date = date, !.due = due]
    OBVIOUS
  <2>3. T!DueToActivate(date) \in SUBSET Transfers
    BY DEF T!DueToActivate
  <2>4. /\ \A d \in due : d.t \in T!DueToActivate(date) /\ d.link = transfer[d.t].link
        /\ \A t \in T!DueToActivate(date) : \E d \in due : d.t = t
        /\ due \in SUBSET T!Due
    BY <1>1, <2>1, <2>3, ListHas
  <2>5. /\ q \in T!CallState /\ q.pc = "opening" /\ q.op = "sweep" /\ q.due = due /\ q.date = date
        /\ q.t = Null /\ q.next = "none"
    BY <2>2, <2>4, MoverTyped, IdleMover DEF T!CallState, T!Idle, T!Pc
  <2>6. move' = [move EXCEPT ![c] = q] /\ UNCHANGED <<transfer, link>>
    BY <1>8, <2>1, <2>2 DEF T!BeginSweep, T!Become
  <2>7. Engaged(q) /\ \A u : Visited(q, u) <=> transfer[u].status = "active"
    BY <2>5 DEF Engaged, Visited, OpensFor, EndsFor
  <2>8. Sweeps(q)
    BY <1>1, <2>4, <2>5 DEF Sweeps, Opens, Closes, Taken, T!DueToActivate
  <2>9. QED
    BY <1>1, <1>2, <2>5, <2>6, <2>7, <2>8, GuestReads
<1>9. QED
  BY <1>4, <1>5, <1>6, <1>7, <1>8

LEMMA InsertGuests ==
    ASSUME Exclusive, MovesSafe, GuestsSafe, NEW c \in Calls, T!InsertTransfer(c)
    PROVE  GuestsSafe'
<1>1. PICK t \in Transfers : t = move[c].t
  BY MoverTyped DEF T!InsertTransfer
<1>2. T!Running(c) /\ move[c].pc = "insert" /\ transfer[t].status = "none"
  BY <1>1, GuestsNow DEF T!InsertTransfer, T!Running, Engaged
<1>3. PICK q : q = T!Idle
  OBVIOUS
<1>4. /\ q \in T!CallState /\ q.pc = "idle" /\ q.op = "none" /\ move' = [move EXCEPT ![c] = q]
      /\ link' = link
  BY <1>3, IdleMover DEF T!Idle, T!InsertTransfer, T!Answer, T!Become
<1>5. /\ transfer'[t].status = "requested" /\ \A u \in Transfers : transfer'[u].link = transfer[u].link
      /\ \A u \in Transfers \ {t} : transfer'[u].status = transfer[u].status
  BY <1>1 DEF T!InsertTransfer, MovesSafe, T!TypeOK, T!TransferRow
<1>6. RowsHold' /\ GuestsHold'
  BY <1>4, <1>5, GuestsNow DEF RowsHold, GuestsHold, Guest, Owned, T!LinksFor, T!LinksOf, T!Temporary,
     T!Alone, T!Pair
<1>7. ASSUME NoneDead, NEW u \in Transfers, T!Alone(u)
      PROVE  T!LinksFor(u)' # {} <=> Visited(q, u)'
  <2>1. (T!LinksFor(u) # {} <=> Visited(move[c], u)) /\ (T!LinksFor(u)' = T!LinksFor(u))
    BY <1>2, <1>4, <1>7, VisitsSeen DEF T!LinksFor, T!LinksOf
  <2>2. /\ Visited(move[c], u) <=> transfer[u].status = "active"
        /\ Visited(q, u)' <=> transfer'[u].status = "active"
    BY <1>2, <1>4 DEF Visited, OpensFor, EndsFor
  <2>3. QED
    BY <1>2, <1>5, <2>1, <2>2
<1>8. QED
  BY <1>2, <1>4, <1>6, <1>7, GuestsNow, GuestStep

LEMMA HomeGuests ==
    ASSUME Exclusive, MovesSafe, GuestsSafe, NEW c \in Calls, T!SetPrimaryStore(c)
    PROVE  GuestsSafe'
<1>1. /\ T!Running(c) /\ move[c].pc = "home" /\ move[c].op = "approve" /\ move[c].next = "completed"
      /\ ~T!Temporary(move[c].t) /\ move[c] \in T!CallState
  BY GuestsNow DEF T!SetPrimaryStore, T!Running, Engaged, MoverKnows
<1>2. PICK q : q = [move[c] EXCEPT !.pc = "status"]
  OBVIOUS
<1>3. /\ q \in T!CallState /\ q.pc = "status" /\ q.op = "approve" /\ q.next = "completed"
      /\ ~T!Temporary(q.t)
  BY <1>1, <1>2 DEF T!CallState, T!Pc
<1>4. move' = [move EXCEPT ![c] = q] /\ UNCHANGED <<transfer, link>>
  BY <1>2, GuestsNow DEF T!SetPrimaryStore, T!TypeOK
<1>5. Engaged(q) /\ \A t : T!Alone(t) => t # q.t
  BY <1>3 DEF Engaged, T!Alone
<1>6. \A t \in Transfers : T!Alone(t) => (Visited(move[c], t) <=> Visited(q, t))
  BY <1>1, <1>5 DEF Visited, OpensFor, EndsFor
<1>7. QED
  BY <1>1, <1>3, <1>4, <1>5, <1>6, GuestsNow, GuestReads

\* Two temporary transfers, one of them alone, are of two pairs.
LEMMA Apart ==
    ASSUME NEW t \in Transfers, NEW u \in Transfers, t # u, T!Temporary(t), T!Alone(u)
    PROVE  /\ T!Pair(t) # T!Pair(u)
           /\ Asked[u].employee \in Employees /\ Asked[u].to \in Stores
  BY AskedTyped DEF T!Alone

LEMMA AddGuests ==
    ASSUME Exclusive, MovesSafe, GuestsSafe, NEW c \in Calls, NEW l \in Links, T!AddLink(c, l)
    PROVE  GuestsSafe'
<1>1. PICK t \in Transfers : t = move[c].t
  BY MoverTyped DEF T!AddLink
<1>2. /\ T!Running(c) /\ move[c].pc = "link" /\ move[c].next = "active" /\ T!Temporary(t)
      /\ transfer[t].status \in {"requested", "approved"} /\ move[c] \in T!CallState
      /\ l # Null
  BY <1>1, GuestsNow, AskedTyped DEF T!AddLink, T!Running, Engaged, MoverKnows
<1>3. /\ T!LinksFor(t)' = {l} /\ Owned(l, t)'
      /\ \A m \in Links, u \in Transfers : Owned(m, u) => Owned(m, u)'
      /\ \A d \in Employees, r \in Stores : <<d, r>> # T!Pair(t) => T!LinksOf(d, r)' = T!LinksOf(d, r)
  BY <1>1, AddMoves
<1>4. ASSUME NEW u \in Transfers, u # t, T!Alone(u) PROVE T!LinksFor(u)' = T!LinksFor(u)
  <2>1. <<Asked[u].employee, Asked[u].to>> # T!Pair(t) /\ Asked[u].employee \in Employees /\ Asked[u].to \in Stores
    BY <1>2, <1>4, Apart DEF T!Pair
  <2>2. QED
    BY <1>3, <2>1 DEF T!LinksFor
<1>5. PICK q : q = [move[c] EXCEPT !.pc = "status", !.link = l]
  OBVIOUS
<1>6. /\ q \in T!CallState /\ q.pc = "status" /\ q.op = move[c].op /\ q.t = t /\ q.next = "active"
      /\ q.link = l /\ q.due = move[c].due /\ q.date = move[c].date
  BY <1>1, <1>2, <1>5 DEF T!CallState, T!Pc
<1>7. move' = [move EXCEPT ![c] = q] /\ transfer' = transfer
  BY <1>5, GuestsNow DEF T!AddLink, T!TypeOK
<1>8. Engaged(q)'
  BY <1>2, <1>3, <1>6 DEF Engaged, T!Temporary
<1>9. q.op = "sweep" => Sweeps(q)'
  <2>1. SUFFICES ASSUME q.op = "sweep" PROVE Sweeps(q)'
    OBVIOUS
  <2>2. Sweeps(move[c])
    BY <1>6, <2>1, GuestsNow
  <2>3. QED
    BY <1>1, <1>2, <1>6, <1>7, <2>2 DEF Sweeps, Opens, Closes, Taken, T!DueToActivate, T!DueToRevert
<1>10. RowsHold'
  <2>1. \A u \in Transfers : transfer[u].link # Null => transfer[u].link \in Links
    BY GuestsNow
  <2>2. \A u \in Transfers, k \in Links : transfer[u].link = k => Owned(k, u)'
    BY <1>2, <1>3, GuestsNow, AskedTyped DEF RowsHold
  <2>3. QED
    BY <1>7, <2>1, <2>2, GuestsNow DEF RowsHold, Owned, T!Temporary
<1>11. GuestsHold'
  <2>1. ASSUME NEW u \in Transfers, T!Alone(u) PROVE Guest(u)'
    <3>1. Guest(u)
      BY <2>1, GuestsNow DEF GuestsHold
    <3>2. QED
      BY <1>2, <1>4, <1>7, <2>1, <3>1 DEF Guest
  <2>2. QED
    BY <2>1 DEF GuestsHold, T!Alone, T!Temporary, T!Pair
<1>12. ASSUME NoneDead, NEW u \in Transfers, T!Alone(u)
       PROVE  T!LinksFor(u)' # {} <=> Visited(q, u)'
  <2>1. T!LinksFor(u) # {} <=> Visited(move[c], u)
    BY <1>2, <1>12, VisitsSeen
  <2>2. CASE u = t
    BY <1>3, <1>6, <2>2 DEF Visited, OpensFor
  <2>3. CASE u # t
    BY <1>1, <1>4, <1>6, <1>7, <1>12, <2>1, <2>3 DEF Visited, OpensFor, EndsFor
  <2>4. QED
    BY <2>2, <2>3
<1>13. QED
  BY <1>2, <1>6, <1>7, <1>8, <1>9, <1>10, <1>11, <1>12, GuestsNow, GuestStep

LEMMA RemoveGuests ==
    ASSUME Exclusive, MovesSafe, GuestsSafe, NEW c \in Calls, T!RemoveLink(c)
    PROVE  GuestsSafe'
<1>1. PICK t \in Transfers : t = move[c].t
  BY MoverTyped DEF T!RemoveLink
<1>2. PICK l \in Links : l = move[c].link
  BY MoverTyped DEF T!RemoveLink, MoverKnows
<1>3. /\ T!Running(c) /\ move[c].pc = "unlink" /\ move[c].next \in {"completed", "cancelled"}
      /\ transfer[t].status = "active" /\ transfer[t].link = l /\ move[c] \in T!CallState
  BY <1>1, <1>2, GuestsNow DEF T!RemoveLink, T!Running, Engaged, MoverKnows
<1>4. T!Temporary(t) /\ Owned(l, t) /\ l # Null
  BY <1>3, GuestsNow, AskedTyped DEF RowsHold
<1>5. /\ \A m \in Links, u \in Transfers : Owned(m, u) => Owned(m, u)'
      /\ \A d \in Employees, r \in Stores : T!LinksOf(d, r)' = T!LinksOf(d, r) \ {l}
  BY <1>2, RemoveMoves
<1>6. \A u \in Transfers : T!LinksFor(u)' = T!LinksFor(u) \ {l}
  BY <1>5, AskedTyped DEF T!LinksFor
<1>7. ASSUME NEW u \in Transfers, u # t, T!Alone(u) PROVE T!LinksFor(u)' = T!LinksFor(u)
  <2>1. T!Pair(t) # T!Pair(u)
    BY <1>4, <1>7, Apart
  <2>2. l \notin T!LinksFor(u)
    BY <1>4, <2>1 DEF Owned, T!LinksFor, T!LinksOf, T!Pair
  <2>3. QED
    BY <1>6, <2>2
<1>8. PICK q : q = [move[c] EXCEPT !.pc = "status"]
  OBVIOUS
<1>9. /\ q \in T!CallState /\ q.pc = "status" /\ q.op = move[c].op /\ q.t = t /\ q.next = move[c].next
      /\ q.due = move[c].due /\ q.date = move[c].date
  BY <1>1, <1>3, <1>8 DEF T!CallState, T!Pc
<1>10. move' = [move EXCEPT ![c] = q] /\ transfer' = transfer
  BY <1>8, GuestsNow DEF T!RemoveLink, T!TypeOK
<1>11. T!Alone(t) => T!LinksFor(t)' = {}
  <2>1. T!Alone(t) => T!LinksFor(t) \subseteq {l}
    BY <1>3, GuestsNow DEF GuestsHold, Guest
  <2>2. QED
    BY <1>6, <2>1
<1>12. Engaged(q)'
  BY <1>3, <1>9, <1>11 DEF Engaged, T!Alone, T!Temporary, T!Pair
<1>13. q.op = "sweep" => Sweeps(q)'
  <2>1. SUFFICES ASSUME q.op = "sweep" PROVE Sweeps(q)'
    OBVIOUS
  <2>2. Sweeps(move[c])
    BY <1>9, <2>1, GuestsNow
  <2>3. QED
    BY <1>1, <1>3, <1>9, <1>10, <2>2 DEF Sweeps, Opens, Closes, Taken, T!DueToActivate, T!DueToRevert
<1>14. RowsHold'
  <2>1. \A u \in Transfers : transfer[u].link # Null => transfer[u].link \in Links
    BY GuestsNow
  <2>2. \A u \in Transfers, k \in Links : transfer[u].link = k => Owned(k, u)'
    BY <1>5, GuestsNow, AskedTyped DEF RowsHold
  <2>3. QED
    BY <1>10, <2>1, <2>2, GuestsNow DEF RowsHold, Owned, T!Temporary
<1>15. GuestsHold'
  <2>1. ASSUME NEW u \in Transfers, T!Alone(u) PROVE Guest(u)'
    <3>1. Guest(u)
      BY <2>1, GuestsNow DEF GuestsHold
    <3>2. QED
      BY <1>6, <1>10, <3>1 DEF Guest
  <2>2. QED
    BY <2>1 DEF GuestsHold, T!Alone, T!Temporary, T!Pair
<1>16. ASSUME NoneDead, NEW u \in Transfers, T!Alone(u)
       PROVE  T!LinksFor(u)' # {} <=> Visited(q, u)'
  <2>1. T!LinksFor(u) # {} <=> Visited(move[c], u)
    BY <1>3, <1>16, VisitsSeen
  <2>2. CASE u = t
    BY <1>3, <1>9, <1>11, <1>16, <2>2 DEF Visited, OpensFor, EndsFor
  <2>3. CASE u # t
    BY <1>1, <1>3, <1>7, <1>9, <1>10, <1>16, <2>1, <2>3 DEF Visited, OpensFor, EndsFor
  <2>4. QED
    BY <2>2, <2>3
<1>17. QED
  BY <1>3, <1>9, <1>10, <1>12, <1>13, <1>14, <1>15, <1>16, GuestsNow, GuestStep

LEMMA WriteGuests ==
    ASSUME Exclusive, MovesSafe, GuestsSafe, NEW c \in Calls, T!WriteStatus(c)
    PROVE  GuestsSafe'
<1>1. PICK t \in Transfers : t = move[c].t
  BY MoverTyped DEF T!WriteStatus
<1>2. /\ T!Running(c) /\ move[c].pc = "status" /\ Engaged(move[c]) /\ move[c] \in T!CallState
      /\ Null \notin Transfers
  BY GuestsNow, AskedTyped DEF T!WriteStatus, T!Running
<1>3. PICK next : next = move[c].next
  OBVIOUS
<1>4. \/ /\ next = "active" /\ T!Temporary(t) /\ Owned(move[c].link, t)
         /\ T!Alone(t) => T!LinksFor(t) = {move[c].link}
      \/ next \in {"approved", "rejected"} /\ transfer[t].status = "requested"
      \/ next = "cancelled"
      \/ next = "completed" /\ (T!Alone(t) => T!LinksFor(t) = {})
  BY <1>1, <1>2, <1>3 DEF Engaged
<1>5. /\ transfer'[t].status = next
      /\ IF next = "active" THEN transfer'[t].link = move[c].link
                            ELSE transfer'[t].link \in {Null, transfer[t].link}
      /\ \A u \in Transfers : u # t => transfer'[u] = transfer[u]
      /\ link' = link
  BY <1>1, <1>3, WriteMoves DEF T!WriteStatus
<1>6. next = "active" => move[c].link \in Links /\ move[c].link # Null
  BY <1>2, <1>3, GuestsNow, AskedTyped DEF MoverKnows
<1>7. \A u : T!LinksFor(u)' = T!LinksFor(u)
  BY <1>5 DEF T!LinksFor, T!LinksOf
<1>8. PICK q : q = IF move[c].op = "sweep"
                   THEN [move[c] EXCEPT !.pc = IF next = "active" THEN "opening" ELSE "closing",
                                        !.t = Null, !.link = Null, !.next = "none"]
                   ELSE T!Idle
  OBVIOUS
<1>9. /\ q \in T!CallState
      /\ IF move[c].op = "sweep"
         THEN /\ q.pc = (IF next = "active" THEN "opening" ELSE "closing")
              /\ q.t = Null /\ q.next = "none" /\ q.due = move[c].due /\ q.date = move[c].date
              /\ q.op = "sweep"
         ELSE q.pc = "idle" /\ q.op = "none"
  <2>1. CASE move[c].op = "sweep"
    <3>1. PICK at \in {"opening", "closing"} : at = IF next = "active" THEN "opening" ELSE "closing"
      OBVIOUS
    <3>2. q = [move[c] EXCEPT !.pc = at, !.t = Null, !.link = Null, !.next = "none"]
      BY <1>8, <2>1, <3>1
    <3>3. /\ q \in T!CallState /\ q.pc = at /\ q.due = move[c].due /\ q.t = Null /\ q.next = "none"
          /\ q.date = move[c].date /\ q.op = "sweep"
      BY <1>2, <2>1, <3>2 DEF T!CallState, T!Pc, T!Status
    <3>4. QED
      BY <2>1, <3>1, <3>3
  <2>2. CASE move[c].op # "sweep"
    BY <1>8, <2>2, IdleMover DEF T!Idle
  <2>3. QED
    BY <2>1, <2>2
<1>10. move' = [move EXCEPT ![c] = q]
  BY <1>3, <1>8 DEF T!WriteStatus, T!Become
<1>11. q.pc \in {"opening", "closing", "idle"} /\ (q.pc # "idle" => q.op = "sweep")
  BY <1>9
<1>12. Engaged(q)'
  BY <1>11 DEF Engaged
<1>13. q.op = "sweep" => Sweeps(q)'
  <2>1. SUFFICES ASSUME move[c].op = "sweep" PROVE Sweeps(q)'
    BY <1>9
  <2>2. Sweeps(move[c])
    BY <2>1, GuestsNow
  <2>3. /\ q.t = Null /\ q.next = "none" /\ q.due = move[c].due /\ q.date = move[c].date
        /\ q.pc = (IF next = "active" THEN "opening" ELSE "closing")
    BY <1>9, <2>1
  <2>4. \A d \in q.due : d.t \in Transfers /\ d.t # t /\ transfer'[d.t] = transfer[d.t]
    BY <1>1, <1>2, <1>5, <2>2, <2>3 DEF Sweeps, T!CallState, T!Due
  <2>5. CASE next = "active"
    <3>1. /\ Opens(move[c])
          /\ \A u \in T!DueToActivate(q.date)' : u # t /\ u \in T!DueToActivate(q.date)
      BY <1>3, <1>5, <2>5 DEF Opens, T!DueToActivate
    <3>2. Opens(q) /\ ~Closes(q)
      BY <2>3, <2>5 DEF Opens, Closes
    <3>3. /\ \A d \in q.due : d.t # q.t /\ d.link = transfer'[d.t].link /\ transfer'[d.t].status = "approved"
          /\ \A u \in T!DueToActivate(q.date)' : Taken(q, u)
      BY <1>1, <1>2, <2>2, <2>3, <2>4, <3>1 DEF Sweeps, Taken
    <3>4. QED
      BY <2>3, <2>5, <3>2, <3>3 DEF Sweeps, Opens, Closes, Taken
  <2>6. CASE next # "active"
    <3>1. next = "completed" /\ Closes(move[c])
      BY <1>2, <1>3, <2>2, <2>6 DEF Sweeps, Opens, Closes
    <3>2. /\ \A u \in T!DueToRevert(q.date)' : u # t /\ u \in T!DueToRevert(q.date)
          /\ \A u \in T!DueToActivate(q.date)' : u \in T!DueToActivate(q.date)
      BY <1>5, <3>1 DEF T!DueToRevert, T!DueToActivate
    <3>3. Closes(q) /\ ~Opens(q)
      BY <2>3, <2>6 DEF Opens, Closes
    <3>4. /\ \A d \in q.due : d.t # q.t /\ d.link = transfer'[d.t].link /\ transfer'[d.t].status = "active"
          /\ \A u \in T!DueToRevert(q.date)' : Taken(q, u)
          /\ T!DueToActivate(q.date)' = {}
      BY <1>1, <1>2, <2>2, <2>3, <2>4, <3>1, <3>2 DEF Sweeps, Taken
    <3>5. QED
      BY <2>3, <2>6, <3>3, <3>4 DEF Sweeps, Opens, Closes, Taken
  <2>7. QED
    BY <2>5, <2>6
<1>14. RowsHold'
  <2>1. ASSUME NEW u \in Transfers
        PROVE  /\ transfer'[u].status = "active" => T!Temporary(u)
               /\ transfer'[u].link # Null => Owned(transfer[u].link, u)'
    <3>1. CASE u = t /\ next = "active"
      BY <1>4, <1>5, <3>1 DEF Owned
    <3>2. CASE u # t \/ next # "active"
      BY <1>5, <3>2, GuestsNow DEF RowsHold, Owned
    <3>3. QED
      BY <3>1, <3>2
  <2>2. QED
    BY <2>1 DEF RowsHold, T!Temporary
<1>15. GuestsHold'
  <2>1. ASSUME NEW u \in Transfers, T!Alone(u) PROVE Guest(u)'
    <3>1. Guest(u)
      BY <2>1, GuestsNow DEF GuestsHold
    <3>2. CASE u # t
      BY <1>5, <1>7, <3>1, <3>2 DEF Guest
    <3>3. CASE u = t
      BY <1>4, <1>5, <1>6, <1>7, <2>1, <3>3 DEF Guest
    <3>4. QED
      BY <3>2, <3>3
  <2>2. QED
    BY <2>1 DEF GuestsHold, T!Alone, T!Temporary, T!Pair
<1>16. ASSUME NoneDead, NEW u \in Transfers, T!Alone(u)
       PROVE  T!LinksFor(u)' # {} <=> Visited(q, u)'
  <2>1. T!LinksFor(u) # {} <=> Visited(move[c], u)
    BY <1>2, <1>16, VisitsSeen
  <2>2. Visited(q, u)' <=> transfer'[u].status = "active"
    BY <1>11 DEF Visited, OpensFor, EndsFor
  <2>3. CASE u = t
    BY <1>1, <1>2, <1>3, <1>4, <1>5, <1>7, <2>1, <2>2, <2>3 DEF Visited, OpensFor, EndsFor
  <2>4. CASE u # t
    BY <1>1, <1>5, <1>7, <2>1, <2>2, <2>4 DEF Visited, OpensFor, EndsFor
  <2>5. QED
    BY <2>3, <2>4
<1>17. QED
  BY <1>2, <1>9, <1>10, <1>12, <1>13, <1>14, <1>15, <1>16, GuestsNow, GuestStep

LEMMA SweepGuests ==
    ASSUME Exclusive, MovesSafe, GuestsSafe, NEW c \in Calls,
           T!Open(c) \/ T!FindOverdue(c) \/ T!Close(c) \/ T!EndSweep(c)
    PROVE  GuestsSafe'
<1>1. /\ move[c].pc \in {"opening", "closing"} /\ T!Running(c) /\ move[c] \in T!CallState
      /\ UNCHANGED <<transfer, link>> /\ Null \notin Transfers
  BY GuestsNow, AskedTyped DEF T!Open, T!FindOverdue, T!Close, T!EndSweep, T!Running
<1>2. \A t : Visited(move[c], t) <=> transfer[t].status = "active"
  BY <1>1 DEF Visited, OpensFor, EndsFor
<1>3. \A d, x \in move[c].due : d.t = x.t /\ d.link = x.link => d = x
  BY <1>1 DEF T!CallState, T!Due
<1>4. Sweeps(move[c]) /\ move[c].op = "sweep" /\ move[c].t = Null /\ move[c].next = "none"
  BY <1>1, GuestsNow DEF Engaged, Sweeps
<1>5. CASE T!Open(c)
  <2>1. PICK d \in move[c].due :
           move' = [move EXCEPT ![c] = [move[c] EXCEPT !.pc = "link", !.t = d.t, !.next = "active",
                                                       !.due = @ \ {d}]]
    BY <1>5 DEF T!Open, T!Become
  <2>2. PICK q : q = [move[c] EXCEPT !.pc = "link", !.t = d.t, !.next = "active", !.due = @ \ {d}]
    OBVIOUS
  <2>3. /\ q \in T!CallState /\ q.pc = "link" /\ q.t = d.t /\ q.next = "active"
        /\ q.due = move[c].due \ {d} /\ q.op = "sweep" /\ q.date = move[c].date
    BY <1>1, <1>4, <2>1, <2>2 DEF T!CallState, T!Pc, T!Status, T!Due
  <2>4. move' = [move EXCEPT ![c] = q] /\ move[c].pc = "opening"
    BY <1>5, <2>1, <2>2 DEF T!Open
  <2>5. transfer[d.t].status = "approved" /\ Sweeps(q)
    <3>1. /\ \A x \in move[c].due : x.link = transfer[x.t].link /\ transfer[x.t].status = "approved"
          /\ \A t \in T!DueToActivate(move[c].date) : \E x \in move[c].due : x.t = t
      BY <1>1, <1>4, <2>4 DEF Sweeps, Opens, Taken, T!DueToActivate
    <3>2. QED
      BY <1>3, <2>1, <2>3, <3>1 DEF Sweeps, Opens, Closes, Taken
  <2>6. Engaged(q) /\ \A t : Visited(q, t) <=> transfer[t].status = "active"
    BY <2>3, <2>5 DEF Engaged, Visited, OpensFor, EndsFor
  <2>7. QED
    BY <1>1, <1>2, <2>3, <2>4, <2>5, <2>6, GuestsNow, GuestReads
<1>6. CASE T!FindOverdue(c)
  <2>1. PICK due : due = T!Listed(T!DueToRevert(move[c].date))
    OBVIOUS
  <2>2. T!DueToRevert(move[c].date) \in SUBSET Transfers
    BY DEF T!DueToRevert
  <2>3. /\ \A d \in due : d.t \in T!DueToRevert(move[c].date) /\ d.link = transfer[d.t].link
        /\ \A t \in T!DueToRevert(move[c].date) : \E d \in due : d.t = t
        /\ due \in SUBSET T!Due
    BY <2>1, <2>2, GuestsNow, ListHas
  <2>4. PICK q : q = [move[c] EXCEPT !.pc = "closing", !.due = due]
    OBVIOUS
  <2>5. /\ q \in T!CallState /\ q.pc = "closing" /\ q.due = due /\ q.t = Null /\ q.next = "none"
        /\ q.op = "sweep" /\ q.date = move[c].date
    BY <1>1, <1>4, <2>3, <2>4 DEF T!CallState, T!Pc
  <2>6. move' = [move EXCEPT ![c] = q] /\ move[c].pc = "opening" /\ move[c].due = {}
    BY <1>6, <2>1, <2>4 DEF T!FindOverdue, T!Become
  <2>7. T!DueToActivate(move[c].date) = {}
    BY <1>1, <1>4, <2>6 DEF Sweeps, Opens, Taken, T!DueToActivate
  <2>8. Sweeps(q)
    BY <1>1, <2>2, <2>3, <2>5, <2>7 DEF Sweeps, Opens, Closes, Taken, T!DueToRevert
  <2>9. Engaged(q) /\ \A t : Visited(q, t) <=> transfer[t].status = "active"
    BY <2>5 DEF Engaged, Visited, OpensFor, EndsFor
  <2>10. QED
    BY <1>1, <1>2, <2>5, <2>6, <2>8, <2>9, GuestsNow, GuestReads
<1>7. CASE T!Close(c)
  <2>1. PICK d \in move[c].due :
           move' = [move EXCEPT ![c] = [move[c] EXCEPT !.pc = IF d.link = Null THEN "status" ELSE "unlink",
                                                       !.t = d.t, !.link = d.link,
                                                       !.next = "completed", !.due = @ \ {d}]]
    BY <1>7 DEF T!Close, T!Become
  <2>2. PICK at \in {"status", "unlink"} : at = IF d.link = Null THEN "status" ELSE "unlink"
    OBVIOUS
  <2>3. PICK q : q = [move[c] EXCEPT !.pc = at, !.t = d.t, !.link = d.link, !.next = "completed",
                                     !.due = @ \ {d}]
    OBVIOUS
  <2>4. d.t \in Transfers /\ d.link \in Links \cup {Null}
    BY <1>1, <2>1 DEF T!CallState, T!Due
  <2>5. /\ q \in T!CallState /\ q.pc = at /\ q.t = d.t /\ q.link = d.link /\ q.next = "completed"
        /\ q.due = move[c].due \ {d} /\ q.op = "sweep" /\ q.date = move[c].date
    BY <1>1, <1>4, <2>3, <2>4 DEF T!CallState, T!Pc, T!Status
  <2>6. move' = [move EXCEPT ![c] = q] /\ move[c].pc = "closing"
    BY <1>7, <2>1, <2>2, <2>3 DEF T!Close
  <2>7. /\ \A x \in move[c].due : x.link = transfer[x.t].link /\ transfer[x.t].status = "active"
        /\ \A t \in T!DueToRevert(move[c].date) : \E x \in move[c].due : x.t = t
        /\ T!DueToActivate(move[c].date) = {}
    BY <1>1, <1>4, <2>6 DEF Sweeps, Closes, Taken, T!DueToRevert
  <2>8. Sweeps(q)
    BY <1>3, <2>1, <2>5, <2>7 DEF Sweeps, Opens, Closes, Taken
  <2>9. T!Alone(d.t) => at = "unlink"
    BY <2>1, <2>2, <2>4, <2>7, GuestsNow DEF GuestsHold, Guest
  <2>10. Engaged(q)
    BY <2>1, <2>5, <2>7, <2>9 DEF Engaged
  <2>11. \A t \in Transfers : T!Alone(t) => (Visited(q, t) <=> transfer[t].status = "active")
    BY <2>5, <2>9 DEF Visited, OpensFor, EndsFor
  <2>12. QED
    BY <1>1, <1>2, <2>5, <2>6, <2>8, <2>10, <2>11, GuestsNow, GuestReads
<1>8. CASE T!EndSweep(c)
  <2>1. PICK q : q = T!Idle
    OBVIOUS
  <2>2. /\ q \in T!CallState /\ q.pc = "idle" /\ q.op = "none" /\ move' = [move EXCEPT ![c] = q]
        /\ \A t : Visited(q, t) <=> transfer[t].status = "active"
    BY <1>8, <2>1, IdleMover DEF T!Idle, T!EndSweep, T!Answer, T!Become, Visited, OpensFor, EndsFor
  <2>3. QED
    BY <1>1, <1>2, <2>2, GuestsNow, GuestReads
<1>9. QED
  BY <1>5, <1>6, <1>7, <1>8

LEMMA DiesGuests ==
    ASSUME Exclusive, MovesSafe, GuestsSafe, NEW c \in Calls, T!Crash(c) PROVE GuestsSafe'
<1>1. PICK q : q = [T!Idle EXCEPT !.pc = "dead"]
  OBVIOUS
<1>2. q \in T!CallState /\ q.pc = "dead" /\ q.op = "none"
  BY <1>1, IdleMover DEF T!CallState, T!Idle, T!Pc
<1>3. move' = [move EXCEPT ![c] = q] /\ UNCHANGED <<transfer, link>> /\ T!Running(c)
  BY <1>1 DEF T!Crash, T!Become
<1>4. QED
  BY <1>2, <1>3, GuestsNow, GuestReads

\* The steps that are no call's.
LEMMA NobodyGuests ==
    ASSUME GuestsSafe, MovesSafe, UNCHANGED <<transfer, move>>,
           \A t \in Transfers : T!Alone(t) => T!LinksFor(t)' = T!LinksFor(t),
           \A m \in Links, t \in Transfers : Owned(m, t) => Owned(m, t)'
    PROVE  GuestsSafe'
<1>1. ASSUME NEW c \in Calls
      PROVE  /\ T!Running(c) => Engaged(move[c])'
             /\ move[c].op = "sweep" => Sweeps(move[c])'
  <2>1. /\ move[c].pc = "status" => move[c].t \in Transfers
        /\ move[c].pc = "status" /\ move[c].next = "active" => move[c].link \in Links
    BY GuestsNow DEF MoverKnows
  <2>2. PICK p : p = move[c]
    OBVIOUS
  <2>3. T!Running(c) => Engaged(p)'
    BY <2>1, <2>2, GuestsNow DEF Engaged, T!Temporary, T!Alone, T!Pair
  <2>4. p.op = "sweep" => Sweeps(p)'
    BY <2>2, GuestsNow DEF Sweeps, Taken, T!DueToActivate, T!DueToRevert
  <2>5. QED
    BY <2>2, <2>3, <2>4 DEF Engaged, Sweeps, Taken
<1>2. RowsHold'
  <2>1. RowsHold /\ \A u \in Transfers : transfer[u].link # Null => transfer[u].link \in Links
    BY DEF GuestsSafe, MovesSafe, T!TypeOK, T!TransferRow
  <2>2. \A u \in Transfers, k \in Links : transfer[u].link = k => Owned(k, u)'
    BY <2>1, AskedTyped DEF RowsHold
  <2>3. QED
    BY <2>1, <2>2 DEF RowsHold, Owned, T!Temporary
<1>3. GuestsHold'
  BY DEF GuestsSafe, GuestsHold, Guest, T!Alone, T!Temporary, T!Pair
<1>4. VisitsHold'
  BY DEF GuestsSafe, VisitsHold, NoneDead, Opening, Ending, OpensFor, EndsFor, T!Alone, T!Temporary, T!Pair
<1>5. QED
  BY <1>1, <1>2, <1>3, <1>4 DEF GuestsSafe, OneMoves, MoversHold, T!Running

LEMMA GuestsStep ==
    ASSUME Exclusive PROVE MovesSafe /\ GuestsSafe /\ [T!Next]_transfers => GuestsSafe'
<1> SUFFICES ASSUME MovesSafe, GuestsSafe, [T!Next]_transfers PROVE GuestsSafe'
  OBVIOUS
<1>1. CASE UNCHANGED transfers \/ T!Tick \/ \E e \in Employees, s \in Stores : T!UpdateEmployee(e, s)
  <2>1. UNCHANGED <<transfer, link, move>>
    BY <1>1 DEF transfers, T!Tick, T!UpdateEmployee
  <2>2. /\ \A t \in Transfers : T!LinksFor(t)' = T!LinksFor(t)
        /\ \A m \in Links, t \in Transfers : Owned(m, t) => Owned(m, t)'
    BY <2>1 DEF T!LinksFor, T!LinksOf, Owned
  <2>3. QED
    BY <2>1, <2>2, NobodyGuests
<1>2. ASSUME NEW e \in Employees, NEW s \in Stores,
             (\E l \in Links : T!AddStoreLink(e, s, l)) \/ T!RemoveStoreLink(e, s)
      PROVE  GuestsSafe'
  <2>1. /\ UNCHANGED <<transfer, move>> /\ <<e, s>> \in ByHand
        /\ \A m \in Links, t \in Transfers : Owned(m, t) => Owned(m, t)'
        /\ \A d \in Employees, r \in Stores : <<d, r>> # <<e, s>> => T!LinksOf(d, r)' = T!LinksOf(d, r)
    BY <1>2, ByHandMoves
  <2>2. ASSUME NEW t \in Transfers, T!Alone(t) PROVE T!LinksFor(t)' = T!LinksFor(t)
    <3>1. <<Asked[t].employee, Asked[t].to>> # <<e, s>>
      BY <2>1, <2>2 DEF T!Alone, T!Pair
    <3>2. QED
      BY <2>1, <3>1, AskedTyped DEF T!LinksFor
  <2>3. QED
    BY <2>1, <2>2, NobodyGuests
<1>3. ASSUME NEW c \in Calls, T!BeginSweep(c) \/ T!Proceed(c) \/ T!Crash(c) PROVE GuestsSafe'
  BY <1>3, BeginGuests, InsertGuests, HomeGuests, AddGuests, RemoveGuests, WriteGuests, SweepGuests, DiesGuests
     DEF T!Proceed
<1>4. QED
  BY <1>1, <1>2, <1>3, BeginGuests DEF T!Next

\* A sweep that answers has emptied its second list, and nothing has started since.
LEMMA SweepDone ==
    ASSUME Exclusive, MovesSafe, GuestsSafe, [T!Next]_transfers PROVE T!SweepCatchesUp
<1> SUFFICES ASSUME NEW c \in Calls, move[c].op = "sweep", move'[c].pc = "idle"
             PROVE  /\ T!DueToActivate(move[c].date) = {} /\ T!DueToRevert(move[c].date) = {}
  BY DEF T!SweepCatchesUp, T!DueToActivate, T!DueToRevert
<1>1. Sweeps(move[c]) /\ move[c] \in T!CallState /\ move \in [Calls -> T!CallState] /\ Null \notin Transfers
  BY GuestsNow, AskedTyped, PersonnelAssumption DEF MovesSafe, T!TypeOK, T!TransfersAssumption
<1>2. move[c].pc \in {"opening", "closing", "link", "unlink", "status"} /\ move'[c] # move[c]
  BY <1>1 DEF Sweeps
<1>3. PICK x \in Calls : \/ T!BeginSweep(x) \/ T!Proceed(x) \/ T!Crash(x)
                        \/ \E t \in Transfers : \/ T!FindEmployee(x, t) \/ T!ReadForApproval(x, t)
                                                 \/ T!ReadForRejection(x, t) \/ T!ReadForCancel(x, t)
  BY <1>2 DEF T!Next, transfers, T!AddStoreLink, T!RemoveStoreLink, T!UpdateEmployee, T!Tick
<1>4. x = c
  <2>1. \E q : move' = [move EXCEPT ![x] = q]
    <3>1. CASE T!Proceed(x)
      BY <3>1 DEF T!Proceed, T!InsertTransfer, T!SetPrimaryStore, T!AddLink, T!RemoveLink, T!WriteStatus, T!Open,
         T!FindOverdue, T!Close, T!EndSweep, T!Answer, T!Become
    <3>2. CASE T!BeginSweep(x) \/ T!Crash(x)
      BY <3>2 DEF T!BeginSweep, T!Crash, T!Become
    <3>3. ASSUME NEW t \in Transfers, \/ T!FindEmployee(x, t) \/ T!ReadForApproval(x, t)
                                     \/ T!ReadForRejection(x, t) \/ T!ReadForCancel(x, t)
          PROVE  \E q : move' = [move EXCEPT ![x] = q]
      BY <3>3 DEF T!FindEmployee, T!ReadForApproval, T!ReadForRejection, T!ReadForCancel, T!Decides, T!Become
    <3>4. QED
      BY <1>3, <3>1, <3>2, <3>3
  <2>2. QED
    BY <1>1, <1>2, <2>1
<1>5. T!Proceed(c)
  <2>1. ~T!Crash(c)
    <3>1. SUFFICES ASSUME T!Crash(c) PROVE FALSE
      OBVIOUS
    <3>2. move'[c].pc = "dead"
      BY <1>1, <3>1 DEF T!Crash, T!Become, T!Idle
    <3>3. QED
      BY <3>2
  <2>2. ~T!Begin(c)
    BY <1>2 DEF T!Begin
  <2>3. QED
    BY <1>3, <1>4, <2>1, <2>2 DEF T!BeginSweep, T!FindEmployee, T!ReadForApproval, T!ReadForRejection,
       T!ReadForCancel
<1>6. ~T!InsertTransfer(c) /\ ~T!SetPrimaryStore(c)
  BY <1>2 DEF T!InsertTransfer, T!SetPrimaryStore
<1>7. (\A l \in Links : ~T!AddLink(c, l)) /\ ~T!RemoveLink(c)
  BY <1>1 DEF T!AddLink, T!RemoveLink, T!CallState
<1>8. ~T!WriteStatus(c)
  <2>1. SUFFICES ASSUME T!WriteStatus(c) PROVE FALSE
    OBVIOUS
  <2>2. PICK at \in {"opening", "closing"} : at = IF move[c].next = "active" THEN "opening" ELSE "closing"
    OBVIOUS
  <2>3. move' = [move EXCEPT ![c] = [move[c] EXCEPT !.pc = at, !.t = Null, !.link = Null, !.next = "none"]]
    BY <2>1, <2>2 DEF T!WriteStatus, T!Become
  <2>4. QED
    BY <1>1, <2>3 DEF T!CallState
<1>9. ~T!Open(c) /\ ~T!FindOverdue(c) /\ ~T!Close(c)
  <2>1. ~T!Open(c) /\ ~T!FindOverdue(c)
    <3>1. ASSUME NEW d \in move[c].due,
                 T!Become(c, [move[c] EXCEPT !.pc = "link", !.t = d.t, !.next = "active",
                                             !.due = @ \ {d}])
          PROVE  FALSE
      <4>1. PICK q : q = [move[c] EXCEPT !.pc = "link", !.t = d.t, !.next = "active", !.due = @ \ {d}]
        OBVIOUS
      <4>2. q.pc = "link"
        BY <1>1, <4>1 DEF T!CallState
      <4>3. move' = [move EXCEPT ![c] = q]
        BY <3>1, <4>1 DEF T!Become
      <4>4. QED
        BY <1>1, <4>2, <4>3
    <3>2. ASSUME T!Become(c, [move[c] EXCEPT !.pc = "closing", !.due = T!Listed(T!DueToRevert(move[c].date))])
          PROVE  FALSE
      <4>1. PICK due : due = T!Listed(T!DueToRevert(move[c].date))
        OBVIOUS
      <4>2. PICK q : q = [move[c] EXCEPT !.pc = "closing", !.due = due]
        OBVIOUS
      <4>3. q.pc = "closing"
        BY <1>1, <4>2 DEF T!CallState
      <4>4. move' = [move EXCEPT ![c] = q]
        BY <3>2, <4>1, <4>2 DEF T!Become
      <4>5. QED
        BY <1>1, <4>3, <4>4
    <3>3. QED
      BY <3>1, <3>2 DEF T!Open, T!FindOverdue
  <2>2. ASSUME NEW d \in move[c].due,
               T!Become(c, [move[c] EXCEPT !.pc = IF d.link = Null THEN "status" ELSE "unlink",
                                           !.t = d.t, !.link = d.link, !.next = "completed",
                                           !.due = @ \ {d}])
        PROVE  FALSE
    <3>1. PICK at \in {"status", "unlink"} : at = IF d.link = Null THEN "status" ELSE "unlink"
      OBVIOUS
    <3>2. PICK q : q = [move[c] EXCEPT !.pc = at, !.t = d.t, !.link = d.link, !.next = "completed",
                                       !.due = @ \ {d}]
      OBVIOUS
    <3>3. move' = [move EXCEPT ![c] = q] /\ q.pc = at
      BY <1>1, <2>2, <3>1, <3>2 DEF T!Become, T!CallState
    <3>4. QED
      BY <1>1, <3>1, <3>3
  <2>3. QED
    BY <2>1, <2>2 DEF T!Close
<1>10. T!EndSweep(c)
  BY <1>5, <1>6, <1>7, <1>8, <1>9 DEF T!Proceed
<1>11. move[c].pc = "closing" /\ move[c].due = {} /\ move[c].t = Null
  BY <1>1, <1>10 DEF T!EndSweep, Sweeps
<1>12. QED
  BY <1>1, <1>11 DEF Sweeps, Closes, Taken, T!DueToRevert

LEMMA GuestsTell == ASSUME MovesSafe, GuestsSafe PROVE T!GuestWhileActive /\ T!CompletedLeavesNone
<1>1. T!CompletedLeavesNone
  BY DEF GuestsSafe, GuestsHold, Guest, T!CompletedLeavesNone
<1>2. ASSUME T!AllAnswered, NEW t \in Transfers, T!Alone(t)
      PROVE  IF transfer[t].status = "active" THEN T!LinksFor(t) = {transfer[t].link} ELSE T!LinksFor(t) = {}
  <2>1. NoneDead /\ ~Opening(t) /\ ~Ending(t)
    BY <1>2 DEF T!AllAnswered, NoneDead, Opening, Ending, OpensFor, EndsFor
  <2>2. T!LinksFor(t) # {} <=> transfer[t].status = "active"
    BY <1>2, <2>1 DEF GuestsSafe, VisitsHold
  <2>3. QED
    BY <1>2, <2>2 DEF GuestsSafe, GuestsHold, Guest
<1>3. QED
  BY <1>1, <1>2 DEF T!GuestWhileActive

LEMMA MovedTell == MovesSafe => T!TypeOK /\ T!CompletedMoved
  BY DEF MovesSafe, Arrived, Sole, T!CompletedMoved

\* Whatever overlaps and whatever dies, a move that is completed has been made.
THEOREM MovesAreMade == T!Spec => []T!CompletedMoved
<1>1. MovesSafe /\ [T!Next]_(T!vars) => MovesSafe'
  BY MovesStep DEF T!vars, transfers
<1>2. QED
  BY <1>1, MovesInit, MovedTell, PTL DEF T!Spec

-----------------------------------------------------------------------------
(* Documents and transfers together *)

Personal == (Filing => Typed) /\ (Moving => MovesSafe)

LEMMA PersonalInit == PersonnelInit => Personal
  BY TypedInit, MovesInit DEF PersonnelInit, Personal

LEMMA PersonalStep == Personal /\ [PersonnelNext]_<<scene, vars, transfers>> => Personal'
<1> SUFFICES ASSUME Personal, [PersonnelNext]_<<scene, vars, transfers>> PROVE Personal'
  OBVIOUS
<1>1. /\ scene' = scene
      /\ Filing => [Next]_vars
      /\ Moving => [T!Next]_transfers
  BY DEF PersonnelNext, Filing, Moving
<1>2. QED
  BY <1>1, TypedStep, MovesStep DEF Personal, Filing, Moving

\* Every record and every call of the two stays what it is declared to be.
THEOREM RecordsTyped == PersonnelSpec => []Types
<1>1. Personal => Types
  BY MovedTell DEF Personal, Types, Typed
<1>2. QED
  BY PersonalInit, PersonalStep, <1>1, PTL DEF PersonnelSpec

Orderly == Personal /\ (Filing => DueSafe) /\ (Moving => GuestsSafe)

LEMMA OrderlyStep ==
    ASSUME Exclusive
    PROVE  /\ PersonnelInit => Orderly
           /\ Orderly /\ [PersonnelNext]_<<scene, vars, transfers>> => Orderly'
<1>1. PersonnelInit => Orderly
  BY PersonalInit, DueInit, GuestsInit DEF PersonnelInit, Orderly
<1>2. ASSUME Orderly, [PersonnelNext]_<<scene, vars, transfers>> PROVE Orderly'
  <2>1. /\ scene' = scene
        /\ Filing => [Next]_vars
        /\ Moving => [T!Next]_transfers
    BY <1>2 DEF PersonnelNext, Filing, Moving
  <2>2. Personal'
    BY <1>2, PersonalStep DEF Orderly
  <2>3. Filing' => DueSafe'
    BY <1>2, <2>1, NextDue DEF Orderly, Personal, Filing
  <2>4. Moving' => GuestsSafe'
    BY <1>2, <2>1, GuestsStep DEF Orderly, Personal, Moving
  <2>5. QED
    BY <2>2, <2>3, <2>4 DEF Orderly
<1>3. QED
  BY <1>1, <1>2

\* Where calls come one at a time, any of which may die, a guest that has no rival is
\* linked to the store while the visit is on and not after it, and a move that is
\* completed has been made.
THEOREM GuestsCorrect ==
    ASSUME Exclusive
    PROVE  PersonnelSpec => []GuestsExplained
<1>1. Orderly => GuestsExplained
  BY GuestsTell, MovedTell DEF Orderly, Personal, GuestsExplained
<1>2. QED
  BY OrderlyStep, <1>1, PTL DEF PersonnelSpec

\* Where calls come one at a time, a sweep, a purge or a scan that answers leaves nothing
\* due, whatever an earlier one left half done.
THEOREM SweepsComplete ==
    ASSUME Exclusive
    PROVE  PersonnelSpec => SweepsCatchUp
<1> DEFINE CatchUp == (Moving => T!SweepCatchesUp) /\ (Filing => PurgeCatchesUp /\ ScanCatchesUp)
<1>1. ASSUME Orderly, [PersonnelNext]_<<scene, vars, transfers>> PROVE CatchUp
  <2>1. /\ Filing => [Next]_vars
        /\ Moving => [T!Next]_transfers
    BY <1>1 DEF PersonnelNext, Filing, Moving
  <2>2. Moving => T!SweepCatchesUp
    BY <1>1, <2>1, SweepDone DEF Orderly, Personal
  <2>3. Filing => PurgeCatchesUp /\ ScanCatchesUp
    BY <1>1, <2>1, DueDone DEF Orderly, Personal
  <2>4. QED
    BY <2>2, <2>3
<1>2. Orderly /\ [PersonnelNext]_<<scene, vars, transfers>> => [CatchUp]_<<scene, vars, transfers>>
  BY <1>1
<1>3. QED
  BY OrderlyStep, <1>2, PTL DEF PersonnelSpec, SweepsCatchUp
=============================================================================
