---------------------------- MODULE BillingProofs ----------------------------
(***************************************************************************)
(* For any number of checkouts, invoices and changes at Stripe: the types, *)
(* the mirror that says what Stripe says once the newest event has been    *)
(* applied, and the payer who is on file when checkouts come one at a      *)
(* time.                                                                   *)
(***************************************************************************)
EXTENDS Billing, TLAPS

\* A checkout past its first step knows its customer.
CallsKnow ==
    \A c \in Calls : call[c].pc \in {"persist", "session", "open", "paid"} =>
        call[c].customer # Null

\* What an event says was so, and is so if nothing has happened to its object
\* since.  No two customers have a change of the same number.
BillWas(e) ==
    /\ e.status \in BillStatus
    /\ e.version <= bill[e.object].version
    /\ e.version = bill[e.object].version => e.status = bill[e.object].status
SubscriptionWas(e) ==
    /\ 0 < e.version /\ e.version <= stripe[e.customer].version
    /\ e.version = stripe[e.customer].version =>
          MirrorStatus(e.status) = MirrorStatus(stripe[e.customer].status)
    /\ \A k \in Calls : k # e.customer => stripe[k].version # e.version
EventTrue(e) == IF e.object \in Invoices THEN BillWas(e) ELSE SubscriptionWas(e)
EventsTrue == \A e \in outbox \cup job : EventTrue(e)

\* The mirror is never ahead of Stripe ...
AppliedIsOld ==
    /\ applied["subscription"] = 0
       \/ \E k \in Calls : applied["subscription"] <= stripe[k].version
    /\ \A i \in Invoices : applied[i] <= bill[i].version

\* ... and says what Stripe says when it is not behind.
SubscriptionTrue ==
    \A k \in Calls :
        /\ stripe[k].version > 0 /\ applied["subscription"] = stripe[k].version /\ ~overruled
        => sub.status = MirrorStatus(stripe[k].status)
InvoicesTrue ==
    \A i \in Invoices : invoice[i] # Null /\ applied[i] = bill[i].version =>
        invoice[i] = MirrorInvoice(bill[i].status)

\* Behind the guard there is nothing to be applied.
Guarded == NothingPastGuard /\ (~public => job = {})

Safe == /\ TypeOK /\ CallsKnow /\ EventsTrue /\ AppliedIsOld /\ SubscriptionTrue /\ InvoicesTrue
        /\ Guarded

-----------------------------------------------------------------------------
(* The maps of statuses *)

\* Whatever Stripe says becomes a status of the row.
LEMMA StatusMapped ==
    /\ \A s : MirrorStatus(s) \in SubStatus
    /\ MirrorStatus("active") = "active" /\ MirrorStatus("complete") = "active"
    /\ \A s \in StripeStatus : MirrorStatus(s) =
          CASE s \in SubStatus             -> s
            [] s = "unpaid"                -> "past_due"
            [] s = "incomplete_expired"    -> "canceled"
            [] s \in {"incomplete", "paused"} -> "active"
  BY DEF MirrorStatus, StatusMap, SubStatus, StripeStatus

LEMMA InvoiceMapped == \A s \in BillStatus : MirrorInvoice(s) \in InvoiceStatus
  BY DEF MirrorInvoice, BillStatus, InvoiceStatus

\* A number taken for a change is greater than those of all changes before.
LEMMA NumberedIsNew ==
    ASSUME TypeOK, NEW v \in Version, Numbered(v)
    PROVE  /\ v > 0
           /\ \A k \in Calls : stripe[k].version < v
           /\ \A i \in Invoices : bill[i].version < v
  BY BillingAssumption DEF BillingAssumption, Numbered, Versions, Version

-----------------------------------------------------------------------------
(* The kinds of step *)

LEMMA SafeInit == Init => Safe
<1> SUFFICES ASSUME Init PROVE Safe
  OBVIOUS
<1>1. 0 \in Version
  BY BillingAssumption DEF BillingAssumption, Version
<1>2. TypeOK
  BY <1>1, BillingAssumption
  DEF BillingAssumption, Init, TypeOK, StripeRow, StripeStatus, BillRow, BillStatus, SubRow,
      SubStatus, InvoiceRow, CallState
<1>3. Guarded
  BY BillingAssumption DEF BillingAssumption, Init, Guarded, NothingPastGuard
<1>4. QED
  BY <1>2, <1>3, BillingAssumption
  DEF Init, Safe, CallsKnow, EventsTrue, AppliedIsOld, SubscriptionTrue, InvoicesTrue,
      Version, BillingAssumption

\* A step that leaves Stripe and the events alone, and the status of the row
\* unless it says so.
LEMMA RowKept ==
    ASSUME Safe, UNCHANGED <<stripe, bill, outbox, public, job, invoice, applied, lost>>,
           sub' \in SubRow, sub'.id = sub.id, overruled' \in BOOLEAN,
           ~overruled' => ~overruled /\ sub'.status = sub.status,
           call' \in [Calls -> CallState], CallsKnow'
    PROVE  Safe'
<1>1. TypeOK'
  BY DEF Safe, TypeOK
<1>2. EventsTrue'
  BY DEF Safe, EventsTrue, EventTrue, BillWas, SubscriptionWas
<1>3. AppliedIsOld' /\ SubscriptionTrue' /\ InvoicesTrue'
  BY DEF Safe, AppliedIsOld, SubscriptionTrue, InvoicesTrue
<1>4. Guarded'
  BY DEF Safe, Guarded, NothingPastGuard
<1>5. QED
  BY <1>1, <1>2, <1>3, <1>4 DEF Safe

\* A step that only moves a checkout.
LEMMA CallMoves ==
    ASSUME Safe, NEW c \in Calls, NEW locals \in CallState,
           call' = [call EXCEPT ![c] = locals],
           UNCHANGED <<stripe, bill, outbox, public, job, sub, invoice, applied, overruled, lost>>,
           locals.pc \in {"persist", "session", "open", "paid"} => locals.customer # Null
    PROVE  Safe'
<1>1. call \in [Calls -> CallState] /\ sub \in SubRow /\ overruled \in BOOLEAN
  BY DEF Safe, TypeOK
<1>2. call' \in [Calls -> CallState] /\ CallsKnow'
  BY <1>1 DEF Safe, CallsKnow
<1>3. sub' \in SubRow /\ sub'.status = sub.status /\ sub'.id = sub.id
  BY <1>1
<1>4. overruled' \in BOOLEAN /\ (~overruled' => ~overruled)
  BY <1>1
<1>5. QED
  BY <1>2, <1>3, <1>4, RowKept

\* Something happens to the subscription of the customer k.
LEMMA StripeMoves ==
    ASSUME Safe, NEW k \in Calls, NEW v \in Version, Numbered(v),
           stripe' \in [Calls -> StripeRow], stripe'[k].version = v,
           \A d \in Calls : d # k => stripe'[d] = stripe[d],
           outbox' \subseteq Event,
           \A e \in outbox' \ outbox :
              /\ e.object \notin Invoices /\ e.customer = k /\ e.version = v
              /\ MirrorStatus(e.status) = MirrorStatus(stripe'[k].status),
           UNCHANGED <<bill, public, job, sub, invoice, applied, overruled, lost>>,
           call' \in [Calls -> CallState], CallsKnow'
    PROVE  Safe'
<1>1. /\ v > 0 /\ v \in Nat
      /\ \A d \in Calls : stripe[d].version < v
      /\ \A d \in Calls : stripe[d].version \in Nat
  BY NumberedIsNew DEF Safe, TypeOK, StripeRow, Version
<1>2. TypeOK'
  BY DEF Safe, TypeOK
<1>3. stripe'[k].version = v /\ \A d \in Calls : d # k => stripe'[d] = stripe[d]
  OBVIOUS
<1>4. ASSUME NEW e \in outbox' \cup job' PROVE EventTrue(e)'
  <2>1. e \in Event /\ e.customer \in Calls /\ e.version \in Nat
    BY <1>2 DEF TypeOK, Event, Version
  <2>2. CASE e \in outbox' \ outbox
    BY <1>1, <1>3, <2>1, <2>2 DEF EventTrue, SubscriptionWas
  <2>3. CASE e \in outbox \cup job
    <3>1. CASE e.object \in Invoices
      BY <2>3, <3>1 DEF Safe, EventsTrue, EventTrue, BillWas
    <3>2. CASE e.object \notin Invoices
      <4>1. SubscriptionWas(e)
        BY <2>3, <3>2 DEF Safe, EventsTrue, EventTrue
      <4>2. e.version < v
        BY <1>1, <2>1, <4>1 DEF SubscriptionWas
      <4>3. SubscriptionWas(e)'
        BY <1>1, <1>3, <2>1, <4>1, <4>2 DEF SubscriptionWas
      <4>4. QED
        BY <3>2, <4>3 DEF EventTrue
    <3>3. QED
      BY <3>1, <3>2
  <2>4. QED
    BY <2>2, <2>3
<1>5. applied["subscription"] < v /\ applied["subscription"] \in Nat
  BY <1>1 DEF Safe, TypeOK, Version, AppliedIsOld
<1>6. AppliedIsOld'
  BY <1>1, <1>3, <1>5 DEF Safe, AppliedIsOld
<1>7. SubscriptionTrue'
  BY <1>1, <1>3, <1>5 DEF Safe, SubscriptionTrue
<1>8. InvoicesTrue'
  BY DEF Safe, InvoicesTrue
<1>9. Guarded'
  BY DEF Safe, Guarded, NothingPastGuard
<1>10. QED
  BY <1>2, <1>4, <1>6, <1>7, <1>8, <1>9 DEF Safe, EventsTrue


\* Something happens to the invoice i.
LEMMA BillMoves ==
    ASSUME Safe, NEW i \in Invoices, NEW k \in Calls, NEW status \in BillStatus,
           NEW v \in Version, Numbered(v),
           bill' = [bill EXCEPT ![i] = [status |-> status, customer |-> k, version |-> v]],
           Sends({About(i, k, status, v)}),
           UNCHANGED <<stripe, public, job, sub, invoice, applied, overruled, call, lost>>
    PROVE  Safe'
<1> DEFINE e0 == About(i, k, status, v)
<1>1. /\ v > 0 /\ v \in Nat
      /\ \A j \in Invoices : bill[j].version < v /\ bill[j].version \in Nat
  BY NumberedIsNew DEF Safe, TypeOK, BillRow, Version
<1>2. e0 \in Event /\ e0.object = i /\ e0.status = status /\ e0.version = v
  BY DEF About, Event
<1>3. TypeOK'
  BY <1>2 DEF Safe, TypeOK, Sends, BillRow
<1>4. \A j \in Invoices : /\ j # i => bill'[j] = bill[j]
                          /\ bill'[i].version = v /\ bill'[i].status = status
  BY DEF Safe, TypeOK
<1>5. outbox' = outbox \cup {e0}
  BY DEF Sends
<1> HIDE DEF e0
<1>6. ASSUME NEW e \in outbox' \cup job' PROVE EventTrue(e)'
  <2>1. CASE e = e0
    BY <1>1, <1>2, <1>4, <2>1 DEF EventTrue, BillWas
  <2>2. CASE e \in outbox \cup job
    <3>1. EventTrue(e) /\ e.version \in Nat
      BY <2>2 DEF Safe, EventsTrue, TypeOK, Event, Version
    <3>2. CASE e.object \in Invoices
      BY <1>1, <1>4, <3>1, <3>2 DEF EventTrue, BillWas
    <3>3. CASE e.object \notin Invoices
      BY <3>1, <3>3 DEF EventTrue, SubscriptionWas
    <3>4. QED
      BY <3>2, <3>3
  <2>3. QED
    BY <1>5, <1>6, <2>1, <2>2
<1>7. \A j \in Invoices : applied[j] \in Nat /\ applied[j] <= bill[j].version
  BY DEF Safe, TypeOK, Version, AppliedIsOld
<1>8. AppliedIsOld'
  BY <1>1, <1>4, <1>7 DEF Safe, AppliedIsOld
<1>9. CallsKnow' /\ SubscriptionTrue' /\ Guarded'
  BY DEF Safe, CallsKnow, SubscriptionTrue, Guarded, NothingPastGuard
<1>10. InvoicesTrue'
  BY <1>1, <1>4, <1>7 DEF Safe, InvoicesTrue
<1>11. QED
  BY <1>3, <1>6, <1>8, <1>9, <1>10 DEF Safe, EventsTrue

\* Events go from Stripe to the queue, or get lost, or are sent again.
LEMMA EventsMove ==
    ASSUME Safe, outbox' \cup job' \subseteq outbox \cup job, lost' \in BOOLEAN,
           ~public => job' \subseteq job,
           UNCHANGED <<stripe, bill, public, sub, invoice, applied, overruled, call>>
    PROVE  Safe'
<1>1. TypeOK'
  BY DEF Safe, TypeOK
<1>2. EventsTrue'
  BY DEF Safe, EventsTrue, EventTrue, BillWas, SubscriptionWas
<1>3. CallsKnow' /\ AppliedIsOld' /\ SubscriptionTrue' /\ InvoicesTrue' /\ Guarded'
  BY DEF Safe, CallsKnow, AppliedIsOld, SubscriptionTrue, InvoicesTrue, Guarded, NothingPastGuard
<1>4. QED
  BY <1>1, <1>2, <1>3 DEF Safe

\* An event is applied, by the worker or at once.
LEMMA ApplySafe ==
    ASSUME Safe, NEW e \in outbox \cup job, ApplyEvent(e),
           outbox' \cup job' \subseteq outbox \cup job,
           public, UNCHANGED <<stripe, bill, public, call, lost>>
    PROVE  Safe'
<1>0. Guarded'
  BY DEF Guarded, NothingPastGuard
<1>1. /\ e \in Event /\ e.customer \in Calls /\ e.version \in Version
      /\ e.object \in {"subscription", "session"} \cup Invoices
      /\ EventTrue(e)
  BY DEF Safe, TypeOK, Event, EventsTrue
<1>2. EventsTrue' /\ CallsKnow'
  BY DEF Safe, EventsTrue, EventTrue, BillWas, SubscriptionWas, CallsKnow
<1>3. outbox' \subseteq Event /\ job' \subseteq Event
  BY DEF Safe, TypeOK
<1>4. CASE UNCHANGED <<sub, invoice, applied, overruled>>
  BY <1>4, EventsMove DEF Safe, TypeOK
<1>5. CASE e.object \in Invoices /\ sub.customer = e.customer
  <2>1. /\ invoice' = [invoice EXCEPT ![e.object] = MirrorInvoice(e.status)]
        /\ applied' = [applied EXCEPT ![e.object] = e.version]
        /\ UNCHANGED <<sub, overruled>>
    BY <1>5 DEF ApplyEvent, ApplyInvoice
  <2>2. BillWas(e)
    BY <1>1, <1>5 DEF EventTrue
  <2>3. MirrorInvoice(e.status) \in InvoiceStatus
    BY <2>2, InvoiceMapped DEF BillWas
  <2>4. TypeOK'
    BY <1>1, <1>3, <1>5, <2>1, <2>3 DEF Safe, TypeOK, InvoiceRow
  <2>5. e.object # "subscription"
    BY <1>5, BillingAssumption DEF BillingAssumption
  <2>6. applied'["subscription"] = applied["subscription"]
    BY <2>1, <2>5 DEF Safe, TypeOK
  <2>7. \A i \in Invoices : applied'[i] = IF i = e.object THEN e.version ELSE applied[i]
    BY <2>1 DEF Safe, TypeOK
  <2>8. AppliedIsOld'
    BY <2>2, <2>6, <2>7 DEF Safe, AppliedIsOld, BillWas
  <2>9. SubscriptionTrue'
    BY <2>1, <2>6 DEF Safe, SubscriptionTrue
  <2>10. InvoicesTrue'
    BY <2>1, <2>2, <2>7 DEF Safe, TypeOK, InvoicesTrue, BillWas
  <2>11. QED
    BY <1>0, <1>2, <2>4, <2>8, <2>9, <2>10 DEF Safe
<1>6. CASE e.object \notin Invoices /\ sub.customer = e.customer
  <2>1. /\ sub' = [sub EXCEPT !.status = MirrorStatus(e.status), !.id = e.object]
        /\ applied' = [applied EXCEPT !["subscription"] = e.version]
        /\ overruled' = FALSE /\ UNCHANGED invoice
    BY <1>6 DEF ApplyEvent, ApplySubscription
  <2>2. SubscriptionWas(e)
    BY <1>1, <1>6 DEF EventTrue
  <2>3. MirrorStatus(e.status) \in SubStatus /\ e.object \in {"subscription", "session"}
    BY <1>1, <1>6, StatusMapped
  <2>4. sub' \in SubRow /\ sub'.status = MirrorStatus(e.status)
    BY <2>1, <2>3 DEF Safe, TypeOK, SubRow
  <2>5. TypeOK'
    BY <1>1, <1>3, <2>1, <2>4 DEF Safe, TypeOK
  <2>6. applied'["subscription"] = e.version
    BY <2>1 DEF Safe, TypeOK
  <2>7. \A i \in Invoices : i # "subscription"
    BY BillingAssumption DEF BillingAssumption
  <2>8. \A i \in Invoices : applied'[i] = applied[i]
    BY <2>1, <2>7 DEF Safe, TypeOK
  <2>9. AppliedIsOld'
    BY <1>1, <2>2, <2>6, <2>8 DEF Safe, AppliedIsOld, SubscriptionWas
  <2>10. SubscriptionTrue'
    BY <1>1, <2>2, <2>4, <2>6 DEF SubscriptionTrue, SubscriptionWas
  <2>11. InvoicesTrue'
    BY <2>1, <2>8 DEF Safe, InvoicesTrue
  <2>12. QED
    BY <1>0, <1>2, <2>5, <2>9, <2>10, <2>11 DEF Safe
<1>7. QED
  BY <1>4, <1>5, <1>6 DEF ApplyEvent, ApplySubscription, ApplyInvoice

-----------------------------------------------------------------------------
(* The actions *)

LEMMA PersistSafe ==
    ASSUME Safe, NEW c \in Calls, PersistIntent(c)
    PROVE  Safe'
<1>1. call[c] \in CallState /\ sub \in SubRow /\ call \in [Calls -> CallState]
      /\ overruled \in BOOLEAN
  BY DEF Safe, TypeOK
<1>2. sub' \in SubRow /\ sub'.status = call[c].status /\ sub'.id = sub.id
  BY <1>1 DEF PersistIntent, SubRow, CallState
<1>3. overruled' \in BOOLEAN /\ (~overruled' => ~overruled /\ sub'.status = sub.status)
  BY <1>1, <1>2 DEF PersistIntent
<1>4. call' \in [Calls -> CallState] /\ CallsKnow'
  BY <1>1 DEF PersistIntent, Safe, CallsKnow, CallState
<1>5. QED
  BY <1>2, <1>3, <1>4, RowKept DEF PersistIntent, World

LEMMA AssignSafe ==
    ASSUME Safe, NEW p \in Assigned, AssignPlan(p)
    PROVE  Safe'
<1>1. sub \in SubRow /\ overruled \in BOOLEAN /\ p \in Plans
  BY BillingAssumption DEF Safe, TypeOK, BillingAssumption
<1>2. sub' \in SubRow /\ sub'.status = "active" /\ sub'.id = sub.id
  BY <1>1 DEF AssignPlan, SubRow, SubStatus
<1>3. overruled' \in BOOLEAN /\ (~overruled' => ~overruled /\ sub'.status = sub.status)
  BY <1>1, <1>2 DEF AssignPlan
<1>4. call' \in [Calls -> CallState] /\ CallsKnow'
  BY DEF AssignPlan, Safe, TypeOK, CallsKnow
<1>5. QED
  BY <1>2, <1>3, <1>4, RowKept DEF AssignPlan, World

LEMMA PaySafe ==
    ASSUME Safe, NEW c \in Calls, Pay(c)
    PROVE  Safe'
<1> DEFINE k == call[c].customer
<1>1. PICK v \in Version :
        /\ Numbered(v)
        /\ stripe' = [stripe EXCEPT ![k] = [status |-> "active", plan |-> call[c].plan, version |-> v]]
        /\ Sends({About("subscription", k, "active", v), About("session", k, "complete", v)})
        /\ call[c].pc = "open" /\ call' = [call EXCEPT ![c].pc = "paid"]
        /\ UNCHANGED <<bill, public, job, Mirror, lost>>
  BY DEF Pay
<1>2. call[c] \in CallState /\ call \in [Calls -> CallState] /\ k \in Calls
  BY <1>1 DEF Safe, TypeOK, CallsKnow, CallState
<1> DEFINE row == [status |-> "active", plan |-> call[c].plan, version |-> v]
           events == {About("subscription", k, "active", v), About("session", k, "complete", v)}
<1>3. row \in StripeRow /\ row.version = v /\ row.status = "active"
  BY <1>2 DEF StripeRow, StripeStatus, CallState
<1>4. events \in SUBSET Event
  BY <1>2 DEF About, Event, StripeStatus
<1>5. \A e \in events : /\ e.object \notin Invoices /\ e.customer = k /\ e.version = v
                        /\ MirrorStatus(e.status) = MirrorStatus(row.status)
  BY <1>3, StatusMapped, BillingAssumption DEF About, BillingAssumption
<1>6. call' \in [Calls -> CallState] /\ CallsKnow'
  BY <1>1, <1>2 DEF Safe, CallsKnow, CallState
<1>7. stripe' = [stripe EXCEPT ![k] = row] /\ outbox' = outbox \cup events
  BY <1>1 DEF Sends
<1>8. Numbered(v) /\ UNCHANGED <<bill, public, job, sub, invoice, applied, overruled, lost>>
  BY <1>1 DEF Mirror
<1> HIDE DEF row, events, k
<1>9. /\ stripe' \in [Calls -> StripeRow] /\ stripe'[k] = row
      /\ \A d \in Calls : d # k => stripe'[d] = stripe[d]
  BY <1>2, <1>3, <1>7 DEF Safe, TypeOK
<1>10. outbox' \subseteq Event
  BY <1>4, <1>7 DEF Safe, TypeOK
<1>11. \A e \in outbox' \ outbox :
          /\ e.object \notin Invoices /\ e.customer = k /\ e.version = v
          /\ MirrorStatus(e.status) = MirrorStatus(stripe'[k].status)
  BY <1>5, <1>7, <1>9
<1>12. QED
  BY <1>2, <1>3, <1>6, <1>8, <1>9, <1>10, <1>11, StripeMoves

LEMMA ChangeSafe ==
    ASSUME Safe, NEW k \in Calls, NEW status \in StripeStatus, Change(k, status)
    PROVE  Safe'
<1>1. PICK v \in Version :
        /\ Numbered(v)
        /\ stripe' = [stripe EXCEPT ![k].status = status, ![k].version = v]
        /\ Sends({About("subscription", k, status, v)})
        /\ UNCHANGED <<bill, public, job, Mirror, call, lost>>
  BY DEF Change
<1> DEFINE row == [stripe[k] EXCEPT !.status = status, !.version = v]
           events == {About("subscription", k, status, v)}
<1>2. stripe[k] \in StripeRow /\ stripe \in [Calls -> StripeRow]
  BY DEF Safe, TypeOK
<1>3. row \in StripeRow /\ row.version = v /\ row.status = status
  BY <1>2 DEF StripeRow
<1>4. events \in SUBSET Event
  BY DEF About, Event
<1>5. \A e \in events : /\ e.object \notin Invoices /\ e.customer = k /\ e.version = v
                        /\ MirrorStatus(e.status) = MirrorStatus(row.status)
  BY <1>3, BillingAssumption DEF About, BillingAssumption
<1>6. call' \in [Calls -> CallState] /\ CallsKnow'
  BY <1>1 DEF Safe, TypeOK, CallsKnow
<1>7. stripe' = [stripe EXCEPT ![k] = row] /\ outbox' = outbox \cup events
  BY <1>1, <1>2 DEF Sends
<1>8. Numbered(v) /\ UNCHANGED <<bill, public, job, sub, invoice, applied, overruled, lost>>
  BY <1>1 DEF Mirror
<1> HIDE DEF row, events
<1>9. /\ stripe' \in [Calls -> StripeRow] /\ stripe'[k] = row
      /\ \A d \in Calls : d # k => stripe'[d] = stripe[d]
  BY <1>2, <1>3, <1>7 DEF Safe, TypeOK
<1>10. outbox' \subseteq Event
  BY <1>4, <1>7 DEF Safe, TypeOK
<1>11. \A e \in outbox' \ outbox :
          /\ e.object \notin Invoices /\ e.customer = k /\ e.version = v
          /\ MirrorStatus(e.status) = MirrorStatus(stripe'[k].status)
  BY <1>5, <1>7, <1>9
<1>12. QED
  BY <1>2, <1>3, <1>6, <1>8, <1>9, <1>10, <1>11, StripeMoves

LEMMA StepSafe == Safe /\ [Next]_vars => Safe'
<1> SUFFICES ASSUME Safe, [Next]_vars PROVE Safe'
  OBVIOUS
<1>1. lost \in BOOLEAN /\ sub \in SubRow /\ call \in [Calls -> CallState]
  BY DEF Safe, TypeOK
<1>2. CASE UNCHANGED vars
  BY <1>1, <1>2, EventsMove DEF vars
<1>3. ASSUME NEW c \in Calls, NEW p \in Plans, GetSubscription(c, p) PROVE Safe'
  <2> DEFINE locals == [pc |-> "customer", plan |-> p, customer |-> sub.customer,
                        status |-> sub.status]
  <2>1. locals \in CallState /\ locals.pc = "customer"
    BY <1>1 DEF SubRow, CallState
  <2>2. call' = [call EXCEPT ![c] = locals]
    BY <1>3 DEF GetSubscription
  <2> HIDE DEF locals
  <2>3. QED
    BY <1>3, <2>1, <2>2, CallMoves DEF GetSubscription, World, Mirror
<1>4. ASSUME NEW c \in Calls, EnsureCustomer(c) PROVE Safe'
  <2> DEFINE k == IF call[c].customer = Null THEN c ELSE call[c].customer
             locals == [call[c] EXCEPT !.pc = "persist", !.customer = k]
  <2>1. k \in Calls
    BY <1>1 DEF CallState
  <2>2. locals \in CallState /\ locals.customer = k /\ k # Null
    BY <1>1, <2>1, BillingAssumption DEF CallState, BillingAssumption
  <2>3. call' = [call EXCEPT ![c] = locals]
    BY <1>1, <1>4 DEF EnsureCustomer
  <2> HIDE DEF locals, k
  <2>4. QED
    BY <1>4, <2>2, <2>3, CallMoves DEF EnsureCustomer, World, Mirror
<1>5. ASSUME NEW c \in Calls, OpenSession(c) \/ Crash(c) PROVE Safe'
  <2> DEFINE locals == [call[c] EXCEPT !.pc = IF call[c].pc = "session" /\ call'[c].pc = "open"
                                              THEN "open" ELSE "dead"]
  <2>1. /\ locals \in CallState /\ locals.customer = call[c].customer
        /\ locals.pc \in {"open", "dead"}
        /\ locals.pc = "open" => call[c].pc = "session"
    BY <1>1 DEF CallState
  <2>2. call' = [call EXCEPT ![c] = locals]
    BY <1>1, <1>5 DEF OpenSession, Crash, CallState
  <2>3. locals.pc \in {"persist", "session", "open", "paid"} => locals.customer # Null
    BY <2>1 DEF Safe, CallsKnow
  <2> HIDE DEF locals
  <2>4. QED
    BY <1>5, <2>1, <2>2, <2>3, CallMoves DEF OpenSession, Crash, World, Mirror
<1>6. ASSUME NEW i \in Invoices, NEW k \in Calls, NEW s \in BillStatus, Invoice(i, k, s)
      PROVE  Safe'
  BY <1>6, BillMoves DEF Invoice, Mirror
<1>7. ASSUME NEW e \in outbox, Deliver(e) \/ Lose(e) PROVE Safe'
  <2>1. CASE Enqueue(e)
    BY <1>1, <2>1, EventsMove DEF Enqueue, Answered, Mirror
  <2>2. CASE RunInline(e)
    BY <2>2, ApplySafe DEF RunInline, Answered
  <2>3. CASE Lose(e)
    BY <2>3, EventsMove DEF Lose, Mirror
  <2>4. CASE Refuse(e)
    <3>1. lost' \in BOOLEAN
      BY <1>1, <2>4 DEF Refuse
    <3>2. QED
      BY <2>4, <3>1, EventsMove DEF Refuse, Answered, Mirror
  <2>5. QED
    BY <1>7, <2>1, <2>2, <2>3, <2>4 DEF Deliver
<1>8. ASSUME NEW e \in job, Work(e) \/ GiveUp(e) PROVE Safe'
  <2>1. CASE Work(e)
    <3>1. public
      BY <1>1, <1>8 DEF Safe, Guarded, TypeOK
    <3>2. QED
      BY <2>1, <3>1, ApplySafe DEF Work, World
  <2>2. CASE GiveUp(e)
    BY <2>2, EventsMove DEF GiveUp, World, Mirror
  <2>3. QED
    BY <1>8, <2>1, <2>2
<1>9. QED
  BY <1>2, <1>3, <1>4, <1>5, <1>6, <1>7, <1>8, PersistSafe, AssignSafe, PaySafe, ChangeSafe
  DEF Next

LEMMA SafeAlways == Spec => []Safe
  BY SafeInit, StepSafe, PTL DEF Spec

\* The rows, the events and the locals of every checkout keep their types.
THEOREM TypeCorrect == Spec => []TypeOK
<1>1. Safe => TypeOK
  BY DEF Safe
<1>2. QED
  BY <1>1, SafeAlways, PTL

\* However events are repeated, reordered and lost, and however checkouts
\* overlap or die, once the newest event has been applied, and no checkout or
\* operator has written a status since, the mirror says what Stripe says, as far as it has
\* a word for it; behind the guard it says nothing of Stripe.
THEOREM MirrorInStep == Spec => []InStep
<1>1. Safe => InStep
  <2> SUFFICES ASSUME Safe PROVE InStep
    OBVIOUS
  <2>1. SubscriptionInStep
    <3> DEFINE s == stripe[sub.customer]
    <3> SUFFICES ASSUME sub.customer # Null, s.version > 0,
                        applied["subscription"] = s.version, ~overruled
                 PROVE  sub.status = CASE s.status \in SubStatus             -> s.status
                                       [] s.status = "unpaid"                -> "past_due"
                                       [] s.status = "incomplete_expired"    -> "canceled"
                                       [] s.status \in {"incomplete", "paused"} -> "active"
      BY DEF SubscriptionInStep
    <3>1. sub.customer \in Calls /\ s.status \in StripeStatus
      BY DEF Safe, TypeOK, SubRow, StripeRow
    <3>2. sub.status = MirrorStatus(s.status)
      BY <3>1 DEF Safe, SubscriptionTrue
    <3>3. QED
      BY <3>1, <3>2, StatusMapped
  <2>2. InvoicesInStep
    BY DEF Safe, InvoicesTrue, InvoicesInStep, TypeOK, BillRow, BillStatus, MirrorInvoice
  <2>3. QED
    BY <2>1, <2>2 DEF InStep, Safe, Guarded
<1>2. QED
  BY <1>1, SafeAlways, PTL


-----------------------------------------------------------------------------
(* The payer, when checkouts come one at a time *)

\* The checkout under way has read the row as it is, and whoever was handed a
\* page to pay at is on file, with whatever they paid for.
OneRuns == \A c, d \in Calls : Running(c) /\ Running(d) => c = d
HasRead == \A c \in Calls : call[c].pc = "customer" => call[c].customer = sub.customer
KeepsCustomer ==
    \A c \in Calls : call[c].pc = "persist" => sub.customer \in {Null, call[c].customer}
OnFile ==
    \A c \in Calls : call[c].pc \in {"session", "open", "paid"} => sub.customer = call[c].customer
Serial == Safe /\ OneRuns /\ HasRead /\ KeepsCustomer /\ OnFile /\ PayerOnFile

LEMMA SerialInit == Init => Serial
  BY SafeInit DEF Init, Serial, OneRuns, HasRead, KeepsCustomer, OnFile, PayerOnFile, Running

\* A checkout moves and the row keeps its customer, and nobody pays.
LEMMA SerialKept ==
    ASSUME Serial, Safe', NEW c \in Calls, NEW locals \in CallState,
           call' = [call EXCEPT ![c] = locals], UNCHANGED stripe,
           sub'.customer = sub.customer,
           Running(c) \/ \A d \in Calls : ~Running(d),
           locals.pc = "customer" => locals.customer = sub.customer,
           locals.pc = "persist" => sub.customer \in {Null, locals.customer},
           locals.pc \in {"session", "open", "paid"} => sub.customer = locals.customer
    PROVE  Serial'
<1>1. \A d \in Calls : call'[d] = IF d = c THEN locals ELSE call[d]
  BY DEF Serial, Safe, TypeOK
<1>2. OneRuns'
  BY <1>1 DEF Serial, OneRuns, Running
<1>3. HasRead' /\ KeepsCustomer' /\ OnFile'
  BY <1>1 DEF Serial, HasRead, KeepsCustomer, OnFile
<1>4. QED
  BY <1>2, <1>3 DEF Serial, PayerOnFile

\* The row is given its customer: it had none or this one.
LEMMA SerialPersist ==
    ASSUME Serial, Safe', NEW c \in Calls, PersistIntent(c)
    PROVE  Serial'
<1>1. /\ call \in [Calls -> CallState] /\ sub \in SubRow
      /\ call[c].pc = "persist" /\ call[c].customer # Null
  BY DEF PersistIntent, Serial, Safe, TypeOK, CallsKnow
<1>2. /\ sub'.customer = call[c].customer
      /\ call'[c].pc = "session" /\ call'[c].customer = call[c].customer
      /\ \A d \in Calls : d # c => call'[d] = call[d]
      /\ UNCHANGED stripe
  BY <1>1 DEF PersistIntent, SubRow, CallState, World
<1>3. Running(c) /\ \A d \in Calls : Running(d) => d = c
  BY <1>1 DEF Serial, OneRuns, Running
<1>4. sub.customer \in {Null, call[c].customer}
  BY <1>1 DEF Serial, KeepsCustomer
<1>5. ASSUME NEW d \in Calls, d # c, call[d].pc \in {"session", "open", "paid"}
      PROVE  call[d].customer = call[c].customer
  <2>1. sub.customer = call[d].customer /\ call[d].customer # Null
    BY <1>5 DEF Serial, OnFile, Safe, CallsKnow
  <2>2. QED
    BY <1>4, <2>1
<1>6. OnFile'
  BY <1>2, <1>5 DEF OnFile
<1>7. OneRuns' /\ HasRead' /\ KeepsCustomer'
  BY <1>1, <1>2, <1>3 DEF OneRuns, HasRead, KeepsCustomer, Running
<1>8. PayerOnFile'
  BY <1>2, <1>4, BillingAssumption DEF Serial, PayerOnFile, BillingAssumption
<1>9. QED
  BY <1>6, <1>7, <1>8 DEF Serial

\* The customer who pays is the one on file.
LEMMA SerialPay ==
    ASSUME Serial, Safe', NEW c \in Calls, Pay(c)
    PROVE  Serial'
<1>1. /\ call \in [Calls -> CallState] /\ stripe \in [Calls -> StripeRow]
      /\ call[c].pc = "open"
  BY DEF Pay, Serial, Safe, TypeOK
<1>2. /\ call'[c].pc = "paid" /\ call'[c].customer = call[c].customer
      /\ \A d \in Calls : d # c => call'[d] = call[d]
      /\ \A k \in Calls : k # call[c].customer => stripe'[k] = stripe[k]
      /\ UNCHANGED sub
  BY <1>1 DEF Pay, CallState, Mirror
<1>3. sub.customer = call[c].customer
  BY <1>1 DEF Serial, OnFile
<1>4. OneRuns' /\ HasRead' /\ KeepsCustomer' /\ OnFile'
  BY <1>1, <1>2, <1>3
  DEF Serial, OneRuns, HasRead, KeepsCustomer, OnFile, Running
<1>5. PayerOnFile'
  BY <1>2, <1>3 DEF Serial, PayerOnFile
<1>6. QED
  BY <1>4, <1>5 DEF Serial

\* Neither a checkout moves nor the customer of the row, nor does anyone pay who
\* had not paid.
LEMMA SerialElse ==
    ASSUME Serial, Safe', UNCHANGED call, sub'.customer = sub.customer,
           \A k \in Calls : stripe'[k].version > 0 => stripe[k].version > 0
    PROVE  Serial'
  BY DEF Serial, OneRuns, HasRead, KeepsCustomer, OnFile, PayerOnFile, Running

\* A step of the mirror keeps the customer of the row.
LEMMA MirrorKeepsCustomer ==
    ASSUME Safe, NEW e, ApplyEvent(e)
    PROVE  sub'.customer = sub.customer
  BY DEF ApplyEvent, ApplySubscription, ApplyInvoice, Safe, TypeOK, SubRow

LEMMA SerialStep ==
    ASSUME Exclusive, Serial, [Next]_vars
    PROVE  Serial'
<1>1. Safe'
  BY StepSafe DEF Serial
<1>2. /\ call \in [Calls -> CallState] /\ sub \in SubRow
      /\ stripe \in [Calls -> StripeRow]
  BY DEF Serial, Safe, TypeOK
<1>3. CASE UNCHANGED vars
  BY <1>1, <1>3, SerialElse DEF vars
<1>4. ASSUME NEW c \in Calls, NEW p \in Plans, GetSubscription(c, p) PROVE Serial'
  <2> DEFINE locals == [pc |-> "customer", plan |-> p, customer |-> sub.customer,
                        status |-> sub.status]
  <2>1. locals \in CallState /\ locals.pc = "customer" /\ locals.customer = sub.customer
    BY <1>2 DEF SubRow, CallState
  <2>2. call' = [call EXCEPT ![c] = locals] /\ UNCHANGED <<stripe, sub>>
        /\ \A d \in Calls : ~Running(d)
    BY <1>4 DEF GetSubscription, World, Mirror
  <2> HIDE DEF locals
  <2>3. QED
    BY <1>1, <2>1, <2>2, SerialKept
<1>5. ASSUME NEW c \in Calls, EnsureCustomer(c) PROVE Serial'
  <2> DEFINE k == IF call[c].customer = Null THEN c ELSE call[c].customer
             locals == [call[c] EXCEPT !.pc = "persist", !.customer = k]
  <2>1. k \in Calls /\ Running(c) /\ call[c].pc = "customer" /\ UNCHANGED <<stripe, sub>>
    BY <1>2, <1>5 DEF EnsureCustomer, CallState, Running, World, Mirror
  <2>2. locals \in CallState /\ locals.customer = k /\ locals.pc = "persist"
    BY <1>2, <2>1 DEF CallState
  <2>3. call' = [call EXCEPT ![c] = locals]
    BY <1>2, <1>5 DEF EnsureCustomer
  <2>4. sub.customer \in {Null, k}
    BY <2>1 DEF Serial, HasRead
  <2> HIDE DEF locals, k
  <2>5. QED
    BY <1>1, <2>1, <2>2, <2>3, <2>4, SerialKept
<1>6. ASSUME NEW c \in Calls, OpenSession(c) PROVE Serial'
  <2> DEFINE locals == [call[c] EXCEPT !.pc = "open"]
  <2>1. /\ locals \in CallState /\ locals.pc = "open" /\ locals.customer = call[c].customer
        /\ call' = [call EXCEPT ![c] = locals]
    BY <1>2, <1>6 DEF OpenSession, CallState
  <2>2. call[c].pc = "session" /\ Running(c) /\ UNCHANGED <<stripe, sub>>
    BY <1>6 DEF OpenSession, Running, World, Mirror
  <2>3. sub.customer = call[c].customer
    BY <2>2 DEF Serial, OnFile
  <2> HIDE DEF locals
  <2>4. QED
    BY <1>1, <2>1, <2>2, <2>3, SerialKept
<1>7. ASSUME NEW c \in Calls, Crash(c) PROVE Serial'
  <2> DEFINE locals == [call[c] EXCEPT !.pc = "dead"]
  <2>1. /\ locals \in CallState /\ locals.pc = "dead"
        /\ call' = [call EXCEPT ![c] = locals]
    BY <1>2, <1>7 DEF Crash, CallState
  <2>2. Running(c) /\ UNCHANGED <<stripe, sub>>
    BY <1>7 DEF Crash, World, Mirror
  <2> HIDE DEF locals
  <2>3. QED
    BY <1>1, <2>1, <2>2, SerialKept
<1>8. ASSUME NEW k \in Calls, NEW s \in StripeStatus, Change(k, s) PROVE Serial'
  <2>1. /\ UNCHANGED call /\ sub'.customer = sub.customer
        /\ \A d \in Calls : stripe'[d].version > 0 => stripe[d].version > 0
    BY <1>2, <1>8 DEF Change, Mirror
  <2>2. QED
    BY <1>1, <2>1, SerialElse
<1>9. ASSUME NEW i \in Invoices, NEW k \in Calls, NEW s \in BillStatus, Invoice(i, k, s)
      PROVE  Serial'
  BY <1>1, <1>9, SerialElse DEF Invoice, Mirror
<1>10. ASSUME NEW p \in Assigned, AssignPlan(p) PROVE Serial'
  <2>1. sub'.customer = sub.customer
    BY <1>2, <1>10 DEF AssignPlan, SubRow
  <2>2. QED
    BY <1>1, <1>10, <2>1, SerialElse DEF AssignPlan, World
<1>11. ASSUME NEW e, Deliver(e) \/ Lose(e) \/ Work(e) \/ GiveUp(e) PROVE Serial'
  <2>1. sub'.customer = sub.customer
    BY <1>11, MirrorKeepsCustomer
    DEF Deliver, Refuse, Enqueue, RunInline, Lose, Work, GiveUp, Mirror, Serial
  <2>2. UNCHANGED <<stripe, call>>
    BY <1>11 DEF Deliver, Refuse, Enqueue, RunInline, Lose, Work, GiveUp, World
  <2>3. QED
    BY <1>1, <2>1, <2>2, SerialElse
<1>12. QED
  BY <1>1, <1>3, <1>4, <1>5, <1>6, <1>7, <1>8, <1>9, <1>10, <1>11, SerialPersist, SerialPay
  DEF Next

\* Where checkouts come one at a time, whichever of them die, whoever has paid
\* is the customer on file.
THEOREM PayerFound == ASSUME Exclusive PROVE Spec => []PayerOnFile
<1>1. Serial /\ [Next]_vars => Serial'
  BY SerialStep
<1>2. Serial => PayerOnFile
  BY DEF Serial
<1>3. QED
  BY SerialInit, <1>1, <1>2, PTL DEF Spec
=============================================================================
