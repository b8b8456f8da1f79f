------------------------------ MODULE Billing ------------------------------
(***************************************************************************)
(* The mirror of Stripe: BillingService.  A company's row in               *)
(* subscriptions follows what happens at Stripe through events, which a    *)
(* webhook takes and a queue applies; a checkout writes the same row.      *)
(* Stripe and its deliveries are external: an event is delivered at least  *)
(* once, in any order.  A checkout that has answered has handed out the    *)
(* page at which the customer may pay.  The guard of all routes stands      *)
(* before the webhook, which its own comment says it does not; both are     *)
(* explored.                                                               *)
(***************************************************************************)
EXTENDS Naturals, FiniteSets

CONSTANTS
    Calls,           \* checkouts; a customer at Stripe is named after the one that made it
    Plans, TrialPlan,
    Assigned,        \* the plans that operators assign
    Invoices,
    Null,
    Modes,           \* is there Redis ("redis") or not ("inline")?
    Exempt,          \* is the webhook's route exempt from the guard (not in the code)?
    Reached,         \* the statuses that subscriptions and invoices come to have at Stripe
    MaxVersion,      \* bound on the changes at Stripe
    Crashes,         \* may a checkout die between two steps?
    Exclusive        \* do checkouts come one at a time?

StripeStatus == {"trialing", "active", "past_due", "unpaid", "canceled", "incomplete",
                 "incomplete_expired", "paused"}
BillStatus == {"draft", "open", "paid", "void", "uncollectible"}

ASSUME BillingAssumption ==
    /\ TrialPlan \in Plans /\ Assigned \subseteq Plans
    /\ Reached \subseteq StripeStatus \cup BillStatus
    /\ Modes \subseteq {"redis", "inline"} /\ Exempt \subseteq BOOLEAN
    /\ MaxVersion \in Nat
    /\ Null \notin Calls /\ Null \notin Plans /\ Null \notin Invoices
    /\ Invoices \cap {"subscription", "session"} = {}
    /\ {Crashes, Exclusive} \subseteq BOOLEAN

VARIABLES
    stripe,          \* external: the subscription of each customer
    bill,            \* external: the invoices
    outbox,          \* external: events that Stripe has yet to see answered
    public,          \* is the webhook's route exempt from the guard?
    job,             \* the billing queue: events to be applied
    sub,             \* the company's row in subscriptions
    invoice,         \* invoices
    call,            \* the locals of each checkout
    applied,         \* history: the version of each object last applied
    overruled,       \* history: has a checkout or an operator written a status since?
    lost             \* history: has an event been lost?

vars == <<stripe, bill, outbox, public, job, sub, invoice, call, applied, overruled, lost>>

-----------------------------------------------------------------------------
(* Types *)

Version == 0..MaxVersion
StripeRow == [status : StripeStatus, plan : Plans \cup {Null}, version : Version]
BillRow == [status : BillStatus, customer : Calls \cup {Null}, version : Version]

\* The object of an event is a subscription or an invoice as it was then, or
\* the session of a checkout, whose status is "complete".
Event == [object : {"subscription", "session"} \cup Invoices, customer : Calls,
          status : StripeStatus \cup BillStatus \cup {"complete"}, version : Version]

SubStatus == {"trialing", "active", "past_due", "canceled"}
SubRow == [plan : Plans, status : SubStatus, customer : Calls \cup {Null},
           id : {Null, "subscription", "session"}]      \* stripe_subscription_id
InvoiceStatus == {"draft", "open", "paid", "void"}
InvoiceRow == InvoiceStatus \cup {Null}

CallState == [pc : {"idle", "customer", "persist", "session", "open", "paid", "dead"},
              plan : Plans, customer : Calls \cup {Null}, status : SubStatus]

TypeOK ==
    /\ stripe \in [Calls -> StripeRow]
    /\ bill \in [Invoices -> BillRow]
    /\ outbox \subseteq Event
    /\ public \in BOOLEAN
    /\ job \subseteq Event
    /\ sub \in SubRow
    /\ invoice \in [Invoices -> InvoiceRow]
    /\ call \in [Calls -> CallState]
    /\ applied \in [{"subscription"} \cup Invoices -> Version]
    /\ {overruled, lost} \subseteq BOOLEAN

Init ==
    /\ stripe = [c \in Calls |-> [status |-> "trialing", plan |-> Null, version |-> 0]]
    /\ bill = [i \in Invoices |-> [status |-> "draft", customer |-> Null, version |-> 0]]
    /\ outbox = {} /\ job = {} /\ public \in Exempt
    /\ sub = [plan |-> TrialPlan, status |-> "trialing", customer |-> Null, id |-> Null]
    /\ invoice = [i \in Invoices |-> Null]
    /\ call = [c \in Calls |-> [pc |-> "idle", plan |-> TrialPlan, customer |-> Null,
                                status |-> "trialing"]]
    /\ applied = [o \in {"subscription"} \cup Invoices |-> 0]
    /\ overruled = FALSE /\ lost = FALSE

-----------------------------------------------------------------------------
(* createCheckout and changePlan: read the row; make a customer unless the  *)
(* row has one; write plan, customer and the status that was read; open the *)
(* session.                                                                 *)

Running(c) == call[c].pc \in {"customer", "persist", "session"}
World == <<stripe, bill, outbox, public>>
Mirror == <<sub, invoice, applied, overruled>>

GetSubscription(c, p) ==
    /\ call[c].pc = "idle"
    /\ Exclusive => \A d \in Calls : ~Running(d)
    /\ call' = [call EXCEPT ![c] = [pc |-> "customer", plan |-> p,
                                    customer |-> sub.customer, status |-> sub.status]]
    /\ UNCHANGED <<World, job, Mirror, lost>>

\* (mutant of EnsureCustomer: a customer on file is not used again)
NewCustomer(c) ==
    /\ call[c].pc = "customer"
    /\ call' = [call EXCEPT ![c].pc = "persist", ![c].customer = c]
    /\ UNCHANGED <<World, job, Mirror, lost>>

EnsureCustomer(c) ==
    /\ call[c].pc = "customer"
    /\ call' = [call EXCEPT ![c].pc = "persist", ![c].customer = IF @ = Null THEN c ELSE @]
    /\ UNCHANGED <<World, job, Mirror, lost>>

PersistIntent(c) ==
    /\ call[c].pc = "persist"
    /\ sub' = [sub EXCEPT !.plan = call[c].plan, !.customer = call[c].customer,
                          !.status = call[c].status]
    /\ overruled' = (overruled \/ sub.status # call[c].status)
    /\ call' = [call EXCEPT ![c].pc = "session"]
    /\ UNCHANGED <<World, job, invoice, applied, lost>>

OpenSession(c) ==
    /\ call[c].pc = "session"
    /\ call' = [call EXCEPT ![c].pc = "open"]
    /\ UNCHANGED <<World, job, Mirror, lost>>

Crash(c) ==
    /\ Crashes /\ Running(c)
    /\ call' = [call EXCEPT ![c].pc = "dead"]
    /\ UNCHANGED <<World, job, Mirror, lost>>

\* An operator assigns a plan: AdminService.assignPlan.
AssignPlan(p) ==
    /\ sub' = [sub EXCEPT !.plan = p, !.status = "active"]
    /\ overruled' = (overruled \/ sub.status # "active")
    /\ UNCHANGED <<World, job, invoice, call, applied, lost>>

-----------------------------------------------------------------------------
(* Stripe *)

\* Changes are numbered in the order in which they happen.
Versions == {stripe[c].version : c \in Calls} \cup {bill[i].version : i \in Invoices}
Numbered(v) == v \in 1..MaxVersion /\ v - 1 \in Versions /\ \A w \in Versions : w < v

Sends(events) == outbox' = outbox \cup events
About(object, c, status, v) == [object |-> object, customer |-> c, status |-> status, version |-> v]

\* The customer pays; a session is paid once.
Pay(c) ==
    LET k == call[c].customer
    IN  \E v \in Version :
        /\ call[c].pc = "open" /\ Numbered(v)
        /\ stripe' = [stripe EXCEPT ![k] = [status |-> "active", plan |-> call[c].plan, version |-> v]]
        /\ Sends({About("subscription", k, "active", v), About("session", k, "complete", v)})
        /\ call' = [call EXCEPT ![c].pc = "paid"]
        /\ UNCHANGED <<bill, public, job, Mirror, lost>>

Change(k, status) ==
    \E v \in Version :
        /\ stripe[k].version > 0 /\ Numbered(v)
        /\ status \in Reached \ {stripe[k].status}
        /\ stripe' = [stripe EXCEPT ![k].status = status, ![k].version = v]
        /\ Sends({About("subscription", k, status, v)})
        /\ UNCHANGED <<bill, public, job, Mirror, call, lost>>

\* finalized, paid, payment_failed; an invoice that is paid or void stays so.
Invoice(i, k, status) ==
    \E v \in Version :
        /\ stripe[k].version > 0 /\ Numbered(v)
        /\ bill[i].customer \in {Null, k}
        /\ bill[i].status \in {"draft", "open"} /\ status \in Reached
        /\ bill' = [bill EXCEPT ![i] = [status |-> status, customer |-> k, version |-> v]]
        /\ Sends({About(i, k, status, v)})
        /\ UNCHANGED <<stripe, public, job, Mirror, call, lost>>

-----------------------------------------------------------------------------
(* The guard refuses a delivery, which has no user's token; Stripe sends it *)
(* again and in the end no more.  The webhook itself answers 200 whatever   *)
(* happens: with Redis it enqueues, without it the event is applied at once *)
(* and a failure is logged.                                                 *)

StatusMap == [trialing |-> "trialing", active |-> "active", past_due |-> "past_due",
              unpaid |-> "past_due", canceled |-> "canceled", incomplete_expired |-> "canceled"]

\* (mutant of MirrorStatus: what the map does not have is canceled)
MirrorStrictly(s) == IF s \in DOMAIN StatusMap THEN StatusMap[s] ELSE "canceled"

\* (mutant of MirrorStatus: Stripe's word as it is)
MirrorRaw(s) == s

MirrorStatus(s) == IF s \in DOMAIN StatusMap THEN StatusMap[s] ELSE "active"

\* An update by customer: no such row, no effect.
ApplySubscription(e) ==
    /\ IF sub.customer = e.customer
       THEN /\ sub' = [sub EXCEPT !.status = MirrorStatus(e.status), !.id = e.object]
            /\ applied' = [applied EXCEPT !["subscription"] = e.version]
            /\ overruled' = FALSE
       ELSE UNCHANGED <<sub, applied, overruled>>
    /\ UNCHANGED invoice

MirrorInvoice(s) == IF s = "uncollectible" THEN "void" ELSE s

ApplyInvoice(e) ==
    /\ IF sub.customer = e.customer
       THEN /\ invoice' = [invoice EXCEPT ![e.object] = MirrorInvoice(e.status)]
            /\ applied' = [applied EXCEPT ![e.object] = e.version]
       ELSE UNCHANGED <<invoice, applied>>
    /\ UNCHANGED <<sub, overruled>>

ApplyEvent(e) == IF e.object \in Invoices THEN ApplyInvoice(e) ELSE ApplySubscription(e)

\* Stripe has seen the answer, or will send the event again.
Answered(e) == outbox' \in {outbox, outbox \ {e}}

Refuse(e) ==
    /\ ~public
    /\ Answered(e)
    /\ lost' = (lost \/ e \notin outbox')
    /\ UNCHANGED <<stripe, bill, public, job, call, Mirror>>

Enqueue(e) ==
    /\ public /\ "redis" \in Modes
    /\ Answered(e)
    /\ job' = job \cup {e}
    /\ UNCHANGED <<stripe, bill, public, call, Mirror, lost>>

RunInline(e) ==
    /\ public /\ "inline" \in Modes
    /\ Answered(e)
    /\ ApplyEvent(e)
    /\ UNCHANGED <<stripe, bill, public, job, call, lost>>

\* Redis or the database fails: answered 200 all the same.
Lose(e) ==
    /\ public /\ Crashes
    /\ outbox' = outbox \ {e}
    /\ lost' = TRUE
    /\ UNCHANGED <<stripe, bill, public, job, call, Mirror>>

\* (mutant of Work: the job is taken off the queue and not applied)
TakeOnly(e) ==
    /\ job' = job \ {e}
    /\ UNCHANGED <<World, call, Mirror, lost>>

Work(e) ==
    /\ job' = job \ {e}
    /\ ApplyEvent(e)
    /\ UNCHANGED <<World, call, lost>>

\* A failed attempt leaves the job as it is; after the third it is given up.
GiveUp(e) ==
    /\ Crashes
    /\ job' = job \ {e}
    /\ lost' = TRUE
    /\ UNCHANGED <<World, call, Mirror>>

-----------------------------------------------------------------------------

Deliver(e) == Refuse(e) \/ Enqueue(e) \/ RunInline(e)

Next ==
    \/ \E c \in Calls :
          \/ \E p \in Plans : GetSubscription(c, p)
          \/ EnsureCustomer(c)
          \/ PersistIntent(c)
          \/ OpenSession(c)
          \/ Crash(c)
          \/ Pay(c)
          \/ \E s \in StripeStatus : Change(c, s)
          \/ \E i \in Invoices, s \in BillStatus : Invoice(i, c, s)
    \/ \E p \in Assigned : AssignPlan(p)
    \/ \E e \in outbox : Deliver(e) \/ Lose(e)
    \/ \E e \in job : Work(e) \/ GiveUp(e)

Spec == Init /\ [][Next]_vars

\* The worker takes job after job; nothing is assumed of Stripe and its deliveries.
FairSpec == Spec /\ \A v \in 1..MaxVersion : WF_vars(\E e \in job : e.version = v /\ Work(e))

-----------------------------------------------------------------------------
(* Properties *)

\* "Stripe is the source of truth for payment state; webhooks mirror
\* status/period here" (schema/plans.ts:57): once the event that was applied
\* last is the newest one, and no checkout or operator has written a status since, the
\* row says what Stripe says, in Stripe's word where it has that word, however events
\* were repeated, reordered and lost before: of the session and the subscription of one
\* payment it does not matter which comes last.  Whoever has not paid the first invoice
\* yet, or has paused, is shown as active (billing.service.ts:228).
SubscriptionInStep ==
    LET s == stripe[sub.customer]
    IN  sub.customer # Null /\ s.version > 0 /\ applied["subscription"] = s.version /\ ~overruled
        => sub.status = CASE s.status \in SubStatus             -> s.status
                          [] s.status = "unpaid"                -> "past_due"
                          [] s.status = "incomplete_expired"    -> "canceled"
                          [] s.status \in {"incomplete", "paused"} -> "active"

\* The same of invoices: what is still to be paid is open, nothing else is.
InvoicesInStep ==
    \A i \in Invoices : invoice[i] # Null /\ applied[i] = bill[i].version
        => /\ (invoice[i] = "open") = (bill[i].status = "open")
           /\ (invoice[i] = "paid") = (bill[i].status = "paid")

\* Behind the guard nothing arrives: of what happens at Stripe the row and the invoices
\* know nothing, whoever has paid.
NothingPastGuard ==
    ~public => /\ sub.id = Null /\ \A i \in Invoices : invoice[i] = Null
               /\ \A o \in DOMAIN applied : applied[o] = 0

\* The whole mirror, the subscription and its invoices.
InStep == SubscriptionInStep /\ InvoicesInStep /\ NothingPastGuard

\* Whoever has paid is the customer on file, so that later events find the
\* row: the customer is written before the page to pay at is handed out, and kept
\* ("so the customer id is on file before the webhook lands",
\* billing.service.ts:144).  Checkouts come one at a time and may die.
PayerOnFile == \A k \in Calls : stripe[k].version > 0 => sub.customer = k

\* An event that has been taken into the queue is applied, whatever is delivered and
\* repeated meanwhile, unless an attempt at it was given up or an event was lost.
TakenIsApplied ==
    \A k \in Calls, v \in 1..MaxVersion :
        (\E e \in job : e.object \notin Invoices /\ e.customer = k /\ e.version = v)
            ~> (applied["subscription"] = v \/ lost)
=============================================================================
