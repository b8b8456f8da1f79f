# Vellora backend: verification project

The repository is a NestJS backend for human resources: companies, stores,
employees, time off, attendance, shifts, documents, recruiting, messaging and
billing, over one Postgres database (Drizzle) with optional Redis queues
(BullMQ). It has no tests. This directory holds TLA+ models of the parts whose
correctness depends on what several calls do to the same rows, the TLC
configurations that check them and proofs of the results that hold for every
size of system.

    tlc -config MCLeave.cfg MCLeave.tla           # any MC*.cfg with its MC module
    tlapm LeaveProofs.tla                         # any *Proofs.tla

Sources are named relative to `src/src/`.

## How the program runs, and what every model shares

* **A repository call is a transaction.** `DatabaseService.withTenant`
  (`database/database.service.ts:31`) opens one READ COMMITTED transaction,
  runs the callback and commits. A service method is a sequence of such calls
  with `await` in between; it holds no lock, and no row carries a version.
* **So a call is a little process.** In every module `call[c]` holds the locals
  of one HTTP call: its `pc` is the await it is suspended at, the other fields
  are the rows and values it carries across it. One action is one repository
  call together with the computation up to the next one. In Leave, Attendance, DeviceRegistration and
  Terminals a call serves one request, and a client that retries is another call. In the
  other modules a call that has answered is free for the next request, so `Calls`
  bounds how many requests are in progress together (or, where they stay dead, have
  died), and not how many come.
* **A call may die** at any await: a failed statement, a lost connection, a
  restart. Nothing is rolled back but the transaction in progress. The action is
  `Crash`; in Terminals a dead call is one that takes no further step, which every
  safety check includes.
* **Ids** are never reused; a refused call changes nothing and ends.
* **Serial or overlapping.** Most promises hold when the calls about one
  employee (or store, or ledger) come one at a time, and several break when
  they overlap. Each module has a constant (`Exclusive`, `Serialized`, `Overlap`, a field
  of `Sizes`) that says for whom calls come one at a time, so that both questions can be asked: what holds
  whatever overlaps, and what holds in turn. In Leave, DeviceRegistration and
  Terminals different ledgers, employees or stores overlap all the same.

## Inventory

| Component | State it keeps | Operations | Hard behaviour | What makes it correct |
|---|---|---|---|---|
| Leave (`leave/`) | requests with an approval chain, ledgers of entitled/taken/pending | create, approve, reject, cancel, set balance, year end | decisions race; request and ledger are two transactions in either order | the chain decides; the ledger equals the sum of its requests; closed stays closed |
| Attendance (`attendance/`) | logs, breaks, anomalies, corrections | clock in/out, break start/end, offline flush, delete, corrections, kiosk punch | double punches, device clocks, unordered offline queues, dying half way | one open log, no break outlives its log, spans disjoint, flags explained, corrections do what they say |
| Device registration (`devices/device-registration.*`) | registrations, history trail | register, revoke, disable, enable, gate of the kiosk | check-then-act, row and trail in two transactions | one active device, revocation is final, trail tells the status |
| Terminals (`devices/devices.*`) | terminals with a secret and its age | create, authorize, block, deactivate, reactivate, delete, get/validate QR | rotation races with requests and with freezing | one terminal per store, a shown code is good until it expires, frozen codes die |
| Billing mirror (`billing/`) | subscription, invoices, usage | checkout, webhook events, usage sync, reminders | events lost, repeated, out of order; Stripe calls between read and write | the mirror says what Stripe's newest event said |
| Activation and seats (`employees/activation-requests.*`) | requests, memberships | raise, approve, reject, cooldown | cap checked before the write; invite between | active members within the cap; one decision per request |
| Employees (`employees/`) | employees, contracts, bank accounts, store links | create, import, archive, remove, contracts | code numbering races, limits | unique codes, limits, one payroll account, a cancelled contract stays as it was |
| Scheduling (`scheduling/`) | shifts, templates, targets | create, assign, approve, publish, cancel, copy week, apply template, suggestions | conflict check and write are apart; bulk paths skip it | nobody is in two places, nor for too long; suggestions add who is missing |
| Transfers (`transfers/`) | transfers, employee-store links, primary store | create, approve, reject, cancel, sweep | links shared by two transfers, sweep racing decisions | a link exists exactly while its transfer is active |
| Documents (`documents/`) | documents, trash, signatures, bucket objects | upload, delete, restore, purge, sign, expiry scan | two stores (database, bucket), two trash entries, scan against decisions | nothing live is purged; what is due is flagged |
| Onboarding (`onboarding/`) | groups of tasks, assignments | assign, reorder, delete, tick | assigned in three transactions while tasks are deleted; drops that wait for each other | what was assigned is there, once; a drop is whole |
| Recruiting (`recruiting/`) | jobs, candidates, interviews | publish, apply, move, score | a model is asked between read and write; an application committed before anybody is told | slugs are free, who was thanked is known to HR, a score is of the parse beside it |
| Sign-in, registration (`auth/`) | users, memberships | authenticate, register | external identity first, database after | a company works only for a confirmed owner; nobody is stranded |
| Companies, groups, stores | their rows, settings | create, update, deactivate, group | a group without foreign key; settings merged from an old read | a company is in a group that exists |
| Permissions, entitlements | overrides, plans | the guards of a request, set overrides, resolve features and limits | guards read one after the other while administrators write | what a request gets through with was so at some moment |
| Notifications, messaging, e-mail | rows, read markers, queue jobs | emit, broadcast, send, mark read | queue retries, late requests, fan-out that stops half way | members are told, a mail's status is true |
| Infrastructure | queue, storage, mailer, realtime rooms, audit | enqueue, worker, sign URL, push | three attempts, or inline with errors swallowed | at-least-once with Redis |
| Admin, reports, search, AI, design, health, seeds, configuration | one row each or none | reads, single writes | none that spans two steps | - |

How they interact: controllers call one service each; services share rows
rather than events. Leave and attendance read shifts and policies; the kiosk
punch goes through terminals and device registration before attendance;
employees raise activation requests, which ask billing for the cap and create
memberships; nearly every service emits notifications, which enqueue e-mail;
billing and the scheduled jobs run in queue workers. `PROJECT.json` lists the
hazards of each component at their lines.

## Modules

| Module | What it is |
|---|---|
| `Leave` | requests, approval chain and ledger, one action per transaction of `leave.service.ts` |
| `LeaveLedger` | what time off promises: each decision moves its days in the same step |
| `LeaveBooks` | the mapping of Leave to LeaveLedger, and the agreement of ledger and requests |
| `LeaveProofs` | proofs about Leave, and that it implements LeaveLedger |
| `Attendance` | punches, breaks, anomalies and the offline flush of `attendance.service.ts` |
| `Corrections` | requests to change a log, their approval and rejection, and what else writes it meanwhile |
| `DeviceRegistration` | the binding of a device to an employee |
| `Terminals` | terminals and their rotating code |
| `Transfers` | moves and guest visits between stores, their links, and the sweep of `transfers.service.ts` |
| `Documents` | documents, trash, signatures and bucket objects of `documents.service.ts` |
| `Billing` | checkouts, Stripe's events, queue and mirror of `billing.service.ts` and its webhook |
| `Entitlements` | features and limits: the base, the seeded plans, what operators override; a library of operators |
| `Access` | every route with what it needs, and the guards as steps of a request |
| `Workforce` | employees and their numbers, the caps, requests for a login and their approval |
| `Accounts` | registration, provisioning of users, companies and groups |
| `Records` | an employee's contract and bank accounts |
| `Recruiting` | jobs and slugs, applications, scores |
| `Onboarding` | checklists: groups, tasks, drops, assignments |
| `Scheduling` | shifts, conflict checks, templates, coverage and suggestions of `scheduling.service.ts` |
| `Messaging` | conversations, messages, read markers and whom a message tells |
| `Mail` | notifications and e-mails, from row to job to worker to mailer |
| `TimeClock` | Attendance and Corrections beside each other |
| `Devices` | DeviceRegistration and Terminals beside each other |
| `Personnel` | Documents and Transfers beside each other |
| `Tenancy` | Access and Accounts beside each other |
| `Staff` | Workforce, Records, Recruiting and Onboarding beside each other |
| `Inbox` | Messaging and Mail beside each other |
| `AttendanceProofs` | proofs about TimeClock |
| `DeviceRegistrationProofs` | proofs about Devices |
| `DocumentsProofs` | proofs about Personnel |
| `AccessProofs` | proofs about Tenancy |
| `PeopleProofs` | proofs about Staff and Inbox |
| `BillingProofs`, `SchedulingProofs` | proofs about the modules they are named for |
| `MC*` | the instances TLC checks |

| MC module | checks | run |
|---|---|---|
| `MCLeave` | `Leave`, `LeaveBooks`, `LeaveLedger` | `leave`, and `leave_overlap` (a violation) |
| `MCAttendance` | `TimeClock` | `attendance`, and `attendance_break` (a violation) |
| `MCDevices` | `Devices` | `devices` |
| `MCPersonnel` | `Personnel` | `personnel` |
| `MCTransfers` | `Transfers` | `transfers_shared` (a violation) |
| `MCBilling` | `Billing` | `billing` |
| `MCAccess` | `Tenancy`, with `Entitlements` | `access` |
| `MCPeople` | `Staff` | `people` |
| `MCScheduling` | `Scheduling` | `scheduling` |
| `MCInbox` | `Inbox` | `inbox` |

The components that a module has "beside each other" are explored apart. A variable `scene` (`side` in
`Inbox`), chosen at first and never changed, says which of them runs in a behaviour; the others stand
still or are not there (`Null`). No interaction is modelled by that: it lets one run explore, and one
theorem speak of, what the components each promise. Most of them share no row. Two pairs would
meet: Attendance and Corrections write the same `attendance_logs`, of which Corrections has one log
with a clock-out and a deletion of its own, so that a correction between two
steps of a punch is outside both but for that clock-out; and Terminals and DeviceRegistration meet in the kiosk punch,
which is not modelled. A property of a
scene is stated as `scene = "..." => ...`. The MC modules of Leave and Attendance use a scene
also for one component with different constants, and that of `Staff` divides two scenes further
into parts (`Within` bounds each).

Operators whose comment begins with "(mutant of X" are not part of a
specification: they are plausible mistakes in X, kept to show that the
properties notice them (`PROJECT.json`, "mutants").

### Leave

`request[r]` is a row of `leave_requests` with its status, the statuses in
the JSON chain and `currentStep`; `balance[l]` a row of `leave_balances`, keyed by
the ledger (employee, type, year) a request draws on. `CreateRequest` inserts
and then adjusts; `ApproveRead`/`ApproveWrite` read, then write chain, step and
status from the row that was read, and adjust the ledger after the last step;
`RejectRead`/`CancelRead` check, adjust, and only then `RejectWrite`/`CancelWrite`
close the row. `FindBalance`/`StoreBalance` are the two transactions of
`adjustBalance`: absolute amounts computed from the row found, floored at zero,
or an insert whose conflict clause (`Adjusted`) writes `entitled` alone.
`SetBalance` is the administrator's upsert.

Amounts count half days. Holidays, blackout dates and types decide only whether
a request is made and how many days it has, so `Days` gives the days and a
refusal is a request that never comes; `ChainLengths` are the lengths
`buildChain` can return.

* Run `leave`, scene "chain" (3 calls on one request, overlapping, dying): `ChainDecides`.
  `ApproveWrite` overwrites what other approvers wrote, yet because chain, step
  and status are written together from one row, an approved request always has its whole
  chain approved. Three calls reach a complete approval of a two-step chain and a third
  call (an approval, a rejection, a cancellation) that read the row before it.
* Scene "books" (4 calls, three requests on two ledgers, calls on one ledger in
  turn): `BooksImplementLedger` is the refinement of `LeaveLedger`, in which a ledger counts
  what the one call at work on it still owes it or gave it too early (`LeaveBooks!InHand`);
  `BooksSettleInTurn` is liveness: no call leaves its second transaction undone.
  Two requests share a ledger so that one's adjustment could disturb the other's;
  the third shows that ledgers are independent.
* `leave_overlap` finds `BooksAgree` violated when two calls on one ledger
  overlap: a lost update.
* Seen while modelling and not kept as a run: when an approval and a rejection of
  one request overlap, a closed request is opened again, because the approval writes
  over the row that was closed after it read it.

### Attendance

`log`, `break` and `anomaly` are the three tables, `now` the clock. `call[c].op` is the operation
and `pc` its await: a clock-in is `ClockInFind`, `ClockInInsert`, then `RaiseAnomaly`/`FlagLog` if
late; a clock-out is `ResolveLog`, `FindBreak`, `EndBreak`, `CloseLog`, and the anomalies of
`detectOnClose`; breaks and deletion likewise. `Sync` is the offline flush: it takes punches of
any time, past or future (the DTO asks for a date and no more), sorts the batch (`Earliest`), runs
the same operations one after the other and collects errors; after each clock-in it looks the open
log up again and marks its source. A call knows the employee it is about: where calls about one
come in turn, a deletion is a call about the employee whose log it is (`Punch`). A log is open
while it has no clock-out, whatever its status: the flag of a late punch overwrites `open`.

A shift is the interval during which the code would pair a punch with it, plus its break;
grace, slack and the daily cap are constants. Time is in ticks with
`TicksPerMinute` to a minute, because the length of a break goes into an integer
column (`WholeMinutes`). A client that names the shift explicitly gets it paired
whatever the time (`Pairings`); one that names the log is not asked whether it is open.

* Run `attendance`, scene "race" (3 calls, overlapping, dying, naming logs, back-dated):
  `LogsHoldUp`: every flag has its anomaly and a closed log a positive length all the same.
* Scene "punches" (4 calls in turn, dying, with offline batches between), `PunchesInTurn`: one
  open log (`OneOpenLog`), no break from a shift that is over (`NoDanglingBreak`), spans of work
  that do not overlap (`SpansDisjoint`), and batches none of whose punches is refused
  (`BatchApplies`): those that began with no log open and are `Orderly`, which says of the times
  of their punches, and not of the order they were sent in, that each may follow the one before.
  `SpansDisjoint` is about the spans that the server's clock stamped at both ends, once all calls
  have answered: online logs that no batch has closed (`flushed`, a history field). Four calls
  cover a full day of in, break, end, out, and a batch against any three of them.
* `attendance_break` finds that clocking out during a break fails unless the break
  lasted whole minutes.
* Seen while modelling and not kept as runs: what a batch opened or closed may overlap anything. It is
  compared with the log that is open and with nothing else, so that one may close an online log at a
  time to come, and the next online clock-in begins before the log before it has ended. Two overlapping clock-ins both find
  nothing open and both insert, so `OneOpenLog` fails; and with `ByName`, one punch
  after the other, `NoDanglingBreak` fails, because `resolveOpenLog` returns a log named
  by id without asking whether it is open (`attendance.service.ts:314`).

### Corrections

`log` is one row of `attendance_logs` with the three fields that can be corrected, and `correction`
the requests against it; they go with the log (`DeleteLog`, a cascade). `Decide` is the
check that a correction is still `requested`; an approval is then `ApplyCorrection`, which
writes the field and the status `corrected` and nothing else (`Patched`), and `Settle`; a
rejection is `Settle` alone. `ClockOut`/`CloseLog` are the employee's own. `applied`,
`torn` and `meant` are history: what was written into the log, which approvals died half
way, and the value each time was last given.

* Run `attendance`, scene "corrections" (two handlers, overlapping or in turn, that may die;
  two corrections, two times and a value no column takes): `CorrectionsHold`, which is
  `DecidedIsDone` (what is approved was written whatever overlaps; in turn, what was
  written is approved unless its approval died) and `NoFieldUndone` (each time is the one it
  was last given). Two handlers are an approval and whatever races it.
* Seen while modelling: an approval and a rejection that overlap leave a rejected correction in
  the log; nothing compares the corrected times, so a log may end before it begins; a
  correction of the status may set any of them; and one whose value cannot be read (the DTO
  takes any string) fails each approval and can only be rejected.

### Device registration

`reg` is the table, `trail` the history per registration. Every operation is
look, write, `AddLog`. `IndexAdmits` is the partial unique index.
Calls about employees in `Serialized` come one at a time, the others overlap.

* Run `devices`, scene "registration" (4 of the calls, `MaxBegun`, two employees, one serialized, all
  may die): `OneActive` for both; `TrailTells`: once all calls have answered the trail
  mentions the status a row is in, however they overlapped, and for the serialized employee
  it ends with it; `RevokedStaysRevoked` for the serialized employee.
* Seen while modelling and not kept as a run: an enable that overlaps a revoke
  undoes the revocation, because the row is written on the strength of an old read.

### Terminals

A secret is named after the call that made it, so it never repeats. `burned` is a
history variable: the secrets shown before an administrator's operation on
their terminal. `Accepts` is what `validateQrToken` answers.

* Run `devices`, scene "terminals" (5 calls, two stores, one serialized): `TerminalsHold`,
  which is `OnePerStore` and `OldCodesDie` whatever overlaps, and `QrValidInTurn` (the
  rotation and the validation agree to the tick about expiry) where calls come one at a time.
* Seen while modelling and not kept as runs: of two requests that find the code
  stale, the second kills the code the first one showed; and a reactivation that
  overlaps a block undoes it. `QrValidInTurn` is therefore stated for `Serialized`
  stores only.
* The older device list of the same service is one unguarded write per
  operation and is not modelled.

### Transfers

`transfer[t]` is a row of `transfers`, of which only status and link change; `Asked[t]` is what
was asked for. `link[l]` is a row of `employee_stores`, unique per employee and store by its
conflict clause (`Upserted`), and `home` the primary store, with, as history, whether HR wrote it
last (`edited`). `create`, `approve`, `reject` and `cancel` find and check; `approve` then either
moves the employee (`SetPrimaryStore`) or adds the link (`AddLink`), or does neither when the
window has not begun; `cancel` removes the link of an active transfer (`RemoveLink`); all end in
`WriteStatus`. The sweep fetches what is due to open (`BeginSweep`), opens it row by row (`Open`,
`AddLink`, `WriteStatus`), fetches what is due to close (`FindOverdue`) and closes it likewise; it
works from the rows it fetched and the date it began with. Nothing in the repository calls
`runScheduledSweep` yet (the TODO at `transfers.service.ts:151`), so the model lets it be called
at any time. HR writes the same rows at any moment, a transfer under way or not:
`AddStoreLink`/`RemoveStoreLink` the links, for the pairs in `ByHand`, and `UpdateEmployee` the
primary store, for those in `Postings`. The deletion of an employee or a store, which takes
transfers and links along, is not modelled.

* Run `personnel`, scene "transfers" (one call after the other, without limit, of which up to two
  may die; two visits, one to a store HR links by hand, and a permanent move of an employee whom
  HR may post elsewhere before, during and after it; three days): `GuestsExplained`
  (`GuestWhileActive`, `CompletedLeavesNone`, `CompletedMoved`) and `SweepsCatchUp`. The link
  properties are about transfers that are `Alone` in using their employee's link to their store;
  the others are there to disturb them. `GuestWhileActive` asks that no call has died; the rest is
  checked with two dead calls left half done at any of their steps. `CompletedMoved` says that who
  has moved is at home in the destination, unless HR was the last to write the primary store: the
  move and the transfer's row are written apart, and HR's edit may come between or after them.
* `transfers_shared` shows why `Alone` is needed: two visits of one employee to
  one store share a row, and the first to end takes it from the other
  (`ActiveHasLink`).

### Documents

`doc`, `trash` and `sig` are the tables, `bucket` the documents whose object exists and `copies`
those with a signed copy. Deleting is `FindForDelete`, `AddEntry`, `MarkTrashed`; restoring
`FindEntry`, `Revive`, `DropEntry`; purging `FindEntry`, `RemoveObject` (best effort: it may leave
the object), `HardDelete` (signatures go with it), `DropEntry`. `purgeTrash`, the worker of the
purge queue, does that for every entry due; the expiry scan lists the active rows due within
`Window` days and flags them from the rows it listed. Both lists are of at most 1000 rows in no
order: `Listings` cuts them anywhere, at one of the `ListLimits`, and `cut` is history, whether a
job's list left something out. A request for signatures inserts a row per signer, and signing
copies the object, best effort, before it marks. `Mortal` names the operations that may die; a
dead call keeps the name of its operation so that properties can speak of it.

* Run `personnel`, scene "documents" (one call or job after the other, without limit, of
  which up to two may die anywhere; two documents, two trash entries, two days):
  `NothingLost` (what is live has its object, what is in the trash its entry),
  `PurgesTrashOnly`, `SweepsCatchUp` (a purge or scan that runs to its end and whose list was not cut
  leaves nothing due). The limits are 1 and 2, so that a list of two is cut and is not. Clients
  delete what a list shows as live (`FromList`).
* A job whose list was cut leaves the rest to another run of it, and which rows those are nothing
  says. The purge deletes its entries and the scan changes the status its list asks for, so each
  run takes others. What the scan has flagged `expiring` it never lists again.
* Seen while modelling and not kept as runs: without `FromList` a document deleted
  twice has two entries, and after a restore through one of them the purge of the
  other destroys the live document; a purge that dies after removing the object leaves
  an entry from which a document without object is restored; a purge removes the
  original and never the signed copy.

### Billing

`sub` is the company's row in `subscriptions`, `invoice` those of `invoices`. `stripe`, `bill`
and `outbox` are external: what Stripe holds, with a version that numbers its changes, and the
events it has yet to see answered. `createCheckout` and `changePlan` are `GetSubscription`
(which reads customer and status), `EnsureCustomer` (a call to Stripe), `PersistIntent` (which
writes plan, customer and the status that was read) and `OpenSession`. Then the customer may
`Pay`, which sends two events, of the session and of the subscription; `Change` and `Invoice`
are everything else Stripe does; `StripeStatus` are the eight statuses a subscription has there,
of which the code knows six and shows the others (`incomplete`, `paused`) as active.
The guard of all routes stands before the webhook and refuses each delivery, which has no user's
token (`Refuse`). The route's comment says that no guard does; `public`, chosen at first and
never changed, says which of the two is so, and both are explored. Past the guard
the webhook answers 200 whatever happens: with Redis it
enqueues (`Enqueue`, then `Work` with up to three attempts), without it applies the event
at once (`RunInline`). `Answered` lets Stripe send an event again, `Lose` and `GiveUp` are the
failures, and both set `lost`. An event updates by customer; there is no version or date in
it that the code compares. `applied` and `overruled` are history: which version came last, and
whether a checkout or an operator (`AssignPlan`) has written a status since.

* Run `billing` (one checkout at a time, two in all, which may die; two changes at Stripe; both
  queue modes; behind the guard and not): `InStep`, once the newest event is the one applied last,
  subscription and invoices say what Stripe says, in the word the code has for it, and behind the
  guard (`NothingPastGuard`) they say nothing of Stripe, whoever has paid; `PayerOnFile`, whoever
  has paid is the customer on file, so that later events would find the row; `TakenIsApplied`,
  liveness of the queue: an event it has taken is applied unless an attempt was given up or an
  event lost. Two changes are enough to apply an older event after a newer one and for a checkout
  to write between them.
* Not a property, because it is not so: that what happens at Stripe arrives. As the code stands nothing
  does. Nor that the mirror never goes back. An older event
  delivered late is applied over a newer one (`billing.service.ts:212`).

### Entitlements and Access

`Entitlements` holds operators only: the base, the seeded plans of `plan-defs.ts`, and what
`getEffective` makes of them, the override laid over the plan's map and both over the base (`++`).
`Access` has every route of every controller as what it needs (`Needs`: kind, module, roles,
feature) and a request that passes the guards in their order: `Authenticate` (which picks a
membership and promotes companies), `Guards`, `CheckPermission` with the roles, `ReadSubscription`
and `ReadOverride` of `PlanGuard`. Each is a transaction; between them memberships, the matrix,
subscriptions, overrides and statuses change. `seen` is history: everything that has held since
the request began.

* Run `access` (two companies, a person of both or of none; a route of each kind; two changes
  at any moment): `NeverWidens`, a handler works for a company in which its person was a
  member with that role at some moment of the request; `PermissionBites`, the same of the
  permission; `PlansDecide`, what operators deny or grant throughout decides, and a higher
  plan takes nothing away. A request makes at most four reads, and two changes suffice to make
  any two of them disagree. The first two are checked together as `GuardsHold`.

### Workforce, Accounts, Records

`Workforce`: `employee` (code and linked user), `user`, `membership`, `request` (activation
requests by age). `Create` checks the plan's limit once, for one employee or a file of several;
then each row is `TakeCode` (the highest number plus one, or the one given), `Insert` (the
unique index: a row whose code is taken is an error and a file goes on) and, with an
e-mail, `Raise`/`AskFor`. `Approve` reads, `CheckSeats` counts members and asks Supabase for an
identity, `Provision` is the one transaction of user, membership and link, `Decide` writes
the request; `Reject`/`Refuse` likewise, with the cooldown.

`Accounts`: registration is `Register`, `SignUp` (Supabase, before anything is written),
`UniqueSlug`, `Provision`; `SignIn` provisions a user and makes their pending companies
active; groups are owned by people, and `MayAttach`/`Attach` and `EmptyGroup`/`DeleteGroup`
are check and write, or two statements, of one call.

`Records`: a contract's extension, cancellation and deletion, each a check and a write that
does not repeat it; bank accounts, where `Demote`/`CommitPrimary` are one transaction that
demotes what it saw when it began.

* Run `people`, scenes "workforce" and "records", in each of which handlers either come one at a
  time or overlap, and may die. `WithinCaps`: alone they keep the caps; each that overlaps may
  exceed them by what it adds, and no more comes of it; a lone handler never generates a code
  somebody has. `RequestsDecide`: one pending request per person, who was approved is in, and who
  is in was approved. `RecordsHold` and, an action property, the first half of `KeptInTurn`: at
  most one payroll account, what is deleted was cancelled, what is cancelled stays as it was.
* Run `access`, scene "accounts": `TenantsStand`, a registered company that works has a confirmed
  owner, who signed up has a company, the group of a company exists (the last two for handlers
  that do not overlap or die). `POST /companies` takes a group id that nothing looks up
  (`create-company.dto.ts:46`, `companies.service.ts:69`; the column has no foreign key) and an
  owner who need only be a user (the membership's foreign key): `CreateWithOwner` names any of
  either. The promise about confirmed owners is therefore made of registered companies, and the
  one about groups leaves out companies whose creator named a group that was not there (`astray`,
  until somebody attaches them).
* Bounds: two handlers, three employees, two people besides the founder, two requests, files
  of two rows; two companies and one group; two accounts and one contract. Two handlers suffice
  for each race the hazards name, and a third row of a file or table repeats the second.

### Recruiting

`job` has slug and publication, `candidate` the resume's parse and `basis`, what the score was
made from (a parse, the bare name, or a hand). A slug is a title followed by numbers, so that a
title may look like another's second slug; `UniqueJobSlug` is one turn of the loop, and
`InsertJob` is refused by the index where somebody was faster. `publicApply` is `PublishedJob`,
`CreateCandidate` and a `NotifyHR` for each recipient, one after the other.
`scoreCandidate` is `ReadCandidate`, `ParseResume` (which may give nothing: no file, no model)
and `WriteScore`, which writes score and parse together.

* Run `people`, scene "posting" (three jobs of two titles, one of which is the other's second
  slug): `SlugsAreFree`, alone the loop ends at a slug the index takes. Three jobs are the least
  with which a number has to be skipped. Scene "applying" (two candidates, two members of HR, two
  outcomes of parsing): `ThankedIsTold`, who was answered is known to all of HR, and
  `ScoreFits`, a score is of the parse stored beside it, whatever overlaps. Both are
  `HiringHolds`. The second half of `KeptInTurn`: in turn, what was parsed stays.
* Seen while modelling: an application whose notifications fail is stored all the same, and the
  applicant, answered with an error, sends it again; and a scoring that read the candidate
  before another parsed the resume, and got nothing, writes nothing over the parse.

### Onboarding

`group` and `task` are the template; a row of a task has its group and its place, and, as history,
the set of tasks of the drop that put it there. `copies` counts the rows of
`onboarding_assignments` per person and task, which no index makes unique. `assign` is `ListTasks`
(of at most 1000 tasks in no order: `Listings`, cut at one of the `TaskLimits`; a picked task that
is not among them is dropped in silence), with `onlyMissing` `ExistingPairs`, and
`InsertAssignments`, one statement that a deleted task fails. A drop is one transaction of several
updates, each of which takes its row: `MoveNext` waits for rows that another drop has written
(`MayWrite`), nothing is visible before the last (`TakesEffect`), and `Fail` undoes it, which is
also how two that wait for each other end.

* Run `people`, scenes "assigning" (in turn; two people, two tasks, up to two copies), "racing"
  (two handlers at once for one person, up to three copies) and "dropping" (two tasks, two
  groups): `ChecklistsHold`, which is `AssignedIsThere` (an assignment that answered gave
  everybody everything it had listed, as long as the task is there, whatever ran at once),
  `NothingTwice` (with `onlyMissing`, in turn, but for who was named twice) and `DropsAreWhole`
  (of drops of the same tasks one wins entirely). Two tasks are the least that can be dropped in
  two orders.
* Seen while modelling: two assignments at once give a task twice, and so does one whose list names
  somebody twice (`twice`), with `onlyMissing` too: the list is pushed row by row, and what exists was
  looked up once before. The DTO takes any list of ids (`onboarding.dto.ts:38`) where it promises to
  "Only create rows that don't already exist" (`:41`). And the overview rounds, so
  that 199 tasks of 200 are shown as complete (`onboarding.service.ts:127`).

### Scheduling

`shift` holds the shifts in order of insertion, `target` the coverage targets. `Create`,
`Update` and `Assign` begin with the row as it would be; `CheckOverlaps`, `CheckEmployee`,
`CheckHours`, `CheckCapacity` and `CheckConcurrent` are the lookups of `assertNoConflicts` (the last two
read the store, then who is there, and the limit is carried from one to the other), `Insert` and
`Write` the last transaction, which writes only the fields the call names. `SetCapacity` is the
update of a store, at any moment. `Approve`,
`Cancel`, `PublishRange`, `ApplyTemplate` and `CopyWeek`/`Paste` check nothing of this; `unchecked` is
history: the shifts that came to count without a check of what they now are.
`Suggestions` is the fold of `suggestions()` over the hours of a week. Time is counted in hours
and a week has two days of two.

* Run `scheduling`: six worlds (`Booking`, two stores, and a template whose block ends before it
  begins; `Holding`, two people in one store whose capacity goes from one to two and back, published;
  `Working`, the weekly limit, and a template with a break below zero; `Copying`, weeks and leave;
  `Racing`, two handlers at once; `Covering`, targets), each small in what the others vary.
  `ShiftsFit` joins `NoDoubleBooking` and the limits of hours and
  capacity, which are about checked shifts (at once each handler but one may add a booking), with
  the order of a shift's times. `WithinWeeklyHours` counts the hours a shift lasts less its break,
  a break below zero as none (`Worked`); `StoresNotFull` is about the highest capacity a store has had
  (`held`), which is what a check may have been made against.
* `SuggestionsFillGaps` is the reference definition of coverage, for a range of days (the first
  week, and from the second day to as far in the second week): each hour in which somebody is
  missing lies in exactly one suggestion with that number, none crosses midnight, none could be
  merged. Who is missing is the target less who is on duty, but that a shift which began before
  the range is not seen (`Unseen`), as the code looks up the shifts that start in it.
* Seen while modelling: that is why suggestions for a range that begins in the morning ask for
  people for hours which an overnight shift has staffed (`scheduling.repository.ts:170`); coverage
  counts a shift nobody has been assigned to (`scheduling.service.ts:338`), so a published open
  shift hides a gap; lowering a store's capacity looks at nothing that is planned
  (`stores.service.ts:71`); and the break of a template's block is whatever the pattern has
  (`shift.dto.ts:73`): one below zero lengthens the hours that the weekly limit counts.

### Messaging and Mail

`Messaging`: `conversation` with its members, `message` (with the millisecond it was sent in, and
whether past its first microsecond), `marker` (reads) and `told` (notifications). `CreateDm` looks
among at most `limit` direct messages, in no order; `InsertConversation` and `InsertMembers` are
two transactions. `CreateMessage` is followed by `ReadOwn`, `MemberIds` and an `Emit` for each
other member, one after the other; `EmitFails` is a queue that cannot be reached, which fails the
handler after the row was written. `Unread` is the count of the list: the marker's `created_at`
comes back as a date of milliseconds and is compared with a column of microseconds (`After`), and
of at most 1000 rows, in no order, one's own are dropped after (`CountLimits`), so that it gives
the sets that may be counted.

`Mail`: `Broadcast` reads each person's preference, writes the notification and enqueues a job;
`Send` writes the message as queued and enqueues. A worker per queue takes a job, hands the e-mail
to the mailer (`Deliver`) and writes its status (`Record`). The mailer does not throw: any error
is an answer of failure, that of a response which was lost or too late after the provider took the
e-mail included (`unheard`, history).  `Fail` is an attempt that throws or a worker that dies at
any point, followed by another attempt up to `Attempts`. `inbox` counts what the provider took.

* Run `inbox`: seven worlds of conversations and three of mail. `ConversationsHold` has
  four parts: as long as the lookup sees all rows, two people have one direct message, plus one
  for each handler that overlaps (`OneDm`); who was a member is told unless the handler failed
  (`EveryoneIsTold`) and nobody else is (`OnlyMembersAreTold`); what is counted as unread is, to the
  millisecond, no older than what one wrote, for those who have not gone back (`UnreadIsNewer`).
  `StatusIsTrue`: sent is what the provider took, failed what it did not unless its answer was
  lost, and nothing is taken twice unless there was a second attempt.
* Seen while modelling: a message that one has read counts as unread if it was sent past the first
  microsecond of its millisecond, and so do others of that millisecond, older ones too, where the
  comment says "newer than the user's last-read marker" (`messaging.repository.ts:174`); the count
  is wrong past a thousand messages; and an e-mail whose acceptance was not heard of is recorded
  as failed (`mailer.service.ts:55`). `QueuedIsDecided`, liveness: a queued e-mail is sent or
  fails, unless its handler or all its attempts died.

## Bounds, symmetry, fairness

Calls (in Documents also documents and entries, in Attendance logs and breaks, in Accounts,
Workforce, Recruiting and Onboarding also people) are
interchangeable in most safety runs and declared symmetric; runs with liveness
declare none. Where a model numbers new rows it takes the next unused id
(`CHOOSE`), which picks one of states that differ by name only; such ids are
never declared symmetric as well. Where a call serves one request the number of
calls bounds every behaviour; elsewhere rows are used up, the calendar ends, and
requests go on for ever. Either way TLC's search of the
instance is exhaustive. Deadlock checking is off because the system stops when every call has
answered or died and nothing is left to ask. Clocks stop at `MaxTime` or `MaxDay`,
chosen so that a code can expire, a shift, a visit or a document's term can begin
and end, and something can be purged after its keep.

Fairness is weak throughout:

* Leave, `Proceed(c)` for each call (`Goes` in the MC module). A handler that has begun is
  a chain of promises; the event loop resumes it as soon as its query is answered, and
  nothing a different call does disables it. Nothing is fair where a call may die.
* Billing, the worker on each change's jobs: BullMQ keeps a job until it is done or its
  attempts are spent. Nothing is assumed of Stripe's deliveries, which the guard refuses.
* Mail, the e-mail worker and the handler's `Enqueue`. Workers may die again and again; each
  death uses an attempt, so that a job is decided or given up.

Nothing makes a client send a call.

## Findings and known divergences

Three runs expect a violation, each of a promise the repository states (`PROJECT.json`,
"findings"): `leave_overlap`, `attendance_break`, `transfers_shared`. Further disagreements met
while modelling, which the models contain as the code has them and no run is spent on:

* A scan never turns an `expiring` document into an `expired` one: it lists `active` rows
  only (`documents.service.ts:283`, `:289`).
* A plan takes effect when the checkout is opened, not when it is paid: `createCheckout`
  writes the plan first (`billing.service.ts:149`), where the header says "Stripe is
  authoritative for payment state; we mirror it here" (`:23`).
* `recruiting` and `reports` are features of the base, and a plan's map only adds to it, so
  that `PlanGuard` refuses them to nobody without an override; the comment says "the seeded
  plans gate them per-tier (Growth+)" (`entitlements.service.ts:57`).
* The job a notification enqueues for its e-mail has no address, and the worker returns
  at once; the comment says "The worker looks up + sends" (`notifications.service.ts:100`).
* The webhook says "NO auth guard" (`webhooks.controller.ts:9`), but the guard is global
  (`auth.module.ts:25`) and the route is not marked public, so a delivery without a user's token
  is refused before the handler (`Access!WebhookRoutes`, `Billing!Refuse`). Billing looks at both:
  what is refused changes nothing, and the handler is checked as it would work were the route
  public.
* The year-end roll-over is called by nothing. Without a rule it accrues the previous
  entitlement, carry-over included, so that carry would compound (`leave.service.ts:289`), and
  its list of balances is one of at most 1000 rows.
* What each section above lists as "seen while modelling".

## Proofs

TLAPS checks the theorems below for every value of the constants: any number of calls, rows,
people, days, and, but where a hypothesis says otherwise, calls that overlap and die anywhere.
Where two or more components are checked beside each other, the theorems are about the same
composition (`TimeClock`, `Devices`, `Personnel`, `Tenancy`, `Staff`, `Inbox`) that the runs check,
and state the same definitions. Every property that a passing run checks has its theorem, but for
the liveness properties. What a theorem assumes is of two kinds:

* the named assumption on a component's constants (`LeaveAssumption` and so on; of a composition,
  those of its parts). It types them, says that `Null` is none of the things it stands beside, and
  fixes an order where the code does (a keep of zero days or more, a limit above zero). What is
  counted is finite: calls, employees and people in Workforce, the handlers of Messaging
  (`InboxAssumption`), the tasks of Onboarding (`StaffAssumption`). TLC evaluates every
  assumption in the runs of its module;
* what the property itself needs. `Exclusive`, `Serialized` and `~overlap` say for whom calls come
  one at a time. `~Crashes`, `~ByName`, `FromList`, and `~BackDated` (online punches are stamped
  by the server's clock; batches take any time) are those of the scenes the runs check, and the
  overlaps, deaths or requests they exclude are the ones that the findings and "seen while
  modelling" show to break the property. `IsFiniteSet(Requests)` and `(Calls)` are assumed where
  something is counted or added up.

| Module | Theorem | Property | Under |
|---|---|---|---|
| `LeaveProofs` | `TypeCorrect`, `ApprovalNeedsWholeChain` | `TypeOK`, `ChainDecides` | - |
| | `LeaveIsLedger` | `ImplementsLedger`, the refinement of `LeaveLedger` | `Exclusive`, `~Crashes`, `IsFiniteSet(Requests)` |
| | `BooksAgreeInTurn` | `BooksAgree` | the same |
| `AttendanceProofs` | `TypeCorrect`, `LogsCorrect` | `Types`, `LogsHoldUp` | - |
| | `InTurnCorrect` | `PunchesInTurn` | `Exclusive`, `~ByName`, `~BackDated` |
| | `CorrectionsCorrect` | `CorrectionsHold` | - |
| `DeviceRegistrationProofs` | `TypeCorrect`, `OneActiveAlways` | `TypeOK`, `OneActive` | - |
| | `RevocationIsFinal`, `TrailTellsAlways` | `RevokedStaysRevoked`, `TrailTells` | stated of the employees in `Serialized` where they need it |
| | `TerminalsCorrect` | `TerminalsHold` | stated of the stores in `Ordered` where it needs it |
| `DocumentsProofs` | `RecordsTyped`, `TypeCorrect` | `Types`, `TypeOK` of Documents | - |
| | `NothingIsLost`, `OnlyTrashIsPurged` | `NothingLost`, `PurgesTrashOnly` | `Exclusive`, `FromList` |
| | `SweepsComplete` | `SweepsCatchUp` | `Exclusive` |
| | `MovesAreMade` | `CompletedMoved` of Transfers, the part of the next that overlap cannot break | - |
| | `GuestsCorrect` | `GuestsExplained` | `Exclusive` |
| `BillingProofs` | `TypeCorrect`, `MirrorInStep` | `TypeOK`, `InStep` | - |
| | `PayerFound` | `PayerOnFile` | `Exclusive` |
| `AccessProofs` | `TypeCorrect`, `GuardsCorrect`, `PlansCorrect` | `Types`, `GuardsHold`, `PlansDecide` | - |
| | `TenantsCorrect` | `TenantsStand` | - |
| `PeopleProofs` | `StaffTyped`, `InboxTyped` | `StaffTypes`, `InboxTypes` | - |
| | `CapsCorrect`, `RequestsCorrect` | `WithinCaps`, `RequestsDecide` of Workforce | - |
| | `RecordsCorrect` | `RecordsHold` | - |
| | `HiringCorrect`, `ChecklistsCorrect` | `HiringHolds`, `ChecklistsHold` | - |
| | `StaysInTurn` | `KeptInTurn` | - |
| | `MessagesCorrect`, `MailTellsTheTruth` | `ConversationsHold`, `StatusIsTrue` | - |
| `SchedulingProofs` | `TypeCorrect`, `GapsFilled` | `TypeOK`, `SuggestionsFillGaps` | - |
| | `ChecksHold` | `ShiftsFit` | `IsFiniteSet(Calls)` |

None of these properties is inductive, because a call carries what it read across an await. The
inductive invariant always says what a call at each await still knows to be so, and which rows
make it so:

* **Leave.** `Inductive`: the row in the hands of a call about to write was open and followed its
  chain. `Settling`, for the refinement: the one call at work on a ledger holds a request in
  the status it checked, a ledger row as it is, and the adjustment that status calls for; then the
  ledger without what is `InHand` is the sum of its requests. That sum is a function on
  the sets of requests (`AddsIn`), which exists for any finite set, and moves by a request's days
  when that request changes its status.
* **Attendance.** `PunchSafe`: a log in a call's hands is one that was inserted, and a flag about
  to be written has its anomaly. `TurnSafe`: the one call about an employee works on their only
  open log, or has seen that there is none; breaks hang on open logs; no log ends in the future
  but one that a batch closed; spans are `Apart` but for the log that a batch has opened and not
  yet marked. `OthersKept` carries all that across the steps of calls about others. `BatchSafe`,
  for `BatchApplies`: what is left of an orderly batch is orderly, its earliest punch `Fits` the
  logs and breaks of the employee (a clock-out, the one open log), and the punch at work will
  still fit when it writes. That a break must last whole minutes is why a batch that ends a break
  by clocking out is not orderly. `EmployeeKept`: the rows of an employee are left alone by calls
  about others, and only by them. `CorrectionsSafe`: who is about to say "approved" has written
  the log.
* **Device registration.** `Safe`: the unique index alone. `Serial`: what a call about a serialized
  employee has checked still allows its write. `Telling`: a status that no row of the trail tells is
  awaited from a call about to add it, or one that died.
  `KioskSafe`: a secret belongs to the call that made it, no secret is current and burned,
  and of the codes shown for a serialized store the current one alone is in time.
* **Documents.** `Safe`: what is trashed has an entry; as long as no deletion or restore died half
  way, only one, and the document is not live but for the call `Between` the two; the object goes
  only with its row. `DueSafe`, for the purge and the scan: what is due is on the list of the one
  job at work, since nothing else makes a row due meanwhile.
* **Transfers.** `MovesSafe`: a call that is about to complete a move has made it, unless HR has
  entered a store since, and an employee has one link to a store. `GuestsSafe`: in turn, a visit
  that is alone in using its link has it from the moment it is `Opening` until it is `Ending`, and
  in between its row is active and names it (`VisitsHold`; `GuestsHold` is what remains of that
  when a call has died); a sweep has on its list all that was due when it looked (`MoversHold`),
  which is why it leaves nothing.
* **Billing.** `Safe`: an event tells what was so at its version, and is still so when the version
  is the last, however events are repeated and reordered; the mirror says it when that is what it
  applied; `Guarded`: behind the guard no job is there to apply. `Serial`: the checkout under way
  has read the customer as it is.
* **Access.** `Safe`: whatever was read has been seen (`seen` only grows), and past each guard
  there is a row in `seen` that let the request through.
* **Accounts.** `AccountsSafe`: whoever has an identity has a company or a call `OnTheWay` to it;
  a slug that was found free stays free until the one handler at work inserts it; a group that is
  about to take a company is there, and one that is about to go has none (`GroupsKept`).
* **Workforce.** `StaffSafe`. The caps are counted as places are in Scheduling: employees together
  with the rows that handlers past the check have `Left` to insert, members together with the
  approvals that are `Seated` and not yet provisioned (`RoomLeft`). Only so is a cap inductive: a
  row that was let through would else come out of nowhere. An employee is asked a login for once
  (`OneEach`), so that what an approval links nobody relinks; a request about to be decided is
  still pending in turn (`RequestsInTurn`), and a generated code is nobody's (`CodesNew`).
* **Mail, Records, Recruiting, Onboarding, Messaging.** `MailSafe`: an e-mail is with its handler,
  then in one job, and taken once for each attempt; what was taken and is about to be recorded as
  failed was not heard of (`AnswerLost`). `TalkTimes`: messages come in the order of their
  milliseconds. `RecordsSafe`: each primary account is the work of a call of its own, so that
  there are at most as many as calls. `HiringSafe`, `ListsSafe`, `TalkSafe`: what was found free,
  missing or a member is so, where nothing overlaps; `DmBound` counts the direct messages of two
  people together with the handlers that are still to bring one.
* **Scheduling.** `Fitting`: the capacity in a handler's hands is one that the store has had. A
  shift that counts and a row in the hands of a handler past the lookup hold a place each
  (`Places`, `Adding`); counted together they do not exceed the limit by more than one for each
  further handler, because a handler that passes the lookup has seen all that are there.
  `TimesInOrder` and `HoursInLimit` are for handlers in turn; the hours of a week are added up
  shift by shift. Without the rows in flight a booking that was looked up and not yet written
  would come out of nowhere. `GapsFilled` needs `RunsFit`, which says of the suggestions made by
  the first hours of a range what the property says of all, and `MissingIsDeficit`, that the
  code's count of who starts in the range is the property's.

The induction theorems of the library take an operator as a parameter, which the provers cannot
instantiate. Where a proof needs induction it takes a least counterexample instead (`WFMin` over
the order of the numbers): `CountUp` for positions, and likewise for the size of a finite
set in `LeaveProofs`. A fold of the community modules is shown to be the function that takes the
positions in their order (`Folds`).

Only model-checked:

* liveness under fairness (`BooksSettleInTurn`, `TakenIsApplied`, `QueuedIsDecided`), for the
  prover has no rules for fairness and ENABLED in reach;
* the three violations, of which TLC shows the behaviours.

`BooksImplementLedger` of the run is `ImplementsLedger` in its scene; it is the latter that
`LeaveIsLedger` proves.

## Plan

What is left, in this order:

1. A composition of Terminals, DeviceRegistration and Attendance: the kiosk punch, in which a
   code is validated, the device gate passed, then the punch made.
2. The days of a leave request, and the folders of Documents.
3. An abstract specification of Transfers in which a guest link and its transfer appear
   and disappear together.

Each component has a run of what holds, whatever overlaps or in turn, and a
counterexample is kept where the repository promises more than the code does.

## Not modelled

Row-level security and tenancy (every module but Access and Accounts is about one company); guards
and scopes of roles inside the other modules (who may call; they let any call come); store-scoped
views of HR data; the visibility of modules; the rate limiter; usage counters, the customer portal
and reminders of Billing; the queue's inline mode outside Billing; validation of DTOs beyond the
values the actions enumerate; formatting, logging, audit rows; realtime pushes; reports, search,
AI, seeds, health and configuration. The other fields of stores, with creating and archiving one,
the resolution of anomalies, the progress of an onboarding task, a candidate's stage and notes,
and interviews are single writes that nothing modelled reads. The year-end roll-over is called by
nothing. Each component's reason is in `PROJECT.json`.
