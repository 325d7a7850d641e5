# Car rental: a verification project

TLA+ models of the car-rental platform (NestJS API, background worker, PostgreSQL through
Prisma, Stripe, the CaRGOS police adapter, the middleware of the invoice exchange, partner
endpoints, document storage), checked by TLC on small instances and proved by TLAPS for every
value of the constants. Line numbers are those of the sources; `PROJECT.json` maps every
definition to the lines it translates.

## How the system runs, and what is hard about it

The API is a set of stateless Node processes over one PostgreSQL database; the worker is a
separate process that polls the database and calls the API's cron endpoints. Four facts
about the code decide every model here:

1. **Every awaited query is a step.** No handler takes a row lock, Prisma's default isolation
   level is READ COMMITTED and most handlers run no transaction at all. A handler reads a row,
   checks it, awaits something (another query, Stripe, a mail) and then writes
   `update({ where: { id } })` with no condition on what it read. Between two awaits any other
   request may run. Where the code does run a transaction (`$transaction`), or a conditional
   `updateMany`, the model makes exactly that one step; a READ COMMITTED transaction whose
   second statement depends on what its first one saw stays two steps.
2. **Outside services answer late, twice or never.** Stripe delivers events at least once and
   in any order; an HTTP call may have been carried out although its answer was an error.
3. **Any process may die between two awaits**, leaving what it has written.
4. **Rows may be gone.** `update` of a deleted row throws (P2025); deletes cascade by the
   schema's `onDelete`.

## Inventory

| Component | State | Operations | Talks to | Correct when | Module |
|---|---|---|---|---|---|
| **Rental calendar** (`reservation/`, `fleet/availability`, `fleet/calendar-block`, `internal/service-due-block`) | `Reservation` slot and status, `CalendarBlock`, `Vehicle.status`, `PartnerReservationIdempotency` | desk create, PATCH, partner create / cancel, public quote, basket of quotes, draft delete, block create / update / delete, service-due cron, vehicle status | payments (writes the status), handover | no vehicle is promised twice; a retried partner request books once; checks hold when they are acted on | `BookingCalendar` |
| **Stripe payments** (`payments/`) | `paidAt`, session ids, deposit hold of `Reservation`, `ProcessedStripeEvent`, `StripeRefundLedger` | rental and deposit checkout, webhook, capture, release, refund | Stripe, calendar, mail | recorded as paid or captured only when the money is there; money that arrives is recorded; replays do nothing | `StripePayments` |
| **CaRGOS pipeline** (`integrations/cargos`, worker) | `CargosSubmission` (status, attempts), company adapter settings | enqueue, send now, worker poll, retry, recovery at start | HTTP adapter, reservation | one transmitter at a time; sent means accepted; every submission settles | `CargosPipeline` |
| **Partner webhooks** (`partner/partner-webhook.service.ts`) | `PartnerWebhookDelivery` queue, webhook fields of `PartnerApiKey` | enqueue, batch with stale reset, backoff, dead letter | partner endpoints, reservations | each event is delivered or dead-lettered, in at most the configured tries; the partner learns the newest status | `PartnerWebhooks` |
| **Invoices** (`invoice/`) | `Invoice` DRAFT / ISSUED / VOID, `InvoiceFiscalSequence` per company and year | draft, update, issue, credit note, void, delete | SDI | numbers have no gap and no duplicate; an issued invoice is never altered; credits stay within the invoice | `Invoices` |
| **SDI hand-off** (`integrations/sdi`) | `SdiInvoiceSubmission` | enqueue, middleware callback | middleware | one successful hand-off per invoice; what is on file is what happened | `SdiHandoff` |
| **Customers and documents** (`organization/customer`, `apps/worker`) | `Customer`, `CustomerDocument`, the objects in storage | upload (disk, bucket), OCR cron / callback / demo run, apply, dismiss, edit, anonymise, merge, delete, purge | object store, OCR | row and object stay together; redaction is final; a deadline is met | `CustomerDocuments` |
| **Agreements, handover, return, damage** (`rental-agreement/`, PATCH, `reservation-ops`) | `RentalAgreement`, status, override and odometer of `Reservation`, `Vehicle.odometerKm`, `DamageReport` | create, edit, sign, void, PATCH with gates and odometer sync, damage report | CaRGOS, customers' documents | a signed agreement is never altered; a car leaves only with what the company requires | `HandoverDesk` |
| **Partner access** (keys, OAuth, allow-list) | `PartnerApiKey` | create, rotate, revoke, token | webhooks | a revoked key opens nothing | – |
| **Staff and sign-in** (`organization/staff`, `auth/`) | `Staff` role, failed-login counter | create, update, deactivate, sign-in, refresh | – | a company keeps an administrator; lock-out counts failures | – |
| **Photos and attachments** | rows and objects | upload, delete | object store | as for documents | – |
| **Reminders** (`internal/rent-reminder`) | `rentPaymentReminderSentAt` | cron | mail | a reminder is sent once | – |
| **Pricing** (`pricing/`, `packages/shared`) | `Rate` | rate CRUD, day count, class rent | invoices, quotes | every day is charged once | – |
| **Fleet, company, station records** | `Vehicle`, `VehicleClass`, `Company`, `Station` | CRUD | everything | – | – |
| **Web client, mail, SMS, audit, metrics, reports, health, schemas, deployment** | none of their own that a rule depends on | – | API | – | – |

`PROJECT.json` lists the hazards, each at the line where it bites.

## The modules

| Module | Models | Proved in |
|---|---|---|
| `BookingCalendar` | calendar handlers, one awaited query per step | `BookingCalendarProofs` |
| `StripePayments` | the payments of one reservation, Stripe and its webhook | `StripePaymentsProofs` |
| `CargosPipeline` | enqueue, send now, worker queue, recovery | `CargosPipelineProofs` |
| `PartnerWebhooks` | enqueueing requests and overlapping batches of deliveries | `PartnerWebhooksProofs` |
| `Invoices` | documents, numbering, credit notes of one company | `InvoicesProofs` |
| `SdiHandoff` | hand-off requests, callbacks, the middleware | `SdiHandoffProofs` |
| `CustomerDocuments` | customers, documents, objects, OCR, retention | `CustomerDocumentsProofs` |
| `HandoverDesk` | agreement, hand-over, return, odometer, damage report | `HandoverDeskProofs` |
| `SubmissionQueue` | what a queue towards an outside service promises (abstract) | implemented by `CargosPipeline` and `PartnerWebhooks`: checked and proved |
| `FiscalRegister` | what a register of invoices promises (abstract) | implemented by `Invoices`: proved |
| `MC…` | the inputs, bounds and symmetries of the runs | – |

**How they meet.** Most components meet in the row of `Reservation`. Each module keeps the
columns its own handlers decide on, and has the other components' writes to them as actions:
the webhook's status write is `RequestPayment` in the calendar, a partner's cancel and a draft
delete are in the first three, the desk's PATCH of a status is `SetStatus` in payments and
CaRGOS. `HandoverDesk` sees CaRGOS as `ReportSent`, the company's settings as `ChangePolicy` and the
identity documents as `ChangePapers`; `SdiHandoff` sees an invoice voided or deleted (`Void`, `Delete`);
`PartnerWebhooks` sees every change that enqueues an event as `Change` or `ChangeInTransaction`, and
the writes that should and do not as `Overwrite`; `HandoverDesk` has the fleet desk's write of an odometer
(`SetOdometer`) and the merge or removal of a customer (`DropCustomer`). These actions are
unconditional where the other component may do the write at any time, so a module never
relies on another's order.

Conventions: `req` (or `proc`, `drain`, `event`, `hook`, `cron`, `purge`) holds the local
variables of whoever is in flight, `at` being the next awaited step; an `Ask…` action is the
reading and checking part of a request, the action named after the operation its write.
Variables marked *history* are read by no guard. Definitions whose comment starts with
"Mutant:" are plausible bugs, named in `PROJECT.json`; no specification uses them.

Many properties have the form "this holds, unless …". The code promises few things outright,
because it writes unconditionally; the *unless* is a history variable that collects exactly
the interleavings in which a promise is lost, so the property says that there are no others.
Where the documents or a comment promise the thing itself, without an *unless*, a theorem says
what the promise takes: it follows while requests come one at a time (`OneAtATime`, or the weaker
`OneWriter` and `WebhooksApart`). See "What it takes to keep the promises".

### `BookingCalendar`

`fleet`, `booking`, `block`, `idem` are the tables; `spent` keeps ids from being used twice
(they are uuids). A desk creation, for example, is `RequestBooking`, `CheckVehicle`,
`CheckBlocks`, `CheckBookings` and `InsertBooking`, one step per awaited query of
`assertVehicleFreeTx`; a partner's begins with `Lookup` of the Idempotency-Key and its insert
may end in `InsertDuplicate`, the P2002 path. A public quote lists vehicles, blocks and bookings
in three queries; a basket then checks each vehicle again, and `InsertBasket` inserts all rows at
once, as the transaction does. `RequestPatch` reads the row, `PatchBooking` writes the body's
fields over whatever the row is by then. The service-due cron and the delete of a block are each
one action. Instants are `0..Horizon`; prices, customers and stations are left out.

- `ClashesWereUnseen` – the code allows double bookings: nothing locks a vehicle between
  check and insert. What it does guarantee is said with the history variable `missed`: of
  two rows that clash, one was placed by a write whose checks ran before the other was there,
  or which made no check at all (status-only PATCH, payment, cron). A hole in
  the overlap test, a status that blocks in one query and not in another, or a check on other
  fields than those written breaks it. `SerialNoDoubleBooking` is the other half: without
  an overlap of two requests and without a status-only revival, nothing clashes.
- `OneBookingPerKey`, `KeyRowsPoint` – however retries, deletes and crashes interleave, the
  live booking a partner was answered with is the one its key records, and a key never
  points to nothing.

### `StripePayments`

`row` has the payment columns of one reservation – rows never interact, so one is enough –
`processed` and `ledger` are tables; `stripe`, `sent`, `refunded` are Stripe's own; `hook` is the
set of webhook transactions in flight, `req` the other handlers.

A webhook is one transaction in two steps, `WebhookBegin` (the insert of the event id, which
makes a second delivery wait and then fail, and the read) and `WebhookCommit`;
`WebhookRollback` loses both. A desk handler reads, calls Stripe and writes in separate
steps; a call may fail after Stripe has carried it out. Events stay in `sent`, so they may be
delivered again at any time and in any order. Customers pay at once or by a method that
settles later; deposits are authorised and may lapse.

- `PaidIsReal`, `CapturedIsReal` – the books never say more than Stripe has.
- `RecordedIsApplied` – an event whose replays are dropped has been applied.
- `ReplayNeverReopens` – a hold that was captured or released is not reopened by a replay.
- `PaymentReachesBooking`, `HoldReachesBooking` – and the books do not say less for ever.
- `RowTells` – the session of a paid row was paid, the hold of a captured or released row is the
  one on the row. The code does not keep this: a link stored after a webhook replaces the paid
  session. It is proved for behaviours in which no webhook is between its two steps while a
  rental link is made or a hold is settled (`SerialBooks`).

### `CargosPipeline` and `SubmissionQueue`

`row` is the table, ids being given in the order of `createdAt`; `stale` stands for time:
the PROCESSING rows whose `updatedAt` is older than the threshold. `company` is the adapter
setting (`NOURL`: HTTP without an address; `OFF`: off, or out of scope). The API's
`transmitPendingSubmission` and the worker's `processOne` take the same steps (`Claim`,
`ReadCompany`, `Send`, `Write`), so one set of actions, over both kinds of process, models both;
`Poll` and `Fetch` are how each gets its row. `accepted` and `tries` record what happened outside.
`Write` is unconditional, as in the code, and counts from the `attemptCount` read before the
claim. `Restart` is `main`: `resetStaleProcessing` once, before the loop. A write to a deleted row
throws: that ends the request, or the worker (`void main()`), which `WriteNothing` models.

- `SentIsAccepted`, `NoEarlyFailure` – hold even when rows are reset under slow
  transmitters (`Prompt = FALSE`).
- `QueueSpec` – refinement of `SubmissionQueue`: what is settled stays settled, and only what is
  taken is delivered. It needs `Prompt`: no transmission outlasts the threshold of the recovery.
  The configuration says so rather than the code: `CARGOS_HTTP_TIMEOUT_MS` is 30 s by default and the
  threshold 15 min, never below 60 s; but the timeout covers only the wait for the headers, and
  nothing stops an operator from raising it above the threshold. Without `Prompt` a
  settled row can go back to PENDING.
- `EverySubmissionSettles` – liveness, while no process dies.

### `PartnerWebhooks`

`row` is the delivery queue; `status` counts the committed changes of each reservation, so that a
newer status is a larger number; `stale` is time, as above. Most requests store the change
(`Change`) and then enqueue in three more steps (`ReadKey`, `ReadStatus`, `Insert`), any of which
drops the event with a logged error (`untold`). A PATCH with extra lines starts the same three steps
from inside its transaction (`ChangeInTransaction`, `reservation.service.ts:1542`): they read through
another connection, so they may run before the commit, and the transaction may still roll back
(`EndTransaction`, where a rollback leaves the status that was there as the newest one). `open` are the
rows such a transaction has locked. A PATCH that had read the row before another change can put the old
status back without an event, because it compares with what it read (`Overwrite`, 1567). A batch is `Begin` (stale
rows back to PENDING), `Find`, `Claim` (the conditional `updateMany`), `ReadDelivery`, `Post`,
`Write`, and again; `WriteFails` is the catch that counts a stored success's database error as a
failed try. The batch size is left open: a batch may end after any row. `Age` excludes rows a live
batch holds: a post is cut off after 12 s (`WEBHOOK_TIMEOUT_MS`) and the threshold is at least 60 s.

- `SucceededIsAccepted`, `CallsBounded`, `DeadIsEarned` – outcomes and counters agree with the
  calls made, though batches overlap, die, and write unconditionally.
- `QueueSpec` – the deliveries implement `SubmissionQueue`, here without an assumption.
- `EveryDeliverySettles` – even if batches die: each batch resets what dead ones left, which
  the CaRGOS worker does only at its start.
- `PartnerLearns` – a partner hears of a change, or of a newer status, unless the event was
  dropped or never enqueued (`untold`), was built while the transaction of its change was open (`early`),
  the delivery is dead or the reservation is deleted. In every other case the body tells the change or
  what came after it.

Left out is one more thing the desk can do: a PATCH that leaves the status alone, but sees on its
updated row a status that another request has just written, tells it a second time.

### `Invoices`

`doc` and `sequence` are the tables. Issuing is one serialisable transaction: `BeginIssue` takes
the snapshot and checks, `CommitIssue` writes unless `conflict` says that PostgreSQL must refuse.
`Clash` is what serialisability decides for two transactions that issue at once: same year (the
sequence row), same document, or notes of the same invoice, which each adds up; a write from
outside to the document spoils the transaction (`Spoil`). `AbortIssue` is always possible. Update,
void and delete check in one statement and write by id in another; the year is read before the
transaction begins. Amounts are integers of cents, VAT is rounded half up (`Gross`).

- `NumbersGapless`, `RegisterComplete` – one number per document and the reverse, no gap in a
  year; every number leads to a document, unless a deletion that had read a draft took it.
- `CreditsWithinTotal` – notes issued at the same time never exceed their invoice.
- `NotesReferToIssued`, `AmountsAgree`, `IssuedIsFinal` – what is issued changes only by an edit or
  a deletion that had read it as a draft; totals disagree only where two edits overlapped.
- `FiscalRegister` is the promise without the handlers: a document is entered under the next
  number of its year, a note within what is left of its invoice, and an entry is only ever
  voided. `Shown` maps the tables to it. The handlers implement it while no edit and no deletion
  reaches an issued document (`late`), which in turn takes two overlapping requests.

### `SdiHandoff`

`row` is the table, `mw` what the middleware has done with each submission. A request is `Ask`
(invoice and company), `Look` (one under way is a conflict), `Create`, `Start`, `Post`, `Write`; the
last is unconditional, but that a 202 leaves the status alone. `Post` may lose the reply. A
callback reads and writes in a READ COMMITTED transaction, hence in two steps; `ReportAgain`
repeats it. Nothing but `Look` keeps two requests for one invoice apart.

- `SentIsSent`, `FailedIsTold` – what is on file happened, but for a lost reply.
- `SentTwiceIsExplained` – an invoice sent twice: the second request looked before the first row
  was under way, or the first reply had been lost.
- `HandoffSettles` – a submission settles even if its request dies, if the middleware will call
  back; `lost` has the others, which stay PROCESSING and block the invoice.

### `CustomerDocuments`

`doc` and `customer` are the tables, `blob` the objects in storage, `url` the presigned addresses
that are still good. A local upload writes the file first and then the row, a presigned one the
row first; `Head` asks the bucket before `Complete`. Both end in `Queue` and `Pend`
(`maybeQueuePendingOcr`). Removal is `AskRemove`, `Shred`, `Drop`; the purge does the same for a
batch. The OCR cron reads all waiting rows at once (`CronFinds`) and writes them one after the
other (`NextRow`); an audit record follows each result inside the same `try` (`CronAudits`), and if
that fails the catch writes FAILED and no suggestion over the result, or over what was applied
meanwhile (`AuditFails`, `customer-document.service.ts:585`, 669-681). A demo run and the callback of the
vendor write the same columns. `Apply` is one
transaction, on what `AskApply` read. A merge is one READ COMMITTED transaction in two steps:
`Move` updates the documents that are there, `Merge` deletes the customer and, by the cascade,
what was added meanwhile; `Locked` are the row locks it holds. A suggestion is a number, a name
is "personal" or "redacted".

- `ListedIsStored`, `StoredIsListed` – a listed document can be downloaded; no identity document
  stays in storage that no row leads to. The exceptions are the history variables `broken` and
  `orphaned`, which collect a deletion or an upload that died or failed half-way, a deleted or
  merged customer, and an object put by a presigned address after its row had gone.
- `AppliedIsShown` – an applied document shows the suggestion that went into the customer, unless
  somebody who had read it before the apply was still to write, the cron until its audit is written.
- `RedactionHolds` – the name of an anonymised customer comes back only by an apply or by an edit
  that had read the customer before (`rewritten`).
- `OcrSettles`, `ExpiredAreDeleted` – liveness of OCR and of retention.

### `HandoverDesk`

`res` has the columns a PATCH decides on, `agreement` and `report` are tables, `odometer` is each
vehicle's; `sent`, `required` and `papers` belong to other components and change at any time.
`CreateReservation` stores the status its body asks for, IN_PROGRESS among them, and asks no gate.
Agreement writes are in two steps, a PATCH that hands over in three: the row with all it includes
(`AskPatch`), the count of the documents (`Count`), the write. A body (`Body`) has a status, a customer, a
vehicle, a reading and an override, each of which may be left out (`Absent`) and two of which may be null;
`Patches` are the bodies considered. The gate counts the documents of the customer that was read, and the
write stores the one the body names. `Demands` is the environment: `HANDOVER_REQUIRE_SIGNED_AGREEMENT` and
`HANDOVER_REQUIRE_CARGOS` (on by default), `HANDOVER_REQUIRE_ID_DOCUMENTS` and the odometer of a return
(off by default). With `HANDOVER_REQUIRE_VERIFIED_ID_DOCUMENTS` only verified documents count: `papers`, the
customers with the documents asked for, stands for either setting. The properties are relative to `Demands`, and the proofs hold for every setting.

Every PATCH of a reservation that is COMPLETED with a reading then, also one that only changes another
field, writes the reading to the vehicle: in the same transaction if it touches extra lines, otherwise by
a second statement (`Sync`), which may fail. So the last rental written is the one the vehicle shows,
not the last one driven. `returned` is that rental; the fleet desk's own write (`SetOdometer`) resets it.
`putDamage` deletes the lines it sees and creates its own, in one READ COMMITTED transaction (`Replace`,
`Commit`).

- `SignedIsFrozen` – signed text and status change only by an edit or a void that had read DRAFT.
- `HandedOverSigned` – where the agreement is demanded, nobody drives off without one that was signed,
  whatever overlaps, but for a reservation created as IN_PROGRESS (`ungated`).
- `HandoverIsReady` – all that is demanded holds at the write, unless the PATCH names another customer
  than the one whose documents were counted, or something was taken away in between (`disturbed`).
- `OdometerFollows` – a vehicle shows the reading of the rental it was last to take one from, while that
  rental stands (`Stands`: still COMPLETED, with a reading, and this vehicle's), unless two readings
  overlapped or one died between its writes (`torn`).
- `LinesAreOnePut` – the lines of a report are those of one put, unless two overlapped (`mixed`).

## Runs

| Run | Shows | Instance |
|---|---|---|
| `calendar_desk` | `ClashesWereUnseen` | one vehicle, two overlapping windows, two requests at once, create / PATCH / pay / delete / block / cron |
| `calendar_online` | `OneBookingPerKey`, `KeyRowsPoint` | two vehicles of two classes, one key with two bodies, partner create / cancel, quotes, baskets, deletes, fleet changes |
| `payments` | safety of the books, `ReplayNeverReopens` | two sessions of either kind, two requests at once, every operation |
| `payments_live` | `PaymentReachesBooking`, `HoldReachesBooking` | three sessions: two rentals and a deposit, or two deposits and a rental; one request at a time |
| `cargos` | `SentIsAccepted`, `NoEarlyFailure` | one worker, two API requests, two rows, slow transmitters |
| `cargos_live` | `QueueSpec`, `EverySubmissionSettles` | one worker, one API request at a time, two rows of two reservations, prompt |
| `webhooks` | all six properties | two batches, one enqueueing request, two rows, two changes, the first of which may be inside a transaction, two tries, one death |
| `invoices` | all six properties | three documents, two requests at once, six in all, two years, two rates |
| `sdi` | all four properties | two requests, one callback, two submissions of one invoice, one death |
| `documents` | all six properties | one document, two customers, two requests beside cron and purge, both storages, three requests in all, one fault |
| `handover` | all five properties | one reservation, two customers, two vehicles, every demand on, two requests at once, three in all (the creations are not counted) |
| `double_booking_by_revival` | expected violation, see below | one request at a time |

Bounds, and why they are enough:

- `TwoRows` (at most two rows ever, bookings and blocks together): a clash is between two
  rows, and each property compares two. The other requests are what can interfere, and two
  at once are the code's races: each check is invalidated by one write. `calendar_online` keeps
  three booking ids because a basket takes two beside a first one; `TwoRows` cuts off what follows.
- `CarStays`: of the two vehicles only one leaves the fleet.
- `TwoSessions`: a session and the one that replaces it are all a handler tells apart. `ThreeSessions`
  adds the other kind beside them; it cuts off only the making of a session, which is no step that
  fairness asks for, so no behaviour with fewer sessions is lost. It also has sessions of one kind made
  in order, as they are interchangeable.
- `MaxInside` = 1: the first change of a reservation may be made inside a transaction, the second
  not. `MaxKm` = 1: two readings, and null.
- `MaxCrashes`, `MaxFaults` = 1: one failure, at every point. `MaxSubs`, `MaxRows` = 2: two rows in a
  queue, of which one may be settled while the other is taken. `MaxAttempts` = 2: a first try that
  is repeated and a last one.
- `MaxDocs` = 3: an invoice and two notes against it. `MaxYear` = 2: one change of year, at any
  moment. `MaxCalls`: three requests for documents (an upload, what reads it, what interferes),
  three at the desk beside the creations (sign, hand over and what interferes), six for invoices (create and issue an
  invoice – or begin with an issued one – and two notes).
- Instants: two windows that overlap in part, and an early return that makes them touch.
- The proofs cover all larger instances of the safety properties and the refinements.
- Symmetry: requests (bookings, blocks, sessions of one kind) are interchangeable
  because no action names or orders one. It is used in runs without liveness only.
- Deadlock is not an error of `payments`, `payments_live`, `invoices`, `sdi`, `documents` and
  `handover`: once the bounded requests are used up and outside services have nothing left to
  report, nothing need happen. In the others a batch, a worker or a caller can always act.

Fairness:

- `payments_live`: weak fairness of `WebhookBegin` and `WebhookCommit` for each event. Stripe
  repeats a delivery until it is answered, a database transaction ends, and rollbacks
  are finite. Nothing is assumed of customers or of the desk.
- `cargos_live`: weak fairness of the worker's step (its loop runs), of its restart (the
  container is restarted) and of the steps of a request (an `await` returns). Nothing is assumed of
  crashes, callers or time.
- `webhooks`: weak fairness of the steps of a batch (the worker calls the cron endpoint every
  interval, and a batch goes on; `WORKER_PARTNER_WEBHOOK_INTERVAL_MS` must be set, as its default 0
  turns the call off), of a request once it is in flight, and of time (`BackoffEnds`, `Age`).
  Weak is enough: a batch's step, once possible, stays so until it is taken.
- `sdi`: weak fairness of requests, of callbacks in flight and of the middleware's decision, which
  its 202 promises; strong fairness of `Report`: it repeats a callback until it is answered, however
  often the single callback at a time of the instance is busy with something else.
- `documents`: weak fairness of requests in flight, of the cron and of the purge, which the worker's
  loops call. Nothing is assumed of clients, uploads or staff.
- `invoices` and `handover` state safety only; a request that is not made owes nobody anything.

## Where code and documents disagree

`double_booking_by_revival` is a run that TLC ends with a counterexample: a PATCH of the status
alone brings a cancelled booking back over another, without a check, while `ARCHITECTURE.md:96`
says that the timeline must be free.

The models have more behaviours a reader may not expect. No run states their opposite; the
properties name them as their exceptions, or they are listed under the hazards:

- a draft delete removes a reservation paid since its status was read, and a partner's cancel is
  written over a status that has moved on (`BookingCalendar`);
- a partner's retry is refused because of its own first attempt (`BookingCalendar`);
- a pay link stores its session over the paid one, so a refund looks at a session nobody paid,
  and a deposit link writes PENDING over a captured deposit (`StripePayments`);
- a row claimed by an API process that died stays PROCESSING for as long as the worker runs, and
  `enqueue` keeps answering with it; two `enqueue`s at once put two rows in flight
  (`CargosPipeline`; `docs/PRODUCTION-READINESS.md:84` says "no duplicate");
- the event of a PATCH with extra lines is built before its commit and can tell the status before the
  change, or a change that is rolled back (`PartnerLearns`, `early`); a PATCH that puts an older status
  back sends no event (`untold`);
- a reservation can be created as IN_PROGRESS and has passed no gate (`HandedOverSigned`, `ungated`), and
  a PATCH that hands over can name another customer, whose documents nobody counts (`HandoverIsReady`),
  while `docs/PRODUCTION-READINESS.md:83` says that the API blocks IN_PROGRESS until the gates pass and
  `docs/PRODUCTION.md:276` that the linked customer has a document;
- any PATCH of an older COMPLETED reservation sets its vehicle's odometer back to that reading; a reading
  that is cleared, or moved to another vehicle, stays on the vehicle (`OdometerFollows`, `Stands`);
- an edit or a void that had read a draft is written over the signed agreement, whose body
  `schema.prisma:697` calls frozen after SIGNED (`SignedIsFrozen`, `overtaken`);
- an edit or a deletion that had read a draft is written over an issued invoice
  (`IssuedIsFinal`, `RegisterComplete`, `late`);
- an invoice is handed off twice after a lost reply (`SentTwiceIsExplained`);
- a customer's delete orphans the objects of the documents, as `docs/PRODUCTION.md:319` warns; so do
  a merge that an upload overlaps and a PUT to a presigned address whose row has gone
  (`StoredIsListed`, `orphaned`);
- an applied OCR suggestion writes the name back into an anonymised customer (`RedactionHolds`);
- a failed audit record turns a READY result into FAILED, also one applied meanwhile (`AuditFails`).

## Proofs

The inductive invariants are found by the same argument. The properties that matter are
not inductive, because a handler writes what it concluded from reads that may be old. The
inductive invariant therefore says what *each handler in flight* knows that is still true, or
which history variable has noted that it no longer is:

- `CalendarInv` (`ChecksHold`): the slot a request has checked is clear of every row but those
  in `late`, which were placed since. Each placing adds its row to `late` of every request in its
  checks (`Notice`, `FinishPlacing`), and `Place` moves `late` into `missed` when the row is
  written: that carries `ClashesWereUnseen`. `SpentOnce` (ids are never given out twice)
  carries `OneBookingPerKey`.
- `PaymentsInv`: what Stripe reported has happened (`EventsSound`), what a request made
  Stripe do is done (`Sound`), a row that was paid or gone when a webhook read it still is
  (`ReadsSound`) – the last is what makes the webhook's write from an old read harmless – two
  requests never hold the same session (`SessionsApart`), and a deposit is reported by one event,
  which is recorded once it is on the row (`HoldsReported`): that carries `ReplayNeverReopens`.
- `CargosInv`: what a transmitter has read and will write is earned (`Earned`), only PROCESSING
  rows age (`QueueSound`), and, if `Prompt`, a claim is exclusive and its row is never reset
  (`ClaimsHold`).
- `WebhooksInv`: the same `ClaimsHold`, here without an assumption, since only dead batches' rows age; and
  `Counted`: a row's `attempts` lags the calls by those whose outcome was not stored, the one of
  this moment and the one that succeeded, which carries `CallsBounded`.
- `InvoicesInv`: a transaction that can still commit sees its document as a draft
  (`SnapshotHolds`), and a note under way is for a document that was issued (`Shaped`).
- `CreditsInv`: the notes issued against an invoice, and of those about to be issued the one that
  can still commit, fit into its total (`RoomHolds`). Two notes in flight would each fit and not both;
  that the first commit makes the second conflict (`Clash`) is what keeps the sum. It is relative to
  `InvoicesInv`. The proof needs the sum over a set (`MapThenSumSet`, a fold) to grow by one
  element at a time; as the library's induction over sets is out of reach here, `InvoicesProofs`
  proves the facts about sums from a smallest set that would refute them.
- `SdiInv`: each request works on a row of its own (`Apart`) and will write what the middleware said
  (`Sound`); what a look found can no longer be sent unless its reply was lost (`AllQuiet`), which
  carries `SentTwiceIsExplained`.
- `DocumentsInv`: an upload about to insert has its file to itself (`InsertsAlone`), a document about
  to be completed has its object or is being deleted (`Kept`), and whoever may still write to an
  applied document had read it before (`RacesSeen`).
- `HandoverInv`: a PATCH that hands over has a signed agreement behind it and what it checked, of the
  customer it read, still holds, or it is in `disturbed` (`Checked`); until readings of a vehicle overlap
  one PATCH at most is about to sync it, with the reading its rental has (`OdometerInv`), and until puts
  overlap one at most is to commit (`LinesInv`).

`Init => Inv` and `Inv /\ [Next]_vars => Inv'` are proved action by action, with one lemma for
each action (or group of alike actions) and shared lemmas for what actions have in common
(placing a row, carrying a claim through a step, a request that moves on). Each invariant
includes the type invariant of its module, so type correctness is proved with it. The theorems:

| Theorem | States |
|---|---|
| `TypeCorrect`, `CalendarInvariant` | `Spec => []TypeOK`, `Spec => []CalendarInv` |
| `ClashSafety`, `KeySafety`, `KeyRowsLead` | `ClashesWereUnseen`, `OneBookingPerKey`, `KeyRowsPoint` |
| `SerialNoDoubleBooking` | `Spec /\ []OneAtATime /\ NoRevivals => []NoDoubleBooking` |
| `PaymentsInvariant`; `BooksAreReal`, `CapturesAreReal`, `RecordsAreApplied` | `PaymentsInv`; `PaidIsReal`, `CapturedIsReal`, `RecordedIsApplied` |
| `ReplaysChangeNothing` | `ReplayNeverReopens`, an action property |
| `SerialBooks` | `Spec /\ []WebhooksApart => []RowTells` |
| `CargosInvariant`; `OutcomesAreEarned`, `FailuresAreEarned` | `CargosInv`; `SentIsAccepted`, `NoEarlyFailure` |
| `Refinement` (CaRGOS) | `Prompt => (Spec => QueueSpec)`: every step of the pipeline is a step of the abstract queue or leaves it unchanged |
| `WebhooksInvariant`; `SuccessIsAccepted`, `CallsAreBounded`, `DeadAreEarned` | `WebhooksInv`; `SucceededIsAccepted`, `CallsBounded`, `DeadIsEarned` |
| `Refinement` (webhooks) | `Spec => QueueSpec` |
| `InvoicesInvariant`; `NumbersAreGapless`, `RegisterIsComplete`, `NotesReferWell`, `TotalsAgree`, `IssuedStaysIssued` | `InvoicesInv`; `NumbersGapless`, `RegisterComplete`, `NotesReferToIssued`, `AmountsAgree`, `IssuedIsFinal` |
| `CreditsInvariant`; `CreditsStayWithin` | `CreditsInv`; `CreditsWithinTotal` |
| `StepsKeepRegister`, `RegisterRefinement` | every step is one of `FiscalRegister` or leaves it unchanged until `late` is filled; `Spec /\ [](late = {}) => Register!Spec` |
| `OverlapNeeded`, `SerialRegister` | `Spec /\ []OneAtATime => [](late = {} /\ crossed = {})`, and hence `=> Register!Spec` |
| `SdiInvariant`; `SentSubmissionsAreSent`, `FailuresAreTold`, `DuplicatesAreExplained` | `SdiInv`; `SentIsSent`, `FailedIsTold`, `SentTwiceIsExplained` |
| `SerialSentOnce` | `Spec /\ []OneAtATime => []SentTwiceIsLost` |
| `DocumentsInvariant`; `AppliedAreShown`, `ListedAreStored`, `StoredAreListed`, `RedactionsHold` | `DocumentsInv`; `AppliedIsShown`, `ListedIsStored`, `StoredIsListed`, `RedactionHolds` |
| `SerialApply` | `Spec /\ []OneWriter => []AppliedShows` |
| `HandoverInvariant`; `SignaturesHold`, `NobodyLeavesUnsigned`, `ReadingsArrive`, `ReportsAreWhole`, `HandoversAreReady` | `HandoverInv`; `SignedIsFrozen`, `HandedOverSigned`, `OdometerFollows`, `LinesAreOnePut`, `HandoverIsReady` |
| `SerialDesk` | `Spec /\ []OneAtATime => [](SignedStays /\ LinesStayWhole)` |
| `SerialOdometer` | `Spec /\ []OneAtATime /\ SyncUndisturbed => []OdometerShows` |

They hold for any numbers of vehicles, bookings, requests, keys, sessions, workers, batches,
documents, customers and rows. They rest on the `ASSUME`s of the modules (kinds of ids are
disjoint, the configured inputs are well-formed, null is not a row), which TLC evaluates in every run.

### What it takes to keep the promises

The code promises some things outright, in a document, a comment or a message to the user, and
its handlers do not keep them when they overlap. The theorems `Serial…` say that this is all
that is missing:

| Promise | Kept, if | Otherwise lost by |
|---|---|---|
| a vehicle's timeline is free (`NoDoubleBooking`, `ARCHITECTURE.md:96`) | one request at a time, no revival by status alone | two requests that both found the slot free; a status-only PATCH of a cancelled booking, which run `double_booking_by_revival` shows |
| issued invoices form a register without gaps and changes (`Register!Spec`) | no edit and no deletion reaches an issued document; one request at a time is enough | an edit or a deletion that had read a draft |
| an invoice is sent once (`SentTwiceIsLost`) | one request at a time, and then only up to a lost reply | two hand-offs that both looked before either row was there |
| a signed agreement stays as signed, a damage report as it was put (`SignedStays`, `LinesStayWhole`) | one request at a time | an edit or a void that had read DRAFT; two puts in transactions that do not see each other's lines |
| the vehicle shows the reading of the rental it last took one from, while that stands (`OdometerShows`) | one request at a time; no failure and no write of the fleet desk between the two writes | the rental is stored and the vehicle is not; two PATCHes sync in the other order |
| the applied suggestion is the one shown (`AppliedShows`) | one writer of a suggestion at a time | an OCR result, or the FAILED of its audit, that arrives around the apply |
| what the row calls paid, captured or released is so at Stripe (`RowTells`) | no webhook between its two steps while a link is made or a hold settled | a link stored over the session that was just paid |

Each rests on an invariant `SerialInv`, relative to the module's own: while nobody else writes, what
a request has read is what is there. The hypotheses are about behaviours and not about the code,
which does nothing to bring them about; they hold in every behaviour of a lightly used system in
which requests do not meet. They restrict nobody else: processes still die, calls still fail (but for the statement `SyncUndisturbed` names), and
the cron of the calendar, the callbacks of the hand-off and Stripe, as far as its webhook is not the
one that must stay apart, still come at any time. (`OneWriter` also counts the OCR cron and
callbacks, because they are the writers it is about.) On small instances TLC finds each `SerialInv` to
hold under its hypothesis and the promises to fail without it. The runs check the specification as it is, so none
of them assumes such a hypothesis.

### What is only model-checked

Liveness under fairness, which is out of the prover's reach: `PaymentReachesBooking`,
`HoldReachesBooking`, `EverySubmissionSettles`, `EveryDeliverySettles`, `PartnerLearns`,
`HandoffSettles`, `OcrSettles`, `ExpiredAreDeleted`. Every safety property and every refinement
that a run checks is also proved. `FiscalRegister` is proved only: its entries range over all
amounts, which TLC cannot enumerate.

## Not modelled

Marked in `PROJECT.json` with the reason:

- **Partner access, staff and sign-in**: access control of single requests. What they keep over
  time is a revocation, which is `SetKey` of `PartnerWebhooks`, and two counts – administrators and
  failed sign-ins – that the code reads and writes in two statements and promises nothing about;
  they are listed as hazards.
- **Photos and attachments**: the same two-step uploads and removals as identity documents.
- **Reminders**: mail and mark in one loop; a death between them mails twice.
- **Pricing**: day counts and sums without a state, covered by the tests beside them; the amounts
  that a rule depends on are in `Invoices`.
- **Fleet, company and station records**: plain CRUD; what others decide on is an action there.
- **Web client, mail, SMS, audit, metrics, reports, health, throttling, schemas, deployment**: they
  show, send or configure what the others decide.

`CustomerDocuments` and `HandoverDesk` are *partly*: the first leaves out the verification flag,
the copies of the customer's name in reservations, downloads and the creation of customers; the
second attachments, photos, checklists, fuel, the deletion of drafts and the fields of PATCH that are in `BookingCalendar`. A
transaction that fails at its commit is, but for invoices and Stripe's webhook, not told apart
from a process that dies before it.
