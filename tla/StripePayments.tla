---------------------------- MODULE StripePayments ----------------------------
(***************************************************************************)
(* The payments of one reservation: rental Checkout sessions, the deposit  *)
(* hold, refunds and the Stripe webhook.  Stripe keeps its own state and   *)
(* reports it by events, delivered at least once and in any order; the     *)
(* desk's handlers read the row, call Stripe and write the row back in     *)
(* separate steps.  Rows never interact, so one is enough.                 *)
(***************************************************************************)
EXTENDS Naturals

CONSTANTS
  Rentals,         \* ids of rental Checkout sessions
  Deposits,        \* ids of deposit Checkout sessions, and of their PaymentIntents
  Requests,        \* the desk, public and partner requests in flight at the same time
  Ops,             \* the operations clients call
  Source,          \* Reservation.source
  FirstStatuses,   \* the statuses the reservation may start with
  DeskStatuses,    \* the statuses the desk sets
  MaxCrashes,      \* bound: webhook transactions that roll back
  None             \* null, undefined

Unpaid == {"QUOTE", "PENDING_PAYMENT"}
Cancellable == Unpaid \cup {"CONFIRMED"}
Statuses == Cancellable \cup {"IN_PROGRESS", "COMPLETED", "NO_SHOW", "CANCELLED"}
Sources == {"STAFF", "PUBLIC_WEB", "PARTNER"}
OnBook == {"UNCAPTURED", "CAPTURED"}
HoldStatuses == OnBook \cup {"NONE", "PENDING", "CANCELED", "FAILED"}
Settling == {"capture", "release"}
Refunding == {"refundRental", "refundDeposit"}
AllOps == {"checkout", "publicCheckout", "deposit", "cancel", "delete", "patch"} \cup Settling \cup Refunding

ASSUME PaymentsAssumption ==
  /\ Rentals \cap Deposits = {}
  /\ Ops \subseteq AllOps
  /\ Source \in Sources
  /\ FirstStatuses \subseteq Statuses /\ DeskStatuses \subseteq Statuses
  /\ MaxCrashes \in Nat
  /\ None \notin Rentals /\ None \notin Deposits

VARIABLES
  row,         \* the Reservation row, or None once it is deleted
  stripe,      \* Stripe: the state of each session and of its PaymentIntent
  sent,        \* Stripe: the events it delivers, and may deliver again
  processed,   \* ProcessedStripeEvent
  hook,        \* webhook transactions in flight: the event and the row each has read
  req,         \* the other requests in flight
  refunded,    \* Stripe: the payments with a refund
  ledger,      \* StripeRefundLedger: the payments it lists a refund of
  crashes      \* webhook transactions rolled back so far

vars == <<row, stripe, sent, processed, hook, req, refunded, ledger, crashes>>
external == <<stripe, sent, refunded>>

Sessions == Rentals \cup Deposits
Row == [status : Statuses, paid : BOOLEAN, session : Rentals \cup {None},
        hold : HoldStatuses, holdSession : Deposits \cup {None}, pi : Deposits \cup {None}]
Events == [session : Sessions, type : {"completed", "succeeded"}, payment : {"paid", "unpaid"}]
SessionStates == {"none", "created", "open", "expired", "processing", "failed", "paid",
                  "held", "captured", "canceled"}
Idle == [op |-> "none", at |-> "idle", row |-> None, session |-> None]
Request == [op : AllOps \cup {"none"}, row : Row \cup {None}, session : Sessions \cup {None},
            at : {"idle", "create", "store", "retrieve", "call", "done", "failed", "refund", "ledger", "write"}]

Init ==
  /\ row \in [status : FirstStatuses, paid : {FALSE}, session : {None},
              hold : {"NONE"}, holdSession : {None}, pi : {None}]
  /\ stripe = [s \in Sessions |-> "none"]
  /\ sent = {} /\ processed = {} /\ hook = {} /\ refunded = {} /\ ledger = {}
  /\ req = [p \in Requests |-> Idle]
  /\ crashes = 0

(***************************************************************************)
(* The customer at Stripe's hosted page, and the bank behind it.           *)
(***************************************************************************)

Emit(s, type, payment) == sent' = sent \cup {[session |-> s, type |-> type, payment |-> payment]}

Becomes(s, from, to) ==
  /\ stripe[s] = from
  /\ stripe' = [stripe EXCEPT ![s] = to]
  /\ UNCHANGED <<row, processed, hook, req, refunded, ledger, crashes>>

\* The customer pays: at once, or by a method that settles (or fails) later.
CustomerPays(s) ==
  \/ Becomes(s, "open", "paid") /\ Emit(s, "completed", "paid")
  \/ Becomes(s, "open", "processing") /\ Emit(s, "completed", "unpaid")
  \/ Becomes(s, "processing", "paid") /\ Emit(s, "succeeded", "paid")
  \/ Becomes(s, "processing", "failed") /\ UNCHANGED sent

\* The customer authorises a deposit, which lapses when nobody captures it.
CustomerAuthorises(d) ==
  \/ Becomes(d, "open", "held") /\ Emit(d, "completed", "unpaid")
  \/ Becomes(d, "held", "canceled") /\ UNCHANGED sent

SessionExpires(s) == Becomes(s, "open", "expired") /\ UNCHANGED sent

(***************************************************************************)
(* handleStripeWebhook: one transaction that inserts the event's id, reads *)
(* the row and writes it.  A second insert of the same id waits for the    *)
(* first and then fails, so an event has one transaction in flight.        *)
(***************************************************************************)

\* Mutant: payment_status is not looked at.
AppliesAlways(e) == TRUE

Applies(e) == e.session \in Deposits \/ e.type = "succeeded" \/ e.payment = "paid"

\* Mutant: the id is recorded on its own, before the transaction.
WebhookRecordsFirst(e) ==
  /\ e \in sent /\ Applies(e) /\ e \notin processed
  /\ \A h \in hook : h.event # e
  /\ hook' = hook \cup {[event |-> e, row |-> row]}
  /\ processed' = processed \cup {e}
  /\ UNCHANGED <<row, external, req, ledger, crashes>>

\* Mutant: replays are not told apart.
WebhookForgets(e) ==
  /\ e \in sent /\ Applies(e)
  /\ \A h \in hook : h.event # e
  /\ hook' = hook \cup {[event |-> e, row |-> row]}
  /\ UNCHANGED <<row, external, processed, req, ledger, crashes>>

WebhookBegin(e) ==
  /\ e \in sent /\ Applies(e) /\ e \notin processed
  /\ \A h \in hook : h.event # e
  /\ hook' = hook \cup {[event |-> e, row |-> row]}
  /\ UNCHANGED <<row, external, processed, req, ledger, crashes>>

\* What the transaction makes of the row it has read: nothing, or a write.
Ignored(h) ==
  \/ h.row = None
  \/ h.event.session \in Rentals /\ h.row.paid
  \/ /\ h.event.session \in Deposits
     /\ \/ h.row.holdSession # h.event.session
        \/ h.row.hold = "UNCAPTURED" /\ h.row.pi # None

nextStatus(status) == IF status \in Unpaid THEN "CONFIRMED" ELSE status

Applied(h) ==
  IF h.event.session \in Rentals
  THEN [row EXCEPT !.paid = TRUE, !.session = h.event.session, !.status = nextStatus(h.row.status)]
  ELSE [row EXCEPT !.pi = h.event.session, !.hold = "UNCAPTURED"]

\* An update of a row that has gone fails and rolls the transaction back.
WebhookCommit(e) ==
  \E h \in hook :
    /\ h.event = e
    /\ hook' = hook \ {h}
    /\ row' = IF Ignored(h) \/ row = None THEN row ELSE Applied(h)
    /\ processed' = IF Ignored(h) \/ row # None THEN processed \cup {e} ELSE processed
    /\ UNCHANGED <<external, req, ledger, crashes>>

\* The API process dies, or a query fails: Stripe will deliver the event again.
WebhookRollback(e) ==
  /\ crashes < MaxCrashes /\ crashes' = crashes + 1
  /\ \E h \in hook : h.event = e /\ hook' = hook \ {h}
  /\ UNCHANGED <<row, external, processed, req, ledger>>

(***************************************************************************)
(* The other handlers start with a read of the row and its guards.         *)
(***************************************************************************)

Go(p, next) == req' = [req EXCEPT ![p] = next]
Finish(p) == Go(p, Idle)

Arrive(p, op, at) ==
  /\ op \in Ops /\ req[p].at = "idle" /\ row # None
  /\ Go(p, [Idle EXCEPT !.op = op, !.at = at, !.row = row])
  /\ UNCHANGED <<row, external, processed, hook, ledger, crashes>>

RequestCheckout(p) ==
  \/ Arrive(p, "checkout", "create") /\ ~row.paid
  \/ Arrive(p, "publicCheckout", "create") /\ Source = "PUBLIC_WEB" /\ ~row.paid /\ row.status \in Unpaid

RequestDeposit(p) ==
  Arrive(p, "deposit", "create") /\ row.status # "CANCELLED" /\ row.hold \notin OnBook

RequestCapture(p) == Arrive(p, "capture", "retrieve") /\ row.hold = "UNCAPTURED" /\ row.pi # None

RequestRelease(p) == Arrive(p, "release", "call") /\ row.hold = "UNCAPTURED" /\ row.pi # None

RequestRefund(p) ==
  \/ Arrive(p, "refundRental", "refund") /\ row.paid /\ row.session # None
  \/ Arrive(p, "refundDeposit", "refund") /\ row.hold = "CAPTURED" /\ row.pi # None

RequestCancel(p) ==
  /\ Source = "PARTNER"
  /\ Arrive(p, "cancel", "write")
  /\ row.status \in Cancellable /\ ~row.paid /\ row.hold \notin OnBook \cup {"PENDING"}

RequestDelete(p) == Arrive(p, "delete", "write") /\ row.status = "QUOTE"

(***************************************************************************)
(* ... then call Stripe, then write.                                       *)
(***************************************************************************)

CreateSession(p) ==
  LET r == req[p] IN
  /\ r.at = "create"
  /\ \E s \in IF r.op = "deposit" THEN Deposits ELSE Rentals :
       /\ stripe[s] = "none"
       /\ stripe' = [stripe EXCEPT ![s] = "created"]
       /\ Go(p, [r EXCEPT !.at = "store", !.session = s])
  /\ UNCHANGED <<row, sent, processed, hook, refunded, ledger, crashes>>

\* Only now does anybody get the session's URL.
StoreSession(p) ==
  LET r == req[p] IN
  /\ r.at = "store" /\ Finish(p)
  /\ IF row = None THEN UNCHANGED <<row, stripe>>
     ELSE /\ stripe' = [stripe EXCEPT ![r.session] = "open"]
          /\ row' = IF r.op = "deposit" THEN [row EXCEPT !.holdSession = r.session, !.hold = "PENDING"]
                    ELSE [row EXCEPT !.session = r.session]
  /\ UNCHANGED <<sent, processed, hook, refunded, ledger, crashes>>

RetrieveHold(p) ==
  /\ req[p].at = "retrieve"
  /\ Go(p, IF stripe[req[p].row.pi] = "held" THEN [req[p] EXCEPT !.at = "call"] ELSE Idle)
  /\ UNCHANGED <<row, external, processed, hook, ledger, crashes>>

\* Stripe refuses, or does it; and its answer, or that of the calls after it, may be an error.
SettleHold(p) ==
  LET r == req[p] IN
  /\ r.at = "call"
  /\ \/ /\ stripe[r.row.pi] = "held"
        /\ stripe' = [stripe EXCEPT ![r.row.pi] = IF r.op = "capture" THEN "captured" ELSE "canceled"]
        /\ \E at \in {"done", "failed"} : Go(p, [r EXCEPT !.at = at])
     \/ Go(p, [r EXCEPT !.at = "failed"]) /\ UNCHANGED stripe
  /\ UNCHANGED <<row, sent, processed, hook, refunded, ledger, crashes>>

\* Mutant: a failed call is stored as a success.
SettledAs(r) == IF r.op = "capture" THEN "CAPTURED" ELSE "CANCELED"

OutcomeOf(r) == IF r.at = "failed" THEN "FAILED" ELSE IF r.op = "capture" THEN "CAPTURED" ELSE "CANCELED"

StoreOutcome(p) ==
  /\ req[p].at \in {"done", "failed"} /\ Finish(p)
  /\ row' = IF row = None THEN None ELSE [row EXCEPT !.hold = OutcomeOf(req[p])]
  /\ UNCHANGED <<external, processed, hook, ledger, crashes>>

\* The payment a refund is of: the rental session on file, or the deposit.
Refundable(r) == IF r.op = "refundRental" THEN r.row.session ELSE r.row.pi

Refund(p) ==
  LET s == Refundable(req[p]) IN
  /\ req[p].at = "refund"
  /\ \/ /\ stripe[s] \in {"paid", "captured"}
        /\ refunded' = refunded \cup {s}
        /\ Go(p, [req[p] EXCEPT !.at = "ledger"])
     \/ Finish(p) /\ UNCHANGED refunded
  /\ UNCHANGED <<row, stripe, sent, processed, hook, ledger, crashes>>

\* Best effort: the insert may fail, and does when the reservation is gone.
RecordRefund(p) ==
  /\ req[p].at = "ledger" /\ Finish(p)
  /\ \/ row # None /\ ledger' = ledger \cup {Refundable(req[p])}
     \/ UNCHANGED ledger
  /\ UNCHANGED <<row, external, processed, hook, crashes>>

\* cancelForPartner and removeDraft, whatever the row is by now.
WriteCancel(p) ==
  /\ req[p].at = "write" /\ req[p].op = "cancel" /\ Finish(p)
  /\ row' = IF row = None THEN None ELSE [row EXCEPT !.status = "CANCELLED"]
  /\ UNCHANGED <<external, processed, hook, ledger, crashes>>

\* The refund ledger goes with its reservation.
WriteDelete(p) ==
  /\ req[p].at = "write" /\ req[p].op = "delete" /\ Finish(p)
  /\ row' = None /\ ledger' = {}
  /\ UNCHANGED <<external, processed, hook, crashes>>

\* PATCH sets the status, and nothing else of the row of payments.
SetStatus ==
  /\ "patch" \in Ops /\ row # None
  /\ \E st \in DeskStatuses : row' = [row EXCEPT !.status = st]
  /\ UNCHANGED <<external, processed, hook, req, ledger, crashes>>

\* The API process dies, or a call or query fails, in the middle of a request.
Abort(p) ==
  /\ req[p].at # "idle" /\ Finish(p)
  /\ UNCHANGED <<row, external, processed, hook, ledger, crashes>>

Webhook(e) == WebhookBegin(e) \/ WebhookCommit(e) \/ WebhookRollback(e)

Next ==
  \/ \E s \in Rentals : CustomerPays(s)
  \/ \E d \in Deposits : CustomerAuthorises(d)
  \/ \E s \in Sessions : SessionExpires(s)
  \/ \E e \in Events : Webhook(e)
  \/ \E p \in Requests :
       \/ RequestCheckout(p) \/ RequestDeposit(p) \/ RequestCapture(p) \/ RequestRelease(p)
       \/ RequestRefund(p) \/ RequestCancel(p) \/ RequestDelete(p)
       \/ CreateSession(p) \/ StoreSession(p) \/ RetrieveHold(p) \/ SettleHold(p) \/ StoreOutcome(p)
       \/ Refund(p) \/ RecordRefund(p) \/ WriteCancel(p) \/ WriteDelete(p) \/ Abort(p)
  \/ SetStatus

Spec == Init /\ [][Next]_vars

\* Stripe delivers an event until it is answered, and a transaction ends.
FairSpec == Spec /\ \A e \in Events : WF_vars(WebhookBegin(e)) /\ WF_vars(WebhookCommit(e))

-----------------------------------------------------------------------------
(***************************************************************************)
(* Properties.                                                             *)
(***************************************************************************)

\* Every variable keeps its shape.
TypeOK ==
  /\ row \in Row \cup {None}
  /\ stripe \in [Sessions -> SessionStates]
  /\ sent \subseteq Events /\ processed \subseteq Events
  /\ hook \subseteq [event : Events, row : Row \cup {None}]
  /\ req \in [Requests -> Request]
  /\ refunded \subseteq Sessions /\ ledger \subseteq Sessions
  /\ crashes \in 0..MaxCrashes

\* A reservation is recorded as paid only when a customer's money has arrived:
\* not at checkout.session.completed of a method that settles later.
PaidIsReal == row # None /\ row.paid => \E s \in Rentals : stripe[s] = "paid"

\* A deposit is recorded as captured only when Stripe has captured one.
CapturedIsReal == row # None /\ row.hold = "CAPTURED" => \E d \in Deposits : stripe[d] = "captured"

\* An event kept in ProcessedStripeEvent, whose replays are dropped, has left
\* its payment on the reservation: no crash between the two loses it.
RecordedIsApplied ==
  row # None => \A e \in processed : e.session \in Rentals => row.paid

\* A hold that has been captured, released or has failed is never open again:
\* a replay of the event that opened it changes nothing.
ReplayNeverReopens ==
  [][row # None /\ row' # None /\ row.pi # None /\ row'.pi = row.pi /\ row'.hold = "UNCAPTURED"
       => row.hold = "UNCAPTURED"]_vars

\* A rental that is paid at Stripe ends up recorded, through delayed payment
\* methods, lost answers and rollbacks, unless its draft is deleted.
PaymentReachesBooking ==
  \A s \in Rentals : stripe[s] = "paid" ~> (row = None \/ row.paid)

\* A deposit the customer has authorised does not stay PENDING for ever.
HoldReachesBooking ==
  \A d \in Deposits :
    (stripe[d] = "held" /\ row # None /\ row.holdSession = d /\ row.hold = "PENDING")
      ~> (row = None \/ row.holdSession # d \/ row.hold # "PENDING")

-----------------------------------------------------------------------------
(***************************************************************************)
(* The inductive invariant.                                                *)
(***************************************************************************)

\* Stripe reports what has happened, and what has arrived here was reported.
EventsSound ==
  /\ \A e \in sent : e.session \in Rentals /\ Applies(e) => stripe[e.session] = "paid"
  /\ processed \subseteq sent
  /\ \A h \in hook : h.event \in sent /\ Applies(h.event)

\* What a request has made Stripe do is done, and nobody else undoes it.
Sound(r) ==
  /\ r.at \in {"retrieve", "call", "done", "failed"} => r.op \in Settling /\ r.row \in Row /\ r.row.pi # None
  /\ r.at \in {"refund", "ledger"} => r.op \in Refunding /\ r.row \in Row /\ Refundable(r) \in Sessions
  /\ r.at = "done" /\ r.op = "capture" => stripe[r.row.pi] = "captured"
  /\ r.at = "ledger" => Refundable(r) \in refunded
  /\ r.at = "create" => r.op \in {"checkout", "publicCheckout", "deposit"}
  /\ r.at = "store" => /\ r.session \in IF r.op = "deposit" THEN Deposits ELSE Rentals
                       /\ stripe[r.session] = "created"

RequestsSound == \A p \in Requests : Sound(req[p])

\* A reservation that was gone, or paid, when a webhook read it still is; the
\* ledger lists what Stripe has refunded.
ReadsSound ==
  /\ \A h \in hook : h.row = None => row = None
  /\ \A h \in hook : h.row # None /\ h.row.paid => row = None \/ row.paid
  /\ ledger \subseteq refunded

Books ==
  TypeOK /\ EventsSound /\ RequestsSound /\ ReadsSound /\ PaidIsReal /\ CapturedIsReal /\ RecordedIsApplied

\* No two requests have made the same session.
SessionsApart ==
  \A p, q \in Requests :
    req[p].at = "store" /\ req[q].at = "store" /\ p # q => req[p].session # req[q].session

Authorised(d) == [session |-> d, type |-> "completed", payment |-> "unpaid"]

\* A deposit is reported by one event; once that is on the row it is recorded,
\* and no transaction has it in hand again.
HoldsReported ==
  /\ \A e \in sent : e.session \in Deposits => e = Authorised(e.session)
  /\ \A g, h \in hook : g.event = h.event => g = h
  /\ \A h \in hook : h.event \notin processed
  /\ row # None /\ row.pi # None => Authorised(row.pi) \in processed

\* Inductive: the books are right, and so is what every handler in flight, of
\* the webhook and of the desk, has read of them and of Stripe.
PaymentsInv == Books /\ SessionsApart /\ HoldsReported

-----------------------------------------------------------------------------
(***************************************************************************)
(* What holds while the webhook stays apart from links and settlements.    *)
(***************************************************************************)

Links == {"checkout", "publicCheckout"}

\* No webhook transaction is in flight while a rental link is made or a hold is
\* settled.  Nothing in the code sees to it.
WebhooksApart == \A p \in Requests : req[p].op \in Links \cup Settling => hook = {}

\* What the row says of its own payment and of its own hold is so at Stripe: a
\* refund of the session on file finds money, and a hold recorded as captured or
\* released is (createRentalStripeCheckoutSession, captureDeposit, cancelDepositHold).
RowTells ==
  row # None =>
    /\ row.paid => row.session # None /\ stripe[row.session] = "paid"
    /\ row.hold = "CAPTURED" => row.pi # None /\ stripe[row.pi] = "captured"
    /\ row.hold = "CANCELED" => row.pi # None /\ stripe[row.pi] = "canceled"

\* A link is made for a reservation that is still unpaid; the hold that is
\* settled is still the one on the row, and Stripe has settled it.
InHand(r) ==
  /\ r.at \in {"create", "store"} => r.op \in Links \cup {"deposit"}
  /\ r.op \in Links => row = None \/ ~row.paid
  /\ r.op \in Settling => row = None \/ row.pi = r.row.pi
  /\ r.at = "done" => stripe[r.row.pi] = IF r.op = "capture" THEN "captured" ELSE "canceled"

SerialInv == RowTells /\ \A p \in Requests : InHand(req[p])
=============================================================================
